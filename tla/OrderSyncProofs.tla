-------------------------- MODULE OrderSyncProofs --------------------------
(***************************************************************************)
(* Proofs about OrderSync, for any number of orders, sessions and users    *)
(* and any number of failures: first what pulls import, then what reports  *)
(* and pulls tell the two systems about each other, and that they agree on *)
(* an order at rest.                                                       *)
(***************************************************************************)
EXTENDS OrderSync, TLAPS

USE DEF pulled, txns, data, budgets, ghosts, vars

-----------------------------------------------------------------------------
(* The inductive invariant *)

Exists(o) == row[o].state # "none"

\* Every order was written once, and the partners are those of one pull.
Imported ==
  /\ NoDuplicateOrders /\ NoDuplicateCustomers
  /\ \A o \in Orders : copies[o] > 0 => Exists(o)

\* Reports are about orders that exist.
Reporting ==
  /\ \A o \in Orders : \A k \in Kind : queue[o][k] > 0 => Exists(o)
  /\ \A a \in Reporters :
       pc[a] # "idle" =>
         /\ job[a].order \in Orders /\ job[a].kind \in Kind /\ Exists(job[a].order)
         /\ pc[a] \in {"open", "sent"} => view[a][job[a].order].state # "none"
         /\ pc[a] # "processing"

\* What a pull has done so far is about orders that Cartona returned.
Listing ==
  \A p \in Pullers :
    /\ pc[p] \in {"idle", "open", "processing"}
    /\ pc[p] # "processing" =>
         new[p] = {} /\ wrote[p] = {} /\ todo[p] = {} /\ made[p] = Nobody
    /\ \A o \in new[p] \cup wrote[p] : view[p][o].state # "none"
    /\ \A o \in new[p] \cup wrote[p] \cup todo[p] : got[p][o] # "none"
    /\ todo[p] \cap (new[p] \cup wrote[p]) = {} /\ new[p] \cap wrote[p] = {}
    /\ (\A o \in Orders : got[p][o] = "none") => made[p] = Nobody

\* Unless another pull committed, or the switch was turned, since its snapshot,
\* a pull has found every order and every partner there is.
Fresh ==
  \A p \in Pullers :
    pc[p] # "idle" /\ Config \notin missed[p] =>
      /\ enabled
      /\ \A o \in Orders : view[p][o].state = "none" \/ o \in new[p] => ~Exists(o)
      /\ \A c \in Customers : c \notin met[p] => customers[c] = 0
Single ==
  \A p \in Pullers : \A c \in Customers :
    made[p][c] <= 1 /\ (made[p][c] > 0 => c \notin met[p])

IInv == TypeOK /\ Imported /\ Reporting /\ Listing /\ Fresh /\ Single

-----------------------------------------------------------------------------
(* Types *)

\* What the code makes of a sale order is a sale order.
LEMMA RowTypes ==
  ASSUME NEW r \in Row, NEW s \in Status, NEW stock \in BOOLEAN
  PROVE  /\ Applied(r, s, stock) \in Row
         /\ Updated(r, s, stock) \in Row
         /\ \A otp \in {"free", "asked"} : Created(s, stock, otp) \in Row
         /\ [r EXCEPT !.syncStatus = "error"] \in Row
<1>1. ASSUME NEW q \in Row PROVE Applied(q, s, stock) \in Row
  <2> DEFINE st == IF q.state = "draft" THEN "sale" ELSE q.state
             d  == q.done \/ (s = "delivered" /\ st = "sale" /\ stock /\ q.otp # "asked")
  <2>1. st \in {"none", "draft", "sale", "cancel"}
    BY DEF Row
  <2>2. d \in BOOLEAN
    OBVIOUS
  <2>3. \A e \in BOOLEAN : [q EXCEPT !.state = st, !.done = e] \in Row
    BY <2>1 DEF Row
  <2>4. [q EXCEPT !.state = st, !.done = d] \in Row
    BY <2>2, <2>3
  <2>5. [q EXCEPT !.state = "cancel"] \in Row
    BY DEF Row
  <2> QED
    BY <2>4, <2>5 DEF Applied
<1>2. Updated(r, s, stock) \in Row
  BY <1>1 DEF Updated, Row
<1>3. ASSUME NEW otp \in {"free", "asked"} PROVE Created(s, stock, otp) \in Row
  <2>1. [state |-> "draft", cartonaStatus |-> s, syncStatus |-> "not_synced",
         otp |-> otp, done |-> FALSE] \in Row
    BY DEF Row
  <2> QED
    BY <1>1, <2>1 DEF Created
<1> QED
  BY <1>1, <1>2, <1>3 DEF Row

\* What a report says and leaves is a status and a sale order.
LEMMA ReportTypes ==
  ASSUME TypeOK, NEW a \in Reporters, job[a].order \in Orders,
         view[a][job[a].order].state # "none"
  PROVE  /\ Reported(a) \in Status
         /\ Recorded(a) \in Row
         /\ Recorded(a).state = view[a][job[a].order].state
         /\ Recorded(a).done = view[a][job[a].order].done
<1>1. view[a][job[a].order] \in Row
  BY DEF TypeOK, Actors
<1>2. Reported(a) \in Status
  BY <1>1 DEF Reported, ToCartona, Status, Cancelled, Row
<1> QED
  BY <1>1, <1>2 DEF Recorded, Row

\* Partners are created one at a time.
LEMMA FindOrCreateType ==
  ASSUME TypeOK, NEW p \in Pullers, NEW o \in Orders, FindOrCreate(p, o) \/ UNCHANGED made
  PROVE  made' \in [Pullers -> [Customers -> Nat]]
<1> PICK c \in Customers : c = Buyer[o]
  BY OrderAssumption
<1>1. made' = made \/ made' = [made EXCEPT ![p][c] = @ + 1]
  BY DEF FindOrCreate
<1>2. made \in [Pullers -> [Customers -> Nat]]
  BY DEF TypeOK
<1> QED
  BY <1>1, <1>2

\* The commit and the end of a transaction keep the types.
LEMMA CommitType ==
  ASSUME TypeOK, NEW a, NEW rows \in SUBSET (Orders \cup {Config}), Commit(a, rows)
  PROVE  missed' \in [Actors -> SUBSET (Orders \cup {Config})]
  BY DEF TypeOK, Commit

LEMMA EndPullType ==
  ASSUME TypeOK, NEW p \in Pullers, EndPull(p)
  PROVE  /\ pc' \in [Actors -> {"idle", "form", "open", "processing", "sent", "dialog"}]
         /\ view' \in [Actors -> [Orders -> Row]]
         /\ wrote' \in [Actors -> SUBSET Orders] /\ new' \in [Actors -> SUBSET Orders]
         /\ met' \in [Pullers -> SUBSET Customers]
         /\ made' \in [Pullers -> [Customers -> Nat]]
         /\ got' \in [Pullers -> [Orders -> Status \cup {"none"}]]
         /\ todo' \in [Pullers -> SUBSET Orders]
         /\ job' = job
<1>1. NoRow \in Row /\ Nobody \in [Customers -> Nat] /\ p \in Actors
  BY DEF NoRow, Row, Nobody, Actors
<1> QED
  BY <1>1 DEF TypeOK, EndPull, End

LEMMA EndReportType ==
  ASSUME TypeOK, NEW a \in Reporters, NEW x \in {"idle", "form", "dialog"},
         NEW j \in Report,
         EndReport(a, x, j)
  PROVE  /\ pc' \in [Actors -> {"idle", "form", "open", "processing", "sent", "dialog"}]
         /\ view' \in [Actors -> [Orders -> Row]]
         /\ wrote' \in [Actors -> SUBSET Orders] /\ new' \in [Actors -> SUBSET Orders]
         /\ job' \in [Reporters -> Report]
         /\ UNCHANGED pulled
<1>1. NoRow \in Row /\ a \in Actors
  BY DEF NoRow, Row, Actors
<1> QED
  BY <1>1 DEF TypeOK, EndReport, End

\* An action that fails leaves an order, confirmed perhaps.
LEMMA ErrorRow ==
  ASSUME TypeOK, NEW p \in Pullers, NEW o \in Orders, ProcessError(p, o)
  PROVE  \E r \in Row :
           /\ view' = [view EXCEPT ![p][o] = r]
           /\ r.cartonaStatus = view[p][o].cartonaStatus /\ r.done = view[p][o].done
           /\ r.state # "none"
           /\ \/ r.state = view[p][o].state
              \/ /\ view[p][o].state = "draft" /\ r.state = "sale"
                 /\ NeedsTransition(view[p][o], got[p][o]) /\ ToOdoo(got[p][o]) = "sale"
<1>1. PICK u \in Interrupted(view[p][o], got[p][o]) :
        view' = [view EXCEPT ![p][o] = [u EXCEPT !.syncStatus = "error"]]
  BY DEF ProcessError
<1>2. view[p][o] \in Row /\ view[p][o].state # "none"
  BY DEF TypeOK, Actors, ProcessError
<1>3. \/ u = view[p][o]
      \/ /\ u = [view[p][o] EXCEPT !.state = "sale"] /\ view[p][o].state = "draft"
         /\ NeedsTransition(view[p][o], got[p][o]) /\ ToOdoo(got[p][o]) = "sale"
  BY <1>1 DEF Interrupted, ToOdoo, Cancelled
<1>4. /\ u \in Row /\ u.state # "none" /\ u.cartonaStatus = view[p][o].cartonaStatus
      /\ u.done = view[p][o].done /\ (u # view[p][o] => u.state = "sale")
  BY <1>2, <1>3 DEF Row
<1>5. /\ [u EXCEPT !.syncStatus = "error"] \in Row
      /\ [u EXCEPT !.syncStatus = "error"].state = u.state
      /\ [u EXCEPT !.syncStatus = "error"].cartonaStatus = u.cartonaStatus
      /\ [u EXCEPT !.syncStatus = "error"].done = u.done
  BY <1>4 DEF Row
<1> QED
  BY <1>1, <1>3, <1>4, <1>5

\* An order that is kept because it cannot be deleted is confirmed.
LEMMA HalfRow ==
  ASSUME TypeOK, NEW p \in Pullers, NEW o \in Orders, NEW otp \in Payments,
         ProcessHalf(p, o, otp)
  PROVE  \E r \in Row :
           /\ view' = [view EXCEPT ![p][o] = r]
           /\ r.state = "sale" /\ ~r.done /\ r.cartonaStatus = got[p][o]
           /\ ToOdoo(got[p][o]) = "sale"
<1>1. PICK s \in {"approved", "delivered"} : s = got[p][o]
  BY DEF ProcessHalf
<1> DEFINE q == [state |-> "draft", cartonaStatus |-> s, syncStatus |-> "not_synced",
                 otp |-> otp, done |-> FALSE]
           c == Created(s, FALSE, otp)
<1>2. q \in Row
  BY OrderAssumption DEF Row, Status
<1>3. c = [q EXCEPT !.state = "sale", !.done = FALSE]
  BY DEF Created, Applied
<1>4. c \in Row /\ c.state = "sale" /\ ~c.done /\ c.cartonaStatus = s
  BY <1>2, <1>3 DEF Row
<1> HIDE DEF c
<1>5. /\ [c EXCEPT !.syncStatus = "error"] \in Row
      /\ [c EXCEPT !.syncStatus = "error"].state = "sale"
      /\ ~[c EXCEPT !.syncStatus = "error"].done
      /\ [c EXCEPT !.syncStatus = "error"].cartonaStatus = s
  BY <1>4 DEF Row
<1>6. ToOdoo(s) = "sale"
  BY DEF ToOdoo, Cancelled
<1>7. view' = [view EXCEPT ![p][o] = [c EXCEPT !.syncStatus = "error"]]
  BY <1>1 DEF ProcessHalf, c
<1> QED
  BY <1>1, <1>5, <1>6, <1>7

\* Every variable keeps its type.
LEMMA TypePull ==
  ASSUME TypeOK, Listing, NEW p \in Pullers, Pull(p)
  PROVE  TypeOK'
<1> USE OrderAssumption
<1>0. p \in Actors /\ p \notin Reporters
  BY DEF Actors, Reporters
<1>1. CASE PullBegin(p)
  BY <1>0, <1>1 DEF TypeOK, PullBegin, Snapshot
<1>2. CASE PullFetch(p)
  BY <1>0, <1>2 DEF TypeOK, PullFetch, Listed
<1>3. ASSUME NEW o \in Orders, NEW stock \in BOOLEAN, NEW otp \in Payments,
             ProcessNew(p, o, stock, otp)
      PROVE  TypeOK'
  <2>1. got[p][o] \in Status
    BY <1>3 DEF TypeOK, Listing, ProcessNew, Process
  <2>2. Created(got[p][o], stock, otp) \in Row
    <3>1. otp \in {"free", "asked"} /\ view[p][o] \in Row
      BY <1>0 DEF TypeOK
    <3> QED
      BY <2>1, <3>1, RowTypes
  <2>3. view' \in [Actors -> [Orders -> Row]] /\ new' \in [Actors -> SUBSET Orders]
    BY <1>0, <1>3, <2>2 DEF TypeOK, ProcessNew
  <2>4. made' \in [Pullers -> [Customers -> Nat]]
    BY <1>3, FindOrCreateType DEF ProcessNew
  <2> QED
    BY <1>0, <1>3, <2>3, <2>4 DEF TypeOK, ProcessNew, Process, Acknowledge
<1>4. ASSUME NEW o \in Orders, NEW stock \in BOOLEAN, ProcessUpdate(p, o, stock)
      PROVE  TypeOK'
  <2>1. got[p][o] \in Status /\ view[p][o] \in Row
    BY <1>0, <1>4 DEF TypeOK, Listing, ProcessUpdate, Process
  <2>2. Updated(view[p][o], got[p][o], stock) \in Row
    BY <2>1, RowTypes
  <2>3. view' \in [Actors -> [Orders -> Row]] /\ wrote' \in [Actors -> SUBSET Orders]
    BY <1>0, <1>4, <2>2 DEF TypeOK, ProcessUpdate
  <2> QED
    BY <1>0, <1>4, <2>3 DEF TypeOK, ProcessUpdate, Process, Acknowledge
<1>5. ASSUME NEW o \in Orders, ProcessUnchanged(p, o)
      PROVE  TypeOK'
  BY <1>0, <1>5 DEF TypeOK, ProcessUnchanged, Process, Acknowledge
<1>6. ASSUME NEW o \in Orders, ProcessError(p, o)
      PROVE  TypeOK'
  <2>1. PICK r \in Row : view' = [view EXCEPT ![p][o] = r]
    BY <1>6, ErrorRow
  <2>2. view' \in [Actors -> [Orders -> Row]]
    BY <1>0, <2>1 DEF TypeOK
  <2>3. wrote' \in [Actors -> SUBSET Orders]
    BY <1>0, <1>6 DEF TypeOK, ProcessError
  <2>4. failures' \in Nat
    BY <1>6 DEF TypeOK, ProcessError, Fails
  <2> QED
    BY <1>0, <1>6, <2>2, <2>3, <2>4 DEF TypeOK, ProcessError, Process
<1>7. ASSUME NEW o \in Orders, ProcessRejected(p, o)
      PROVE  TypeOK'
  <2>1. made' \in [Pullers -> [Customers -> Nat]]
    BY <1>7, FindOrCreateType DEF ProcessRejected
  <2>2. failures' \in Nat
    BY <1>7 DEF TypeOK, ProcessRejected, Fails
  <2> QED
    BY <1>0, <1>7, <2>1, <2>2 DEF TypeOK, ProcessRejected, Process
<1>10. ASSUME NEW o \in Orders, NEW otp \in Payments, ProcessHalf(p, o, otp)
       PROVE  TypeOK'
  <2>1. PICK r \in Row : view' = [view EXCEPT ![p][o] = r]
    BY <1>10, HalfRow
  <2>2. view' \in [Actors -> [Orders -> Row]]
    BY <1>0, <2>1 DEF TypeOK
  <2>3. new' \in [Actors -> SUBSET Orders]
    BY <1>0, <1>10 DEF TypeOK, ProcessHalf
  <2>4. made' \in [Pullers -> [Customers -> Nat]]
    BY <1>10, FindOrCreateType DEF ProcessHalf
  <2>5. failures' \in Nat
    BY <1>10 DEF TypeOK, ProcessHalf, Fails
  <2> QED
    BY <1>0, <1>10, <2>2, <2>3, <2>4, <2>5 DEF TypeOK, ProcessHalf, Process
<1>8. CASE PullCommit(p)
  <2>1. Claimed(p) \cup new[p] \in SUBSET (Orders \cup {Config})
    BY <1>0 DEF TypeOK, Claimed
  <2>2. missed' \in [Actors -> SUBSET (Orders \cup {Config})]
    BY <1>8, <2>1, CommitType DEF PullCommit
  <2>3. row' \in [Orders -> Row] /\ copies' \in [Orders -> Nat]
    BY <1>0, <1>8 DEF TypeOK, PullCommit
  <2>4. customers' \in [Customers -> Nat]
    <3>1. customers' = [c \in Customers |-> customers[c] + made[p][c]]
      BY <1>8 DEF PullCommit
    <3>2. \A c \in Customers : customers[c] \in Nat /\ made[p][c] \in Nat
      BY DEF TypeOK
    <3> QED
      BY <3>1, <3>2
  <2>5. partial' \in SUBSET Orders
    <3>1. wrote[p] \cup new[p] \subseteq Orders /\ partial \subseteq Orders
      BY <1>0 DEF TypeOK
    <3> QED
      BY <1>8, <3>1 DEF PullCommit
  <2>6. EndPull(p) /\ UNCHANGED <<enabled, remote, told, queue, budgets, failed, undone>>
    BY <1>8 DEF PullCommit
  <2> QED
    BY <2>2, <2>3, <2>4, <2>5, <2>6, EndPullType DEF TypeOK
<1>9. CASE PullConflict(p) \/ PullRollback(p)
  <2>1. /\ Commit(p, {}) /\ EndPull(p)
        /\ UNCHANGED <<enabled, data, cartonas, users, ghosts>>
        /\ failures' \in Nat
    BY <1>9 DEF PullConflict, PullRollback, Fails, TypeOK
  <2>2. missed' \in [Actors -> SUBSET (Orders \cup {Config})]
    BY <2>1, CommitType
  <2> QED
    BY <2>1, <2>2, EndPullType DEF TypeOK
<1> QED
  BY <1>1, <1>2, <1>3, <1>4, <1>5, <1>6, <1>7, <1>8, <1>9, <1>10 DEF Pull, New

\* So it does in a report, whose order exists.
LEMMA TypeReport ==
  ASSUME TypeOK, NEW a \in Reporters,
         Send(a) \/ JobCommit(a) \/ JobConflict(a) \/ JobCrash(a),
         job[a].order \in Orders, job[a].kind \in Kind,
         pc[a] \in {"open", "sent"} => view[a][job[a].order].state # "none"
  PROVE  TypeOK'
<1> USE OrderAssumption
<1> PICK o \in Orders : o = job[a].order
  OBVIOUS
<1> PICK k \in Kind : k = job[a].kind
  OBVIOUS
<1>0. /\ a \in Actors
      /\ pc[a] \in {"open", "sent"} => Reported(a) \in Status /\ Recorded(a) \in Row
  BY ReportTypes DEF Actors
<1>1. CASE Send(a)
  <2>1. remote' \in [Orders -> Status \cup {"none"}]
    <3>1. /\ pc[a] = "open"
          /\ remote' = remote \/ remote' = [remote EXCEPT ![o] = Reported(a)]
      BY <1>1 DEF Send
    <3>2. remote \in [Orders -> Status \cup {"none"}]
      BY DEF TypeOK
    <3> QED
      BY <1>0, <3>1, <3>2
  <2>2. job' \in [Reporters -> Report]
    <3>1. job \in [Reporters -> Report]
      BY DEF TypeOK
    <3>2. \E x \in {"ok", "error"} : job' = [job EXCEPT ![a].answer = x]
      BY <1>1 DEF Send
    <3> QED
      BY <3>1, <3>2 DEF Report
  <2>3. failures' \in Nat
    BY <1>1 DEF TypeOK, Send, Fails
  <2> QED
    BY <1>0, <1>1, <2>1, <2>2, <2>3 DEF TypeOK, Send
<1>2. CASE JobCommit(a)
  <2>1. row' \in [Orders -> Row] /\ failed' \in SUBSET Orders
    BY <1>0, <1>2 DEF TypeOK, JobCommit, Record, Current
  <2>2. missed' \in [Actors -> SUBSET (Orders \cup {Config})]
    BY <1>2, CommitType DEF JobCommit, Record
  <2>3. NoJob \in Report
    BY DEF NoJob, Report
  <2>4. /\ EndReport(a, "idle", NoJob)
        /\ UNCHANGED <<enabled, remote, told, copies, customers, queue, budgets, undone, partial>>
    BY <1>2 DEF JobCommit, Record
  <2> QED
    BY <2>1, <2>2, <2>3, <2>4, EndReportType DEF TypeOK
<1>3. CASE JobConflict(a) \/ JobCrash(a)
  <2>1. Return(a) /\ failures' \in Nat
    BY <1>3 DEF JobConflict, JobCrash, Fails, TypeOK
  <2>2. queue' \in [Orders -> [Kind -> Nat]]
    BY <2>1 DEF TypeOK, Return
  <2>3. missed' \in [Actors -> SUBSET (Orders \cup {Config})]
    BY <2>1, CommitType DEF Return
  <2>4. NoJob \in Report
    BY DEF NoJob, Report
  <2>5. /\ EndReport(a, "idle", NoJob)
        /\ UNCHANGED <<enabled, remote, told, row, copies, customers, cartonas, users, ghosts>>
    BY <2>1 DEF Return
  <2> QED
    BY <2>1, <2>2, <2>3, <2>4, <2>5, EndReportType DEF TypeOK
<1> QED
  BY <1>1, <1>2, <1>3

\* So it does in a step of the wizard.
LEMMA TypeClerk ==
  ASSUME TypeOK, NEW c \in Clerks, Clerk(c) /\ ~Send(c),
         pc[c] # "idle" =>
           /\ job[c].order \in Orders
           /\ pc[c] = "sent" => view[c][job[c].order].state # "none"
  PROVE  TypeOK'
<1> USE OrderAssumption
<1>0. c \in Actors /\ c \in Reporters /\ NoJob \in Report
  BY DEF Actors, Reporters, NoJob, Report
<1>a. \A x \in {"none", "ok", "error", "skipped"} : [job[c] EXCEPT !.answer = x] \in Report
  BY <1>0 DEF TypeOK, Report
<1>1. ASSUME NEW o \in Orders, ClerkOpen(c, o) PROVE TypeOK'
  <2>1. [order |-> o, kind |-> "delivered", answer |-> "none"] \in Report
    BY DEF Report, Kind
  <2> QED
    BY <1>0, <1>1, <2>1 DEF TypeOK, ClerkOpen
<1>2. CASE ClerkConfirm(c)
  <2>1. job' \in [Reporters -> Report]
    BY <1>0, <1>a, <1>2 DEF TypeOK, ClerkConfirm
  <2>2. pc' \in [Actors -> {"idle", "form", "open", "processing", "sent", "dialog"}]
    BY <1>0, <1>2 DEF TypeOK, ClerkConfirm
  <2> QED
    BY <1>0, <1>2, <2>1, <2>2 DEF TypeOK, ClerkConfirm, Snapshot
<1>3. ASSUME NEW o \in Orders, o = job[c].order, NEW r \in Row, Record(c, r),
             NEW x \in {"idle", "dialog"}, NEW j \in Report, EndReport(c, x, j),
             partial' = partial \/ partial' = partial \cup {o}
      PROVE  TypeOK'
  <2>1. row' \in [Orders -> Row] /\ failed' \in SUBSET Orders /\ partial' \in SUBSET Orders
    BY <1>3 DEF TypeOK, Record
  <2>2. missed' \in [Actors -> SUBSET (Orders \cup {Config})]
    BY <1>3, CommitType DEF Record
  <2>3. UNCHANGED <<enabled, remote, told, copies, customers, queue, budgets, undone>>
    BY <1>3 DEF Record
  <2> QED
    BY <1>0, <1>3, <2>1, <2>2, <2>3, EndReportType DEF TypeOK
<1>4. ASSUME ClerkBlocked(c) \/ ClerkValidated(c) \/ ClerkAsked(c) PROVE TypeOK'
  <2> PICK o \in Orders : o = job[c].order
    BY <1>4 DEF ClerkBlocked, ClerkValidated, ClerkAsked, Current
  <2>1. Recorded(c) \in Row
    BY <1>0, <1>4, ReportTypes DEF ClerkBlocked, ClerkValidated, ClerkAsked, Current
  <2>2. /\ [Recorded(c) EXCEPT !.otp = "given", !.done = TRUE] \in Row
        /\ [Recorded(c) EXCEPT !.otp = "given"] \in Row
    BY <2>1 DEF Row
  <2>3. CASE ClerkBlocked(c)
    BY <1>0, <1>3, <2>1, <2>3 DEF ClerkBlocked
  <2>4. CASE ClerkValidated(c)
    BY <1>0, <1>3, <2>2, <2>4 DEF ClerkValidated
  <2>5. CASE ClerkAsked(c)
    BY <1>0, <1>a, <1>3, <2>2, <2>5 DEF ClerkAsked
  <2> QED
    BY <1>4, <2>3, <2>4, <2>5
<1>5. CASE ClerkAnswers(c)
  <2> PICK o \in Orders : o = job[c].order
    BY <1>5 DEF ClerkAnswers
  <2>1. row' \in [Orders -> Row]
    <3>0. row[o] \in Row
      BY DEF TypeOK
    <3>1. [row[o] EXCEPT !.done = TRUE] \in Row
      BY <3>0 DEF Row
    <3>2. row' = [row EXCEPT ![o] = [row[o] EXCEPT !.done = TRUE]]
      BY <1>5 DEF ClerkAnswers
    <3> QED
      BY <3>1, <3>2 DEF TypeOK
  <2>2. missed' \in [Actors -> SUBSET (Orders \cup {Config})]
    BY <1>5, CommitType DEF ClerkAnswers
  <2> QED
    BY <1>0, <1>5, <2>1, <2>2, EndReportType DEF TypeOK, ClerkAnswers
<1>6. CASE ClerkError(c)
  <2> PICK o \in Orders : o = job[c].order
    BY <1>6 DEF ClerkError, Current
  <2>1. row' \in [Orders -> Row] /\ undone' \in SUBSET Orders /\ failures' \in Nat
    BY <1>6 DEF TypeOK, ClerkError, Undone, Fails
  <2>2. missed' \in [Actors -> SUBSET (Orders \cup {Config})]
    BY <1>6, CommitType DEF ClerkError
  <2> QED
    BY <1>0, <1>6, <2>1, <2>2, EndReportType DEF TypeOK, ClerkError
<1>7. CASE ClerkConflict(c)
  <2> PICK o \in Orders : o = job[c].order
    BY <1>7 DEF ClerkConflict, Overtaken
  <2>1. undone' \in SUBSET Orders
    BY <1>7 DEF TypeOK, ClerkConflict
  <2>2. missed' \in [Actors -> SUBSET (Orders \cup {Config})]
    BY <1>7, CommitType DEF ClerkConflict
  <2> QED
    BY <1>0, <1>a, <1>7, <2>1, <2>2, EndReportType DEF TypeOK, ClerkConflict
<1>8. CASE ClerkCloses(c)
  BY <1>0, <1>8 DEF TypeOK, ClerkCloses
<1> QED
  BY <1>1, <1>2, <1>4, <1>5, <1>6, <1>7, <1>8 DEF Clerk

\* And when somebody acts on what is committed, or Cartona does.
LEMMA TypeUser ==
  ASSUME TypeOK, NEW o \in Orders, User(o)
  PROVE  TypeOK'
<1>a. row[o] \in Row
  BY DEF TypeOK
<1>0. /\ [row[o] EXCEPT !.done = TRUE] \in Row
      /\ \A y \in {"sale", "cancel", "draft"} : [row[o] EXCEPT !.state = y] \in Row
  BY <1>a DEF Row
<1>1. PICK r \in Row, k \in Kind :
        UserAct(o, r, k) /\ (partial' = partial \/ partial' = partial \cup {o})
  BY <1>a, <1>0 DEF User, UserConfirm, UserCancel, UserDraft, UserDeliver, UserSync, Kind
<1>2. row' \in [Orders -> Row] /\ partial' \in SUBSET Orders
  BY <1>1 DEF TypeOK, UserAct
<1>3. queue' \in [Orders -> [Kind -> Nat]] /\ failed' \in SUBSET Orders
  <2>1. \/ queue' = [queue EXCEPT ![o][k] = @ + 1] /\ failed' = failed
        \/ queue' = queue /\ failed' = failed \cup {o}
    BY <1>1 DEF UserAct
  <2>2. queue \in [Orders -> [Kind -> Nat]] /\ failed \subseteq Orders
    BY DEF TypeOK
  <2> QED
    BY <2>1, <2>2
<1>4. missed' \in [Actors -> SUBSET (Orders \cup {Config})]
  BY <1>1, CommitType DEF UserAct
<1>5. users' \in Nat
  BY <1>1 DEF TypeOK, UserAct, UserActs
<1> QED
  BY <1>1, <1>2, <1>3, <1>4, <1>5 DEF TypeOK, UserAct

LEMMA TypeOther ==
  ASSUME TypeOK,
         \/ \E o \in Orders : Cartona(o) \/ \E k \in Kind : JobSkip(o, k)
         \/ \E w \in Workers, o \in Orders, k \in Kind : JobBegin(w, o, k)
         \/ UserSwitches
         \/ UNCHANGED vars
  PROVE  TypeOK'
<1> USE OrderAssumption
<1>1. ASSUME NEW o \in Orders, Cartona(o) PROVE TypeOK'
  <2>1. CASE CartonaPlaces(o)
    BY <2>1 DEF TypeOK, CartonaPlaces, Status
  <2>2. ASSUME NEW s \in Status, CartonaMoves(o, s) PROVE TypeOK'
    BY <2>2 DEF TypeOK, CartonaMoves
  <2> QED
    BY <1>1, <2>1, <2>2 DEF Cartona
<1>2. ASSUME NEW o \in Orders, NEW k \in Kind, JobSkip(o, k) PROVE TypeOK'
  <2>1. queue' \in [Orders -> [Kind -> Nat]]
    BY <1>2 DEF TypeOK, JobSkip, Take
  <2> QED
    BY <1>2, <2>1 DEF TypeOK, JobSkip
<1>3. ASSUME NEW w \in Workers, NEW o \in Orders, NEW k \in Kind, JobBegin(w, o, k)
      PROVE  TypeOK'
  <2>1. queue' \in [Orders -> [Kind -> Nat]]
    BY <1>3 DEF TypeOK, JobBegin, Take
  <2>2. w \in Actors /\ w \in Reporters
    BY DEF Actors, Reporters
  <2>3. [order |-> o, kind |-> k, answer |-> "none"] \in Report
    BY DEF Report
  <2> QED
    BY <1>3, <2>1, <2>2, <2>3 DEF TypeOK, JobBegin, Snapshot
<1>4. CASE UserSwitches
  <2>1. missed' \in [Actors -> SUBSET (Orders \cup {Config})]
    BY <1>4, CommitType DEF UserSwitches
  <2> QED
    BY <1>4, <2>1 DEF TypeOK, UserSwitches, UserActs
<1>5. CASE UNCHANGED vars
  BY <1>5 DEF TypeOK
<1> QED
  BY <1>1, <1>2, <1>3, <1>4, <1>5

\* Every step keeps the types.
LEMMA TypeStep ==
  ASSUME TypeOK, Listing, Reporting, [Next]_vars
  PROVE  TypeOK'
<1>1. ASSUME NEW w \in Workers, Work(w) PROVE TypeOK'
  <2>1. w \in Reporters
    BY DEF Reporters
  <2>2. CASE \E o \in Orders, k \in Kind : JobBegin(w, o, k)
    BY <2>2, TypeOther
  <2>3. CASE Send(w) \/ JobCommit(w) \/ JobConflict(w) \/ JobCrash(w)
    <3>1. pc[w] # "idle"
      BY <2>3 DEF Send, JobCommit, Current, JobConflict, Overtaken, JobCrash
    <3> QED
      BY <2>1, <2>3, <3>1, TypeReport DEF Reporting
  <2> QED
    BY <1>1, <2>2, <2>3 DEF Work
<1>2. ASSUME NEW c \in Clerks, Clerk(c) PROVE TypeOK'
  <2>1. c \in Reporters
    BY DEF Reporters
  <2>2. CASE Send(c)
    BY <2>1, <2>2, TypeReport DEF Reporting, Send
  <2>3. CASE ~Send(c)
    BY <1>2, <2>1, <2>3, TypeClerk DEF Reporting
  <2> QED
    BY <2>2, <2>3
<1> QED
  BY <1>1, <1>2, TypePull, TypeUser, TypeOther DEF Next

-----------------------------------------------------------------------------
(* Effects of a step *)

\* A step writes one sale order that exists, and leaves it one that exists.
Writes == \E o \in Orders, r \in Row :
            Exists(o) /\ r.state # "none" /\ row' = [row EXCEPT ![o] = r]

LEMMA ReportRow ==
  ASSUME TypeOK, Reporting,
         (\E w \in Workers : Work(w)) \/ (\E c \in Clerks : Clerk(c))
  PROVE  UNCHANGED row \/ Writes
<1> USE DEF Writes
<1>2. ASSUME NEW a \in Reporters, NEW r \in Row, Record(a, r), pc[a] = "sent",
             r.state = Recorded(a).state
      PROVE  Writes
  <2> PICK o \in Orders : o = job[a].order
    BY <1>2 DEF Reporting
  <2>1. Exists(o) /\ view[a][o].state # "none"
    BY <1>2 DEF Reporting
  <2>2. r.state # "none"
    BY <1>2, <2>1, ReportTypes
  <2> QED
    BY <1>2, <2>1, <2>2 DEF Record
<1>3. ASSUME NEW w \in Workers, Work(w) PROVE UNCHANGED row \/ Writes
  <2>1. w \in Reporters
    BY DEF Reporters
  <2>2. CASE JobCommit(w)
    <3>1. Recorded(w) \in Row
      BY <2>1, <2>2, ReportTypes DEF Reporting, JobCommit, Current
    <3> QED
      BY <1>2, <2>1, <2>2, <3>1 DEF JobCommit, Current
  <2>3. CASE ~JobCommit(w)
    BY <1>3, <2>3 DEF Work, JobBegin, Send, JobConflict, JobCrash, Return
  <2> QED
    BY <2>2, <2>3
<1>4. ASSUME NEW c \in Clerks, Clerk(c) PROVE UNCHANGED row \/ Writes
  <2>1. c \in Reporters
    BY DEF Reporters
  <2>2. ASSUME ClerkBlocked(c) \/ ClerkValidated(c) \/ ClerkAsked(c) PROVE Writes
    <3>1. Recorded(c) \in Row /\ pc[c] = "sent"
      BY <2>1, <2>2, ReportTypes
      DEF Reporting, ClerkBlocked, ClerkValidated, ClerkAsked, Current
    <3>2. /\ [Recorded(c) EXCEPT !.otp = "given", !.done = TRUE] \in Row
          /\ [Recorded(c) EXCEPT !.otp = "given", !.done = TRUE].state = Recorded(c).state
          /\ [Recorded(c) EXCEPT !.otp = "given"] \in Row
          /\ [Recorded(c) EXCEPT !.otp = "given"].state = Recorded(c).state
      BY <3>1 DEF Row
    <3> QED
      BY <1>2, <2>1, <2>2, <3>1, <3>2 DEF ClerkBlocked, ClerkValidated, ClerkAsked
  <2>3. CASE ClerkAnswers(c)
    <3> PICK o \in Orders : o = job[c].order
      BY <2>1, <2>3 DEF Reporting, ClerkAnswers
    <3>1. row[o] \in Row /\ Exists(o)
      BY <2>3 DEF TypeOK, ClerkAnswers, Exists
    <3>2. [row[o] EXCEPT !.done = TRUE] \in Row /\ [row[o] EXCEPT !.done = TRUE].state # "none"
      BY <3>1 DEF Row, Exists
    <3>3. row' = [row EXCEPT ![o] = [row[o] EXCEPT !.done = TRUE]]
      BY <2>3 DEF ClerkAnswers
    <3> QED
      BY <3>1, <3>2, <3>3
  <2>4. CASE ClerkError(c)
    <3> PICK o \in Orders : o = job[c].order
      BY <2>1, <2>4 DEF Reporting, ClerkError, Current
    <3>1. row' = [row EXCEPT ![o] = row[o]]
      BY <2>4 DEF ClerkError, Undone
    <3> QED
      BY <3>1 DEF TypeOK
  <2>5. CASE (\E o \in Orders : ClerkOpen(c, o)) \/ ClerkConfirm(c) \/ Send(c)
             \/ ClerkConflict(c) \/ ClerkCloses(c)
    BY <2>5 DEF ClerkOpen, ClerkConfirm, Send, ClerkConflict, ClerkCloses
  <2> QED
    BY <1>4, <2>2, <2>3, <2>4, <2>5 DEF Clerk
<1> QED
  BY <1>3, <1>4

LEMMA UserRow ==
  ASSUME TypeOK, NEW o \in Orders, User(o)
  PROVE  Writes
<1>1. row[o] \in Row
  BY DEF TypeOK
<1>2. /\ [row[o] EXCEPT !.done = TRUE] \in Row
      /\ [row[o] EXCEPT !.done = TRUE].state = row[o].state
      /\ \A y \in {"sale", "cancel", "draft"} :
           [row[o] EXCEPT !.state = y] \in Row /\ [row[o] EXCEPT !.state = y].state = y
  BY <1>1 DEF Row
<1>3. PICK r \in Row, k \in Kind : UserAct(o, r, k) /\ r.state # "none" /\ Exists(o)
  BY <1>1, <1>2
  DEF User, UserConfirm, UserCancel, UserDraft, UserDeliver, UserSync, Kind, Exists
<1> QED
  BY <1>3 DEF UserAct, Writes

\* A step changes no sale order, or commits a pull, or writes one that exists.
LEMMA RowStep ==
  ASSUME TypeOK, Reporting, [Next]_vars
  PROVE  UNCHANGED row \/ Writes \/ \E p \in Pullers : PullCommit(p)
<1>1. ASSUME NEW p \in Pullers, Pull(p) PROVE UNCHANGED row \/ PullCommit(p)
  BY <1>1
  DEF Pull, New, PullBegin, PullFetch, ProcessNew, ProcessUpdate, ProcessUnchanged, ProcessError,
      ProcessHalf, ProcessRejected, Process, PullConflict, PullRollback
<1>2. ASSUME NEW o \in Orders, Cartona(o) \/ \E k \in Kind : JobSkip(o, k) PROVE UNCHANGED row
  BY <1>2 DEF Cartona, CartonaPlaces, CartonaMoves, JobSkip
<1>3. CASE UserSwitches \/ UNCHANGED vars
  BY <1>3 DEF UserSwitches
<1> QED
  BY <1>1, <1>2, <1>3, ReportRow, UserRow DEF Next

\* A sale order stays.
LEMMA Stays ==
  ASSUME TypeOK, Listing, Reporting, [Next]_vars, NEW o \in Orders, Exists(o)
  PROVE  Exists(o)'
<1>1. ASSUME NEW p \in Pullers, PullCommit(p) PROVE Exists(o)'
  BY <1>1 DEF Listing, Exists, PullCommit
<1>2. CASE Writes
  BY <1>2 DEF Writes, Exists, TypeOK
<1> QED
  BY <1>1, <1>2, RowStep DEF Exists

\* A step as an actor sees it whose step it is not: its own state stays, and
\* what others commit is among the rows it misses.
Others(a) ==
  /\ pc'[a] = pc[a] /\ view'[a] = view[a] /\ wrote'[a] = wrote[a] /\ new'[a] = new[a]
  /\ a \in Pullers => /\ met'[a] = met[a] /\ made'[a] = made[a]
                      /\ got'[a] = got[a] /\ todo'[a] = todo[a]
  /\ a \in Reporters => job'[a] = job[a]
  /\ pc[a] \in {"open", "processing", "sent"} =>
       /\ missed[a] \subseteq missed'[a]
       /\ \A o \in Orders : row'[o] = row[o] \/ o \in missed'[a]
       /\ Config \in missed'[a] \/ (/\ UNCHANGED <<enabled, copies, customers>>
                                    /\ \A o \in Orders : Exists(o)' => Exists(o))

\* What a commit adds to the rows that others miss.
LEMMA CommitMissed ==
  ASSUME TypeOK, NEW b, NEW rows, Commit(b, rows), NEW a \in Actors, a # b,
         pc[a] \in {"open", "processing", "sent"}
  PROVE  missed'[a] = missed[a] \cup rows
  BY DEF TypeOK, Commit

\* A pull that got nothing from Cartona commits nothing.
LEMMA EmptyCommit ==
  ASSUME TypeOK, Listing, NEW p \in Pullers, PullCommit(p), Config \notin Claimed(p)
  PROVE  UNCHANGED <<row, copies, customers>>
<1>0. p \in Actors
  BY DEF Actors
<1>1. (\A o \in Orders : got[p][o] = "none") /\ wrote[p] = {} /\ new[p] = {} /\ made[p] = Nobody
  BY <1>0, OrderAssumption DEF Claimed, Listing, TypeOK
<1>2. row' = row /\ copies' = copies
  BY <1>1 DEF PullCommit, TypeOK
<1>3. \A c \in Customers : customers[c] + made[p][c] = customers[c]
  BY <1>1 DEF Nobody, TypeOK
<1>4. customers' = [c \in Customers |-> customers[c] + made[p][c]]
  BY DEF PullCommit
<1>5. customers' = customers
  BY <1>3, <1>4 DEF TypeOK
<1> QED
  BY <1>2, <1>5

\* Pulls, seen by others.
LEMMA PullOthers ==
  ASSUME TypeOK, Listing, NEW p \in Pullers, Pull(p), NEW a \in Actors, a # p
  PROVE  Others(a)
<1> USE OrderAssumption
<1>0. p \in Actors /\ p \notin Reporters
  BY DEF Actors, Reporters
<1>1. CASE PullBegin(p)
  BY <1>0, <1>1 DEF TypeOK, Others, PullBegin, Snapshot, Exists
<1>2. CASE PullFetch(p)
  BY <1>0, <1>2 DEF TypeOK, Others, PullFetch, Exists
<1>3. ASSUME NEW o \in Orders, NEW stock \in BOOLEAN, NEW otp \in Payments,
             ProcessNew(p, o, stock, otp)
      PROVE  Others(a)
  <2>1. \A q \in Pullers : q # p => made'[q] = made[q]
    BY <1>3 DEF ProcessNew, FindOrCreate, TypeOK
  <2> QED
    BY <1>0, <1>3, <2>1 DEF TypeOK, Others, ProcessNew, Process, Exists
<1>4. ASSUME NEW o \in Orders, NEW stock \in BOOLEAN, ProcessUpdate(p, o, stock)
      PROVE  Others(a)
  BY <1>0, <1>4 DEF TypeOK, Others, ProcessUpdate, Process, Exists
<1>5. ASSUME NEW o \in Orders, ProcessUnchanged(p, o) \/ ProcessError(p, o)
      PROVE  Others(a)
  BY <1>0, <1>5 DEF TypeOK, Others, ProcessUnchanged, ProcessError, Process, Exists
<1>6. ASSUME NEW o \in Orders, ProcessRejected(p, o)
      PROVE  Others(a)
  <2>1. \A q \in Pullers : q # p => made'[q] = made[q]
    BY <1>6 DEF ProcessRejected, FindOrCreate, TypeOK
  <2> QED
    BY <1>0, <1>6, <2>1 DEF TypeOK, Others, ProcessRejected, Process, Exists
<1>10. ASSUME NEW o \in Orders, NEW otp \in Payments, ProcessHalf(p, o, otp)
       PROVE  Others(a)
  <2>1. \A q \in Pullers : q # p => made'[q] = made[q]
    BY <1>10 DEF ProcessHalf, FindOrCreate, TypeOK
  <2>2. view'[a] = view[a] /\ new'[a] = new[a]
    BY <1>10 DEF ProcessHalf, TypeOK
  <2> QED
    BY <1>0, <1>10, <2>1, <2>2 DEF TypeOK, Others, ProcessHalf, Process, Exists
<1>7. ASSUME EndPull(p)
      PROVE  /\ pc'[a] = pc[a] /\ view'[a] = view[a] /\ wrote'[a] = wrote[a] /\ new'[a] = new[a]
             /\ a \in Pullers => /\ met'[a] = met[a] /\ made'[a] = made[a]
                                 /\ got'[a] = got[a] /\ todo'[a] = todo[a]
             /\ job' = job
  BY <1>0, <1>7 DEF TypeOK, EndPull, End
<1>8. CASE PullCommit(p)
  <2>1. EndPull(p)
    BY <1>8 DEF PullCommit
  <2>2. ASSUME pc[a] \in {"open", "processing", "sent"}
        PROVE  missed'[a] = missed[a] \cup Claimed(p) \cup new[p]
    BY <1>8, <2>2, CommitMissed DEF PullCommit
  <2>3. \A o \in Orders : row'[o] = row[o] \/ o \in Claimed(p) \cup new[p]
    BY <1>8 DEF PullCommit, Claimed, TypeOK
  <2>4. CASE Config \in Claimed(p)
    BY <1>7, <2>1, <2>2, <2>3, <2>4 DEF Others
  <2>5. CASE Config \notin Claimed(p)
    <3>1. UNCHANGED <<row, copies, customers>>
      BY <1>8, <2>5, EmptyCommit
    <3>4. UNCHANGED enabled
      BY <1>8 DEF PullCommit
    <3> QED
      BY <1>7, <2>1, <2>2, <2>3, <3>1, <3>4 DEF Others, Exists
  <2> QED
    BY <2>4, <2>5
<1>9. CASE PullConflict(p) \/ PullRollback(p)
  <2>1. EndPull(p) /\ Commit(p, {}) /\ UNCHANGED <<enabled, data>>
    BY <1>9 DEF PullConflict, PullRollback
  <2>2. ASSUME pc[a] \in {"open", "processing", "sent"}
        PROVE  missed'[a] = missed[a]
    BY <2>1, <2>2, CommitMissed
  <2> QED
    BY <1>7, <2>1, <2>2 DEF Others, Exists
<1> QED
  BY <1>1, <1>2, <1>3, <1>4, <1>5, <1>6, <1>8, <1>9, <1>10 DEF Pull, New

\* The end of a report, seen by others: what it commits has to be among the
\* rows of its commit.
LEMMA EndOthers ==
  ASSUME TypeOK, NEW b \in Reporters, NEW x, NEW j, EndReport(b, x, j),
         NEW rows \in SUBSET Orders, Commit(b, rows),
         \A o \in Orders \ rows : row'[o] = row[o],
         \A o \in Orders : Exists(o)' => Exists(o),
         UNCHANGED <<enabled, copies, customers>>,
         NEW a \in Actors, a # b
  PROVE  Others(a)
<1>1. /\ pc'[a] = pc[a] /\ view'[a] = view[a] /\ wrote'[a] = wrote[a] /\ new'[a] = new[a]
      /\ UNCHANGED pulled /\ (a \in Reporters => job'[a] = job[a])
  BY DEF TypeOK, EndReport, End
<1>2. ASSUME pc[a] \in {"open", "processing", "sent"}
      PROVE  missed'[a] = missed[a] \cup rows
  BY <1>2, CommitMissed
<1> QED
  BY <1>1, <1>2 DEF Others

\* Jobs and the wizard, seen by others.
LEMMA ReportOthers ==
  ASSUME TypeOK, Reporting, NEW b \in Reporters,
         (b \in Workers /\ Work(b)) \/ (b \in Clerks /\ Clerk(b)),
         NEW a \in Actors, a # b
  PROVE  Others(a)
<1> USE OrderAssumption
<1>0. b \in Actors /\ b \notin Pullers
  BY DEF Actors, Reporters
<1>1. \A o \in Orders : Exists(o)' => Exists(o)
  <2>1. UNCHANGED row \/ Writes
    BY ReportRow
  <2> QED
    BY <2>1 DEF Writes, Exists, TypeOK
<1>2. ASSUME NEW r, pc[b] = "sent", Record(b, r), NEW x, NEW j, EndReport(b, x, j)
      PROVE  Others(a)
  <2> PICK o \in Orders : o = job[b].order
    BY <1>2 DEF Reporting
  <2>1. \A y \in Orders \ {o} : row'[y] = row[y]
    BY <1>2 DEF Record, TypeOK
  <2>2. Commit(b, {o}) /\ UNCHANGED <<enabled, copies, customers>>
    BY <1>2 DEF Record
  <2> QED
    BY <1>1, <1>2, <2>1, <2>2, EndOthers
<1>3. ASSUME NEW o \in Orders, NEW k \in Kind, b \in Workers, JobBegin(b, o, k)
      PROVE  Others(a)
  BY <1>0, <1>1, <1>3 DEF TypeOK, Others, JobBegin, Snapshot
<1>4. CASE Send(b)
  BY <1>0, <1>1, <1>4 DEF TypeOK, Others, Send
<1>5. CASE JobCommit(b)
  BY <1>2, <1>5 DEF JobCommit, Current
<1>6. CASE JobConflict(b) \/ JobCrash(b)
  <2>1. /\ EndReport(b, "idle", NoJob) /\ Commit(b, {})
        /\ UNCHANGED <<enabled, row, copies, customers>>
    BY <1>6 DEF JobConflict, JobCrash, Return
  <2> QED
    BY <1>1, <2>1, EndOthers
<1>7. CASE (\E o \in Orders : ClerkOpen(b, o)) \/ ClerkCloses(b)
  BY <1>0, <1>1, <1>7 DEF TypeOK, Others, ClerkOpen, ClerkCloses
<1>8. CASE ClerkConfirm(b)
  BY <1>0, <1>1, <1>8 DEF TypeOK, Others, ClerkConfirm, Snapshot
<1>9. CASE ClerkBlocked(b) \/ ClerkValidated(b) \/ ClerkAsked(b)
  BY <1>2, <1>9 DEF ClerkBlocked, ClerkValidated, ClerkAsked, Current
<1>10. CASE ClerkAnswers(b)
  <2> PICK o \in Orders : o = job[b].order
    BY <1>10 DEF Reporting, ClerkAnswers
  <2>1. \A y \in Orders \ {o} : row'[y] = row[y]
    BY <1>10 DEF ClerkAnswers, TypeOK
  <2>2. /\ Commit(b, {o}) /\ UNCHANGED <<enabled, copies, customers>>
        /\ EndReport(b, "idle", NoJob)
    BY <1>10 DEF ClerkAnswers
  <2> QED
    BY <1>1, <2>1, <2>2, EndOthers
<1>11. CASE ClerkError(b)
  <2> PICK o \in Orders : o = job[b].order
    BY <1>11 DEF Reporting, ClerkError, Current
  <2>1. \A y \in Orders : row'[y] = row[y]
    BY <1>11 DEF ClerkError, Undone, TypeOK
  <2>2. /\ Commit(b, {}) /\ UNCHANGED <<enabled, copies, customers>>
        /\ EndReport(b, "idle", NoJob)
    BY <1>11 DEF ClerkError
  <2> QED
    BY <1>1, <2>1, <2>2, EndOthers
<1>12. CASE ClerkConflict(b)
  <2>1. /\ Commit(b, {}) /\ UNCHANGED <<enabled, row, copies, customers>>
        /\ EndReport(b, "form", [job[b] EXCEPT !.answer = "none"])
    BY <1>12 DEF ClerkConflict
  <2> QED
    BY <1>1, <2>1, EndOthers
<1> QED
  BY <1>3, <1>4, <1>5, <1>6, <1>7, <1>8, <1>9, <1>10, <1>11, <1>12 DEF Work, Clerk

\* Users, and the other steps, seen by any actor.
LEMMA UserOthers ==
  ASSUME TypeOK, NEW o \in Orders, User(o), NEW a \in Actors
  PROVE  Others(a)
<1>1. PICK r, k : UserAct(o, r, k)
  BY DEF User, UserConfirm, UserCancel, UserDraft, UserDeliver, UserSync
<1>2. \A x \in Orders : row'[x] = row[x] \/ (x = o /\ r # row[o])
  BY <1>1 DEF UserAct, TypeOK
<1>3. ASSUME pc[a] \in {"open", "processing", "sent"}
      PROVE  missed'[a] = missed[a] \cup (IF r = row[o] THEN {} ELSE {o})
  <2>1. Config # a
    BY OrderAssumption DEF Actors, Reporters
  <2> QED
    BY <1>1, <1>3, <2>1, CommitMissed DEF UserAct
<1>4. \A x \in Orders : Exists(x)' => Exists(x)
  BY UserRow DEF Writes, Exists, TypeOK
<1> QED
  BY <1>1, <1>2, <1>3, <1>4 DEF Others, UserAct

LEMMA OtherOthers ==
  ASSUME TypeOK,
         \/ \E o \in Orders : Cartona(o) \/ \E k \in Kind : JobSkip(o, k)
         \/ UserSwitches
         \/ UNCHANGED vars,
         NEW a \in Actors
  PROVE  Others(a)
<1>1. CASE \E o \in Orders : Cartona(o) \/ \E k \in Kind : JobSkip(o, k)
  BY <1>1 DEF Others, Cartona, CartonaPlaces, CartonaMoves, JobSkip, Exists
<1>2. CASE UserSwitches
  <2>1. Config # a
    BY OrderAssumption DEF Actors, Reporters
  <2>2. pc[a] \in {"open", "processing", "sent"} => missed'[a] = missed[a] \cup {Config}
    BY <1>2, <2>1, CommitMissed DEF UserSwitches
  <2> QED
    BY <1>2, <2>2 DEF Others, UserSwitches
<1>3. CASE UNCHANGED vars
  BY <1>3 DEF Others, Exists
<1> QED
  BY <1>1, <1>2, <1>3

\* A step of the system is an actor's own step or seen as one of others.
Own(a) ==
  (a \in Pullers /\ Pull(a)) \/ (a \in Workers /\ Work(a)) \/ (a \in Clerks /\ Clerk(a))

LEMMA OwnOrOthers ==
  ASSUME TypeOK, Listing, Reporting, [Next]_vars, NEW a \in Actors
  PROVE  Own(a) \/ Others(a)
  BY PullOthers, ReportOthers, UserOthers, OtherOthers DEF Next, Own, Reporters

-----------------------------------------------------------------------------
(* Every step keeps the invariant *)

LEMMA ListingStep ==
  ASSUME TypeOK, Listing, Reporting, [Next]_vars
  PROVE  Listing'
<1> USE OrderAssumption
<1> DEFINE L(p) ==
      /\ pc[p] \in {"idle", "open", "processing"}
      /\ pc[p] # "processing" =>
           new[p] = {} /\ wrote[p] = {} /\ todo[p] = {} /\ made[p] = Nobody
      /\ \A o \in new[p] \cup wrote[p] : view[p][o].state # "none"
      /\ \A o \in new[p] \cup wrote[p] \cup todo[p] : got[p][o] # "none"
      /\ todo[p] \cap (new[p] \cup wrote[p]) = {} /\ new[p] \cap wrote[p] = {}
      /\ (\A o \in Orders : got[p][o] = "none") => made[p] = Nobody
<1> SUFFICES ASSUME NEW p \in Pullers PROVE L(p)'
  BY DEF Listing
<1>0. L(p) /\ p \in Actors /\ p \notin Reporters
  BY DEF Listing, Actors, Reporters
<1>1. CASE PullBegin(p)
  BY <1>0, <1>1 DEF TypeOK, PullBegin, Snapshot
<1>2. CASE PullFetch(p)
  BY <1>0, <1>2 DEF TypeOK, PullFetch, Listed
<1>3. ASSUME NEW o \in Orders, NEW stock \in BOOLEAN, NEW otp \in Payments,
             ProcessNew(p, o, stock, otp)
      PROVE  L(p)'
  <2>1. got[p][o] \in Status /\ view[p][o] \in Row
    BY <1>0, <1>3 DEF TypeOK, ProcessNew, Process
  <2>2. Created(got[p][o], stock, otp).state # "none"
    BY <2>1 DEF Created, Applied
  <2>3. view'[p][o].state # "none" /\ \A x \in Orders \ {o} : view'[p][x] = view[p][x]
    BY <1>0, <1>3, <2>2 DEF TypeOK, ProcessNew
  <2> QED
    BY <1>0, <1>3, <2>1, <2>3 DEF TypeOK, ProcessNew, Process
<1>4. ASSUME NEW o \in Orders, NEW stock \in BOOLEAN, ProcessUpdate(p, o, stock)
      PROVE  L(p)'
  <2>1. got[p][o] \in Status /\ view[p][o] \in Row /\ view[p][o].state # "none"
    BY <1>0, <1>4 DEF TypeOK, ProcessUpdate, Process
  <2>2. Updated(view[p][o], got[p][o], stock).state # "none"
    <3>1. Applied(view[p][o], got[p][o], stock) \in Row
      BY <2>1, RowTypes
    <3>2. Applied(view[p][o], got[p][o], stock).state # "none"
      BY <2>1 DEF Applied, Row
    <3> QED
      BY <2>1, <3>1, <3>2 DEF Updated, Row
  <2>3. view'[p][o].state # "none" /\ \A x \in Orders \ {o} : view'[p][x] = view[p][x]
    BY <1>0, <1>4, <2>2 DEF TypeOK, ProcessUpdate
  <2> QED
    BY <1>0, <1>4, <2>1, <2>3 DEF TypeOK, ProcessUpdate, Process
<1>5. ASSUME NEW o \in Orders, ProcessUnchanged(p, o)
      PROVE  L(p)'
  BY <1>0, <1>5 DEF TypeOK, ProcessUnchanged, Process
<1>6. ASSUME NEW o \in Orders, ProcessError(p, o)
      PROVE  L(p)'
  <2>1. PICK r \in Row : view' = [view EXCEPT ![p][o] = r] /\ r.state # "none"
    BY <1>6, ErrorRow
  <2>3. view'[p][o].state # "none" /\ \A x \in Orders \ {o} : view'[p][x] = view[p][x]
    BY <1>0, <2>1 DEF TypeOK
  <2> QED
    BY <1>0, <1>6, <2>3 DEF TypeOK, ProcessError, Process
<1>10. ASSUME NEW o \in Orders, NEW otp \in Payments, ProcessHalf(p, o, otp)
       PROVE  L(p)'
  <2>1. PICK r \in Row : view' = [view EXCEPT ![p][o] = r] /\ r.state = "sale"
    BY <1>10, HalfRow
  <2>2. got[p][o] \in {"approved", "delivered"}
    BY <1>10 DEF ProcessHalf
  <2>3. view'[p][o].state # "none" /\ \A x \in Orders \ {o} : view'[p][x] = view[p][x]
    BY <1>0, <2>1 DEF TypeOK
  <2> QED
    <3>1. /\ pc' = pc /\ got' = got /\ wrote' = wrote /\ pc[p] = "processing" /\ o \in todo[p]
          /\ todo' = [todo EXCEPT ![p] = @ \ {o}] /\ new' = [new EXCEPT ![p] = @ \cup {o}]
      BY <1>10 DEF ProcessHalf, Process
    <3>2. todo'[p] = todo[p] \ {o} /\ new'[p] = new[p] \cup {o}
      BY <1>0, <3>1 DEF TypeOK
    <3> QED
      BY <1>0, <2>2, <2>3, <3>1, <3>2 DEF TypeOK
<1>7. ASSUME NEW o \in Orders, ProcessRejected(p, o)
      PROVE  L(p)'
  BY <1>0, <1>7 DEF TypeOK, ProcessRejected, Process
<1>8. CASE PullCommit(p) \/ PullConflict(p) \/ PullRollback(p)
  <2>1. EndPull(p)
    BY <1>8 DEF PullCommit, PullConflict, PullRollback
  <2> QED
    BY <1>0, <2>1 DEF TypeOK, EndPull, End
<1>9. CASE Others(p)
  BY <1>0, <1>9 DEF Others
<1> QED
  BY <1>0, <1>1, <1>2, <1>3, <1>4, <1>5, <1>6, <1>7, <1>8, <1>9, <1>10, OwnOrOthers
  DEF Own, Pull, New, Reporters

LEMMA ReportingStep ==
  ASSUME TypeOK, Listing, Reporting, [Next]_vars
  PROVE  Reporting'
<1> USE OrderAssumption
<1>0. \A o \in Orders : Exists(o) => Exists(o)'
  BY Stays
<1>1. ASSUME NEW o \in Orders, NEW k \in Kind, queue'[o][k] > 0 PROVE Exists(o)'
  <2>1. ASSUME NEW x \in Orders, User(x) PROVE Exists(o)'
    <3>1. PICK r \in Row, j \in Kind : UserAct(x, r, j) /\ Exists(x)
      <4>1. row[x] \in Row
        BY DEF TypeOK
      <4>2. /\ [row[x] EXCEPT !.done = TRUE] \in Row
            /\ \A y \in {"sale", "cancel", "draft"} : [row[x] EXCEPT !.state = y] \in Row
        BY <4>1 DEF Row
      <4> QED
        BY <2>1, <4>1, <4>2
        DEF User, UserConfirm, UserCancel, UserDraft, UserDeliver, UserSync, Kind, Exists
    <3>2. queue' = queue \/ queue' = [queue EXCEPT ![x][j] = @ + 1]
      BY <3>1 DEF UserAct
    <3>3. queue[o][k] > 0 \/ o = x
      BY <1>1, <3>2 DEF TypeOK
    <3> QED
      BY <1>0, <3>1, <3>3 DEF Reporting
  <2>2. ASSUME NEW x \in Orders, NEW j \in Kind, Take(x, j) PROVE Exists(o)'
    <3>1. queue[o][k] > 0
      BY <1>1, <2>2 DEF TypeOK, Take
    <3> QED
      BY <1>0, <3>1 DEF Reporting
  <2>3. ASSUME NEW w \in Workers, pc[w] # "idle", Return(w) PROVE Exists(o)'
    <3> PICK x \in Orders, j \in Kind : x = job[w].order /\ j = job[w].kind /\ Exists(x)
      BY <2>3 DEF Reporting, Reporters
    <3>1. queue' = [queue EXCEPT ![x][j] = @ + 1]
      BY <2>3 DEF Return
    <3>2. queue[o][k] > 0 \/ o = x
      BY <1>1, <3>1 DEF TypeOK
    <3> QED
      BY <1>0, <3>2 DEF Reporting
  <2>4. CASE queue' = queue
    BY <1>0, <1>1, <2>4 DEF Reporting
  <2>5. ASSUME NEW p \in Pullers, Pull(p) PROVE queue' = queue
    BY <2>5
    DEF Pull, New, PullBegin, PullFetch, ProcessNew, ProcessUpdate, ProcessUnchanged,
        ProcessError, ProcessHalf, ProcessRejected, Process, PullCommit, PullConflict, PullRollback
  <2>6. ASSUME NEW c \in Clerks, Clerk(c) PROVE queue' = queue
    BY <2>6
    DEF Clerk, ClerkOpen, ClerkConfirm, Send, ClerkBlocked, ClerkValidated, ClerkAsked,
        ClerkAnswers, ClerkError, ClerkConflict, ClerkCloses, Record
  <2>7. ASSUME NEW w \in Workers, Work(w) PROVE Exists(o)'
    <3>1. CASE \E x \in Orders, j \in Kind : JobBegin(w, x, j)
      BY <2>2, <3>1 DEF JobBegin
    <3>2. CASE Send(w) \/ JobCommit(w)
      BY <2>4, <3>2 DEF Send, JobCommit, Record
    <3>3. CASE JobConflict(w) \/ JobCrash(w)
      BY <2>3, <3>3 DEF JobConflict, Overtaken, JobCrash
    <3> QED
      BY <2>7, <3>1, <3>2, <3>3 DEF Work
  <2>8. ASSUME NEW x \in Orders, Cartona(x) \/ \E j \in Kind : JobSkip(x, j) PROVE Exists(o)'
    BY <2>2, <2>4, <2>8 DEF Cartona, CartonaPlaces, CartonaMoves, JobSkip
  <2>9. CASE UserSwitches \/ UNCHANGED vars
    BY <2>4, <2>9 DEF UserSwitches
  <2> QED
    BY <2>1, <2>4, <2>5, <2>6, <2>7, <2>8, <2>9 DEF Next
<1>2. ASSUME NEW a \in Reporters, pc'[a] # "idle"
      PROVE  /\ job'[a].order \in Orders /\ job'[a].kind \in Kind
             /\ row'[job'[a].order].state # "none"
             /\ pc'[a] \in {"open", "sent"} => view'[a][job'[a].order].state # "none"
             /\ pc'[a] # "processing"
  <2>0. a \in Actors /\ a \notin Pullers
    BY DEF Actors, Reporters
  <2>1. CASE Others(a)
    BY <1>0, <1>2, <2>0, <2>1 DEF Others, Reporting, Exists
  <2>2. ASSUME NEW o \in Orders, NEW k \in Kind, a \in Workers, JobBegin(a, o, k)
        PROVE  /\ job'[a].order = o /\ job'[a].kind = k /\ Exists(o)
               /\ view'[a][o] = row[o] /\ pc'[a] = "open"
    BY <2>0, <2>2 DEF JobBegin, Take, Snapshot, Reporting, TypeOK
  <2>3. CASE Send(a)
    <3>1. \E x \in {"ok", "error"} : job' = [job EXCEPT ![a].answer = x]
      BY <2>3 DEF Send
    <3>2. job'[a].order = job[a].order /\ job'[a].kind = job[a].kind
      BY <3>1 DEF TypeOK, Report
    <3> QED
      BY <1>0, <2>0, <2>3, <3>2 DEF Send, Reporting, TypeOK, Exists
  <2>4. ASSUME NEW x, NEW j, EndReport(a, x, j) PROVE pc'[a] = x /\ job'[a] = j
    BY <2>0, <2>4 DEF TypeOK, EndReport
  <2>5. JobCommit(a) \/ JobConflict(a) \/ JobCrash(a) => pc'[a] = "idle"
    BY <2>4 DEF JobCommit, JobConflict, JobCrash, Return
  <2>6. ASSUME NEW o \in Orders, ClerkOpen(a, o)
        PROVE  job'[a].order = o /\ job'[a].kind = "delivered" /\ Exists(o) /\ pc'[a] = "form"
    BY <2>0, <2>6 DEF ClerkOpen, TypeOK, Exists
  <2>7. CASE ClerkConfirm(a)
    <3>1. job'[a].order = job[a].order /\ job'[a].kind = job[a].kind
      BY <2>7 DEF ClerkConfirm, TypeOK, Report
    <3>2. pc[a] = "form" /\ pc'[a] \in {"open", "sent"} /\ view'[a] = row /\ row' = row
      BY <2>0, <2>7 DEF ClerkConfirm, Snapshot, TypeOK
    <3> QED
      BY <3>1, <3>2 DEF Reporting, Exists
  <2>8. ClerkBlocked(a) \/ ClerkValidated(a) \/ ClerkAnswers(a) \/ ClerkError(a) \/ ClerkCloses(a)
          => pc'[a] = "idle"
    BY <2>0, <2>4
    DEF ClerkBlocked, ClerkValidated, ClerkAnswers, ClerkError, ClerkCloses, TypeOK
  <2>9. CASE ClerkAsked(a) \/ ClerkConflict(a)
    <3>1. /\ pc[a] = "sent" /\ pc'[a] \in {"form", "dialog"}
          /\ job'[a] = [job[a] EXCEPT !.answer = "none"]
      BY <2>4, <2>9 DEF ClerkAsked, Current, ClerkConflict, Overtaken
    <3>2. job'[a].order = job[a].order /\ job'[a].kind = job[a].kind
      BY <3>1 DEF TypeOK, Report
    <3> QED
      BY <1>0, <3>1, <3>2 DEF Reporting, Exists
  <2>10. CASE a \in Workers /\ \E o \in Orders, k \in Kind : JobBegin(a, o, k)
    BY <1>0, <2>0, <2>2, <2>10 DEF JobBegin, Exists
  <2>11. CASE \E o \in Orders : ClerkOpen(a, o)
    BY <1>0, <2>6, <2>11 DEF Exists, Kind
  <2> QED
    BY <1>2, <2>0, <2>1, <2>3, <2>5, <2>7, <2>8, <2>9, <2>10, <2>11, OwnOrOthers
    DEF Own, Work, Clerk
<1> QED
  BY <1>1, <1>2 DEF Reporting, Exists

LEMMA SingleStep ==
  ASSUME TypeOK, Listing, Reporting, Single, [Next]_vars
  PROVE  Single'
<1> USE OrderAssumption
<1> SUFFICES ASSUME NEW p \in Pullers, NEW c \in Customers
             PROVE  made'[p][c] <= 1 /\ (made'[p][c] > 0 => c \notin met'[p])
  BY DEF Single
<1>0. /\ made[p][c] <= 1 /\ (made[p][c] > 0 => c \notin met[p]) /\ made[p][c] \in Nat
      /\ p \in Actors /\ p \notin Reporters
  BY DEF Single, Actors, Reporters, TypeOK
<1>1. CASE PullBegin(p)
  <2>1. made'[p] = Nobody
    BY <1>1 DEF PullBegin, Listing
  <2> QED
    BY <2>1 DEF Nobody
<1>2. ASSUME NEW o \in Orders, FindOrCreate(p, o) \/ UNCHANGED made, UNCHANGED met
      PROVE  made'[p][c] <= 1 /\ (made'[p][c] > 0 => c \notin met'[p])
  <2> PICK b \in Customers : b = Buyer[o]
    OBVIOUS
  <2>1. made' = made \/ (b \notin Known(p) /\ made' = [made EXCEPT ![p][b] = @ + 1])
    BY <1>2 DEF FindOrCreate
  <2>2. b \notin Known(p) => b \notin met[p] /\ made[p][b] = 0
    BY DEF Known, TypeOK
  <2>3. made \in [Pullers -> [Customers -> Nat]]
    BY DEF TypeOK
  <2> QED
    BY <1>0, <1>2, <2>1, <2>2, <2>3
<1>3. ASSUME NEW o \in Orders, NEW stock \in BOOLEAN, NEW otp \in Payments,
             ProcessNew(p, o, stock, otp)
      PROVE  made'[p][c] <= 1 /\ (made'[p][c] > 0 => c \notin met'[p])
  BY <1>2, <1>3 DEF ProcessNew, Process
<1>10. ASSUME NEW o \in Orders, NEW otp \in Payments, ProcessHalf(p, o, otp)
       PROVE  made'[p][c] <= 1 /\ (made'[p][c] > 0 => c \notin met'[p])
  BY <1>2, <1>10 DEF ProcessHalf, Process
<1>4. ASSUME NEW o \in Orders, ProcessRejected(p, o)
      PROVE  made'[p][c] <= 1 /\ (made'[p][c] > 0 => c \notin met'[p])
  BY <1>2, <1>4 DEF ProcessRejected, Process
<1>5. CASE UNCHANGED <<made, met>>
  BY <1>0, <1>5
<1>6. CASE PullCommit(p) \/ PullConflict(p) \/ PullRollback(p)
  <2>1. made'[p] = Nobody
    BY <1>6 DEF PullCommit, PullConflict, PullRollback, EndPull, TypeOK
  <2> QED
    BY <2>1 DEF Nobody
<1>7. CASE Others(p)
  BY <1>0, <1>7 DEF Others
<1>8. ASSUME NEW o \in Orders, NEW stock \in BOOLEAN, ProcessUpdate(p, o, stock)
      PROVE  UNCHANGED <<made, met>>
  BY <1>8 DEF ProcessUpdate, Process
<1>9. ASSUME NEW o \in Orders, ProcessUnchanged(p, o) \/ ProcessError(p, o)
      PROVE  UNCHANGED <<made, met>>
  BY <1>9 DEF ProcessUnchanged, ProcessError, Process
<1> QED
  BY <1>0, <1>1, <1>3, <1>4, <1>5, <1>6, <1>7, <1>8, <1>9, <1>10, OwnOrOthers
  DEF Own, Pull, New, PullFetch, Reporters

LEMMA FreshStep ==
  ASSUME TypeOK, Imported, Listing, Reporting, Fresh, [Next]_vars
  PROVE  Fresh'
<1> USE OrderAssumption
<1> SUFFICES ASSUME NEW p \in Pullers, pc'[p] # "idle", Config \notin missed'[p]
             PROVE  /\ enabled'
                    /\ \A o \in Orders : view'[p][o].state = "none" \/ o \in new'[p] => ~Exists(o)'
                    /\ \A c \in Customers : c \notin met'[p] => customers'[c] = 0
  BY DEF Fresh
<1>0. p \in Actors /\ p \notin Reporters
  BY DEF Actors, Reporters
<1>1. CASE PullBegin(p)
  <2>1. view'[p] = row /\ met'[p] = {c \in Customers : customers[c] > 0} /\ new'[p] = {}
    BY <1>0, <1>1 DEF PullBegin, Snapshot, TypeOK, Listing
  <2> QED
    BY <1>1, <2>1 DEF PullBegin, Exists, TypeOK
<1>2. ASSUME pc[p] # "idle", Config \notin missed[p], UNCHANGED <<enabled, row, customers, met>>,
             \A o \in Orders : view'[p][o].state = "none" \/ o \in new'[p] =>
                                 view[p][o].state = "none" \/ o \in new[p]
      PROVE  /\ enabled'
             /\ \A o \in Orders : view'[p][o].state = "none" \/ o \in new'[p] => ~Exists(o)'
             /\ \A c \in Customers : c \notin met'[p] => customers'[c] = 0
  BY <1>2 DEF Fresh, Exists
<1>3. CASE (\E o \in Orders : ProcessUnchanged(p, o) \/ ProcessRejected(p, o)) \/ PullFetch(p)
  <2>1. pc[p] # "idle" /\ UNCHANGED <<enabled, row, customers, met, missed, view, new>>
    BY <1>0, <1>3
    DEF PullFetch, ProcessUnchanged, ProcessRejected, Process, Listing
  <2> QED
    BY <1>2, <2>1
<1>4. ASSUME NEW o \in Orders, NEW stock \in BOOLEAN, NEW otp \in Payments,
             ProcessNew(p, o, stock, otp)
      PROVE  \A x \in Orders : view'[p][x].state = "none" \/ x \in new'[p] =>
                                 view[p][x].state = "none" \/ x \in new[p]
  BY <1>0, <1>4 DEF ProcessNew, TypeOK
<1>5. ASSUME NEW o \in Orders, NEW stock \in BOOLEAN, Listing',
             ProcessUpdate(p, o, stock) \/ ProcessError(p, o)
      PROVE  \A x \in Orders : view'[p][x].state = "none" \/ x \in new'[p] =>
                                 view[p][x].state = "none" \/ x \in new[p]
  <2>1. o \in wrote'[p]
    BY <1>0, <1>5 DEF ProcessUpdate, ProcessError, TypeOK
  <2>2. view'[p][o].state # "none"
    BY <2>1, <1>5 DEF Listing
  <2>3. \E r : view' = [view EXCEPT ![p][o] = r]
    BY <1>5 DEF ProcessUpdate, ProcessError
  <2>4. \A x \in Orders \ {o} : view'[p][x] = view[p][x]
    BY <1>0, <2>3 DEF TypeOK
  <2>5. new' = new
    BY <1>5 DEF ProcessUpdate, ProcessError
  <2> QED
    BY <2>2, <2>4, <2>5
<1>9. ASSUME NEW o \in Orders, NEW otp \in Payments, ProcessHalf(p, o, otp)
      PROVE  \A x \in Orders : view'[p][x].state = "none" \/ x \in new'[p] =>
                                 view[p][x].state = "none" \/ x \in new[p]
  <2>1. view[p][o].state = "none" /\ \E r : view' = [view EXCEPT ![p][o] = r]
    BY <1>9 DEF ProcessHalf
  <2>2. \A x \in Orders \ {o} : view'[p][x] = view[p][x]
    BY <1>0, <2>1 DEF TypeOK
  <2>3. new'[p] = new[p] \cup {o}
    BY <1>0, <1>9 DEF ProcessHalf, TypeOK
  <2> QED
    BY <2>1, <2>2, <2>3
<1>6. CASE \/ New(p) \/ \E o \in Orders, otp \in Payments : ProcessHalf(p, o, otp)
           \/ Listing' /\ \E o \in Orders : \/ \E stock \in BOOLEAN : ProcessUpdate(p, o, stock)
                                           \/ ProcessError(p, o)
  <2>1. pc[p] # "idle" /\ UNCHANGED <<enabled, row, customers, met, missed>>
    BY <1>6 DEF New, ProcessNew, ProcessUpdate, ProcessError, ProcessHalf, Process
  <2>2. \A x \in Orders : view'[p][x].state = "none" \/ x \in new'[p] =>
                            view[p][x].state = "none" \/ x \in new[p]
    BY <1>4, <1>5, <1>6, <1>9 DEF New
  <2> QED
    BY <1>2, <2>1, <2>2
<1>7. CASE PullCommit(p) \/ PullConflict(p) \/ PullRollback(p)
  <2>1. pc'[p] = "idle"
    BY <1>0, <1>7 DEF PullCommit, PullConflict, PullRollback, EndPull, TypeOK
  <2> QED
    BY <2>1
<1>8. CASE Others(p)
  <2>1. pc[p] \in {"open", "processing"}
    BY <1>8 DEF Others, Listing
  <2>2. /\ Config \notin missed[p] /\ UNCHANGED <<enabled, copies, customers>>
        /\ \A o \in Orders : Exists(o)' => Exists(o)
    BY <1>8, <2>1 DEF Others
  <2> QED
    BY <1>8, <2>1, <2>2 DEF Others, Fresh
<1> QED
  BY <1>0, <1>1, <1>3, <1>6, <1>7, <1>8, OwnOrOthers, ListingStep DEF Own, Pull, New, Reporters

\* Sale orders and partners are created by the commit of a pull.
LEMMA CopiesStep ==
  ASSUME [Next]_vars
  PROVE  UNCHANGED <<copies, customers>> \/ \E p \in Pullers : PullCommit(p)
<1>1. ASSUME NEW p \in Pullers, Pull(p), ~PullCommit(p) PROVE UNCHANGED <<copies, customers>>
  BY <1>1
  DEF Pull, New, PullBegin, PullFetch, ProcessNew, ProcessUpdate, ProcessUnchanged, ProcessError,
      ProcessHalf, ProcessRejected, Process, PullConflict, PullRollback
<1>2. ASSUME NEW w \in Workers, Work(w) PROVE UNCHANGED <<copies, customers>>
  BY <1>2 DEF Work, JobBegin, Send, JobCommit, JobConflict, JobCrash, Return, Record
<1>3. ASSUME NEW c \in Clerks, Clerk(c) PROVE UNCHANGED <<copies, customers>>
  BY <1>3
  DEF Clerk, ClerkOpen, ClerkConfirm, Send, ClerkBlocked, ClerkValidated, ClerkAsked,
      ClerkAnswers, ClerkError, ClerkConflict, ClerkCloses, Record
<1>4. ASSUME NEW o \in Orders, User(o) \/ Cartona(o) \/ \E k \in Kind : JobSkip(o, k)
      PROVE  UNCHANGED <<copies, customers>>
  BY <1>4
  DEF User, UserConfirm, UserCancel, UserDraft, UserDeliver, UserSync, UserAct,
      Cartona, CartonaPlaces, CartonaMoves, JobSkip
<1>5. UserSwitches \/ UNCHANGED vars => UNCHANGED <<copies, customers>>
  BY DEF UserSwitches
<1> QED
  BY <1>1, <1>2, <1>3, <1>4, <1>5 DEF Next

\* A pull that commits what it created created it once.
LEMMA ImportedStep ==
  ASSUME TypeOK, Imported, Listing, Reporting, Fresh, Single, [Next]_vars
  PROVE  Imported'
<1>0. \A o \in Orders : Exists(o) => Exists(o)'
  BY Stays
<1>1. ASSUME NEW p \in Pullers, PullCommit(p) PROVE Imported'
  <2>0. p \in Actors /\ pc[p] = "processing"
    BY <1>1 DEF Actors, PullCommit
  <2>1. Config \in Claimed(p) => Config \notin missed[p]
    BY <1>1 DEF PullCommit
  <2>2. ASSUME NEW o \in Orders PROVE copies'[o] <= 1 /\ (copies'[o] > 0 => Exists(o)')
    <3>1. CASE o \in new[p]
      <4>1. got[p][o] # "none" /\ view[p][o].state # "none"
        BY <3>1 DEF Listing
      <4>2. Config \notin missed[p]
        BY <2>1, <4>1 DEF Claimed
      <4>3. copies[o] = 0
        <5>1. ~Exists(o)
          BY <2>0, <3>1, <4>2 DEF Fresh
        <5>2. copies[o] \in Nat /\ (copies[o] > 0 => Exists(o))
          BY DEF Imported, TypeOK
        <5> QED
          BY <5>1, <5>2
      <4> QED
        BY <1>1, <3>1, <4>1, <4>3 DEF PullCommit, Exists
    <3>2. CASE o \notin new[p]
      <4>1. copies'[o] = copies[o]
        BY <1>1, <3>2 DEF PullCommit
      <4> QED
        BY <1>0, <4>1 DEF Imported, NoDuplicateOrders
    <3> QED
      BY <3>1, <3>2
  <2>3. ASSUME NEW c \in Customers PROVE customers'[c] <= 1
    <3>0. customers'[c] = customers[c] + made[p][c] /\ customers[c] \in Nat /\ made[p][c] \in Nat
      BY <1>1 DEF PullCommit, TypeOK
    <3>1. CASE made[p][c] = 0
      BY <3>0, <3>1 DEF Imported, NoDuplicateCustomers
    <3>2. CASE made[p][c] > 0
      <4>1. made[p] # Nobody
        BY <3>2 DEF Nobody
      <4>2. Config \notin missed[p]
        BY <2>1, <4>1 DEF Claimed, Listing
      <4>3. customers[c] = 0
        BY <2>0, <3>2, <4>2 DEF Fresh, Single
      <4> QED
        BY <3>0, <4>3 DEF Single
    <3> QED
      BY <3>0, <3>1, <3>2
  <2> QED
    BY <2>2, <2>3 DEF Imported, NoDuplicateOrders, NoDuplicateCustomers
<1>2. CASE UNCHANGED <<copies, customers>>
  BY <1>0, <1>2 DEF Imported, NoDuplicateOrders, NoDuplicateCustomers, TypeOK
<1> QED
  BY <1>1, <1>2, CopiesStep

-----------------------------------------------------------------------------
(* Theorems *)

\* Nothing is imported and nothing waits in the beginning.
LEMMA IInvInit == Init => IInv
<1> SUFFICES ASSUME Init PROVE IInv
  OBVIOUS
<1>1. NoRow \in Row /\ Nobody \in [Customers -> Nat] /\ NoJob \in Report
  BY DEF NoRow, Row, Nobody, NoJob, Report
<1>2. TypeOK
  BY <1>1 DEF Init, TypeOK
<1>3. Imported /\ Reporting
  BY OrderAssumption
  DEF Init, Imported, NoDuplicateOrders, NoDuplicateCustomers, Reporting, Nobody, Actors, Reporters
<1>4. Listing /\ Fresh /\ Single
  BY OrderAssumption DEF Init, Listing, Fresh, Single, Actors, Nobody
<1> QED
  BY <1>2, <1>3, <1>4 DEF IInv

LEMMA IInvStep == IInv /\ [Next]_vars => IInv'
  BY TypeStep, ImportedStep, ReportingStep, ListingStep, FreshStep, SingleStep DEF IInv

LEMMA IInvAlways == Spec => []IInv
  BY IInvInit, IInvStep, PTL DEF Spec

\* Every variable keeps its type.
THEOREM TypeCorrect == Spec => []TypeOK
<1>1. IInv => TypeOK
  BY DEF IInv
<1> QED
  BY <1>1, IInvAlways, PTL

\* However many pulls overlap, no order of Cartona is written twice: nothing
\* but the configuration row that each of them writes keeps them apart.
THEOREM OrdersUnique == Spec => []NoDuplicateOrders
<1>1. IInv => NoDuplicateOrders
  BY DEF IInv, Imported
<1> QED
  BY <1>1, IInvAlways, PTL

\* And no retailer gets two partners.
THEOREM CustomersUnique == Spec => []NoDuplicateCustomers
<1>1. IInv => NoDuplicateCustomers
  BY DEF IInv, Imported
<1> QED
  BY <1>1, IInvAlways, PTL

\* Once the switch is off, a pull that is under way ends without effect.
THEOREM Stops == Spec => StopIsEffective
<1> DEFINE Effective ==
      ~enabled =>
        /\ UNCHANGED <<copies, customers>>
        /\ (\E p \in Pullers : pc[p] # "idle" /\ pc'[p] = "idle") => UNCHANGED row
<1>1. ASSUME IInv, [Next]_vars, ~enabled PROVE Effective
  <2>0. TypeOK /\ Listing /\ Reporting /\ Fresh
    BY <1>1 DEF IInv
  <2>1. ASSUME NEW p \in Pullers, PullCommit(p) PROVE UNCHANGED <<row, copies, customers>>
    <3>1. Config \in missed[p]
      BY <1>1, <2>0, <2>1 DEF Fresh, PullCommit
    <3>2. Config \notin Claimed(p)
      BY <2>1, <3>1 DEF PullCommit
    <3> QED
      BY <2>0, <2>1, <3>2, EmptyCommit
  <2>2. UNCHANGED <<copies, customers>>
    BY <1>1, <2>1, CopiesStep
  <2>3. ASSUME NEW p \in Pullers, pc[p] # "idle", pc'[p] = "idle" PROVE UNCHANGED row
    <3>1. p \in Actors /\ p \notin Reporters
      BY OrderAssumption DEF Actors, Reporters
    <3>2. Pull(p)
      BY <1>1, <2>0, <2>3, <3>1, OwnOrOthers DEF Own, Others, Reporters
    <3>3. PullCommit(p) \/ UNCHANGED row
      BY <3>2
      DEF Pull, New, PullBegin, PullFetch, ProcessNew, ProcessUpdate, ProcessUnchanged,
          ProcessError, ProcessHalf, ProcessRejected, Process, PullConflict, PullRollback
    <3> QED
      BY <2>1, <3>3
  <2> QED
    BY <2>2, <2>3
<1>2. IInv /\ [Next]_vars => Effective
  BY <1>1
<1> QED
  BY <1>2, IInvAlways, PTL DEF Spec, StopIsEffective

-----------------------------------------------------------------------------
(* What a transaction sees: the rows it read are the committed ones, or it *)
(* will not commit.                                                        *)

\* A row that a transaction has not written and did not miss is as committed.
Seen ==
  /\ \A a \in Actors : pc[a] \in {"open", "processing", "sent"} =>
       \A o \in Orders \ (missed[a] \cup new[a] \cup wrote[a]) : view[a][o] = row[o]
  /\ \A a \in Reporters : new[a] = {} /\ wrote[a] = {}

\* A step of a reporter as its transaction goes.
LEMMA ReporterStep ==
  ASSUME TypeOK, NEW a \in Reporters, (a \in Workers /\ Work(a)) \/ (a \in Clerks /\ Clerk(a))
  PROVE  /\ new'[a] = new[a] \/ new'[a] = {}
         /\ wrote'[a] = wrote[a] \/ wrote'[a] = {}
         /\ \/ pc'[a] \in {"idle", "form", "dialog"}
            \/ view'[a] = row /\ row' = row
            \/ Send(a)
<1>0. a \in Actors
  BY DEF Actors
<1>1. ASSUME NEW x \in {"idle", "form", "dialog"}, NEW j, EndReport(a, x, j)
      PROVE  new'[a] = {} /\ wrote'[a] = {} /\ pc'[a] \in {"idle", "form", "dialog"}
  BY <1>0, <1>1 DEF EndReport, End, TypeOK
<1>2. CASE \E o \in Orders, k \in Kind : JobBegin(a, o, k)
  BY <1>0, <1>2 DEF JobBegin, Snapshot, TypeOK
<1>3. CASE Send(a)
  BY <1>3 DEF Send
<1>4. CASE JobCommit(a) \/ JobConflict(a) \/ JobCrash(a)
  BY <1>1, <1>4 DEF JobCommit, JobConflict, JobCrash, Return
<1>5. CASE (\E o \in Orders : ClerkOpen(a, o)) \/ ClerkCloses(a)
  BY <1>0, <1>5 DEF ClerkOpen, ClerkCloses, TypeOK
<1>6. CASE ClerkConfirm(a)
  BY <1>0, <1>6 DEF ClerkConfirm, Snapshot, TypeOK
<1>7. CASE ClerkBlocked(a) \/ ClerkValidated(a) \/ ClerkAsked(a) \/ ClerkAnswers(a)
           \/ ClerkError(a) \/ ClerkConflict(a)
  BY <1>1, <1>7
  DEF ClerkBlocked, ClerkValidated, ClerkAsked, ClerkAnswers, ClerkError, ClerkConflict
<1> QED
  BY <1>2, <1>3, <1>4, <1>5, <1>6, <1>7 DEF Work, Clerk

LEMMA SeenStep ==
  ASSUME TypeOK, Listing, Reporting, Seen, [Next]_vars
  PROVE  Seen'
<1> USE OrderAssumption
<1>1. ASSUME NEW a \in Reporters PROVE new'[a] = {} /\ wrote'[a] = {}
  <2>1. a \in Actors /\ a \notin Pullers
    BY DEF Actors, Reporters
  <2>2. Others(a) \/ (a \in Workers /\ Work(a)) \/ (a \in Clerks /\ Clerk(a))
    BY <2>1, OwnOrOthers DEF Own
  <2> QED
    BY <2>2, ReporterStep DEF Others, Seen
<1>2. ASSUME NEW a \in Actors, pc'[a] \in {"open", "processing", "sent"},
             NEW o \in Orders \ (missed'[a] \cup new'[a] \cup wrote'[a])
      PROVE  view'[a][o] = row'[o]
  <2>1. CASE Others(a)
    <3>1. o \notin missed[a] /\ row'[o] = row[o]
      BY <1>2, <2>1 DEF Others
    <3> QED
      BY <1>2, <2>1, <3>1 DEF Others, Seen
  <2>2. ASSUME a \in Reporters, (a \in Workers /\ Work(a)) \/ (a \in Clerks /\ Clerk(a))
        PROVE  view'[a][o] = row'[o]
    <3>1. CASE Send(a)
      BY <1>1, <1>2, <2>2, <3>1 DEF Send, Seen
    <3>2. CASE ~Send(a)
      BY <1>2, <2>2, <3>2, ReporterStep
    <3> QED
      BY <3>1, <3>2
  <2>3. ASSUME a \in Pullers, Pull(a) PROVE view'[a][o] = row'[o]
    <3>1. CASE PullBegin(a)
      BY <3>1 DEF PullBegin, Snapshot, TypeOK
    <3>2. CASE PullFetch(a)
      BY <1>2, <3>2 DEF PullFetch, Seen
    <3>3. ASSUME NEW x \in Orders, Process(a, x),
                 \/ new' = [new EXCEPT ![a] = @ \cup {x}] /\ wrote' = wrote
                 \/ wrote' = [wrote EXCEPT ![a] = @ \cup {x}] /\ new' = new,
                 \E r : view' = [view EXCEPT ![a][x] = r]
          PROVE  view'[a][o] = row'[o]
      <4>1. o # x /\ o \notin missed[a] \cup new[a] \cup wrote[a]
        BY <1>2, <3>3 DEF Process, TypeOK
      <4>2. view'[a][o] = view[a][o]
        BY <1>2, <3>3, <4>1 DEF TypeOK
      <4> QED
        BY <3>3, <4>1, <4>2 DEF Process, Seen
    <3>4. ASSUME NEW x \in Orders,
                 \/ \E stock \in BOOLEAN, otp \in Payments : ProcessNew(a, x, stock, otp)
                 \/ \E stock \in BOOLEAN : ProcessUpdate(a, x, stock)
                 \/ ProcessError(a, x)
                 \/ \E otp \in Payments : ProcessHalf(a, x, otp)
          PROVE  view'[a][o] = row'[o]
      <4>1. ProcessError(a, x) => \E r : view' = [view EXCEPT ![a][x] = r]
        BY DEF ProcessError
      <4> QED
        BY <3>3, <3>4, <4>1 DEF ProcessNew, ProcessUpdate, ProcessError, ProcessHalf
    <3>5. ASSUME NEW x \in Orders, ProcessUnchanged(a, x) \/ ProcessRejected(a, x)
          PROVE  view'[a][o] = row'[o]
      BY <1>2, <3>5 DEF ProcessUnchanged, ProcessRejected, Process, Seen
    <3>6. PullCommit(a) \/ PullConflict(a) \/ PullRollback(a) => pc'[a] = "idle"
      BY DEF PullCommit, PullConflict, PullRollback, EndPull, TypeOK
    <3> QED
      BY <1>2, <2>3, <3>1, <3>2, <3>4, <3>5, <3>6 DEF Pull, New
  <2> QED
    BY <2>1, <2>2, <2>3, OwnOrOthers DEF Own, Reporters
<1> QED
  BY <1>1, <1>2 DEF Seen

-----------------------------------------------------------------------------
(* What becomes of a sale order *)

\* A report changes nothing but its status and, in the wizard, the delivery.
Reports(a, o, r) ==
  /\ Current(a) /\ o = job[a].order
  /\ Record(a, r) /\ \E x \in {"idle", "dialog"} : \E j : EndReport(a, x, j)
  /\ r \in Row
  /\ r.state = row[o].state
  /\ r.cartonaStatus = Recorded(a).cartonaStatus
  /\ row[o].done => r.done
  /\ partial \subseteq partial'
  /\ \/ r.done = row[o].done /\ UNCHANGED partial /\ (a \in Clerks => ~Confirmed(a))
     \/ a \in Clerks /\ row[o].state = "sale" /\ (r.done \/ partial' = partial \cup {o})

\* What the actions that end a report do.
LEMMA ReportMade ==
  ASSUME TypeOK, Reporting, Seen, NEW a \in Reporters,
         \/ JobCommit(a) /\ a \in Workers
         \/ a \in Clerks /\ (ClerkBlocked(a) \/ ClerkValidated(a) \/ ClerkAsked(a))
  PROVE  \E o \in Orders, r \in Row : Reports(a, o, r)
<1> USE OrderAssumption
<1>0. a \in Actors
  BY DEF Actors
<1>1. ASSUME Current(a)
      PROVE  \E o \in Orders :
               /\ o = job[a].order /\ view[a][o] = row[o]
               /\ Recorded(a) \in Row
               /\ Recorded(a).state = row[o].state /\ Recorded(a).done = row[o].done
  <2> PICK o \in Orders : o = job[a].order
    BY <1>1 DEF Reporting, Current
  <2>1. view[a][o] = row[o]
    BY <1>0, <1>1 DEF Seen, Current, Reads
  <2>2. view[a][o].state # "none"
    BY <1>1 DEF Reporting, Current
  <2> QED
    BY <2>1, <2>2, ReportTypes
<1>2. CASE JobCommit(a) /\ a \in Workers
  <2> PICK o \in Orders : /\ o = job[a].order /\ Recorded(a) \in Row
                          /\ Recorded(a).state = row[o].state /\ Recorded(a).done = row[o].done
    BY <1>1, <1>2 DEF JobCommit
  <2>1. Reports(a, o, Recorded(a))
    BY <1>2 DEF JobCommit, Reports
  <2> QED
    BY <2>1
<1>3. CASE ClerkBlocked(a) /\ a \in Clerks
  <2> PICK o \in Orders : /\ o = job[a].order /\ Recorded(a) \in Row
                          /\ Recorded(a).state = row[o].state /\ Recorded(a).done = row[o].done
    BY <1>1, <1>3 DEF ClerkBlocked
  <2>1. Reports(a, o, Recorded(a))
    BY <1>3 DEF ClerkBlocked, Reports
  <2> QED
    BY <2>1
<1>4. CASE a \in Clerks /\ (ClerkValidated(a) \/ ClerkAsked(a))
  <2> PICK o \in Orders : /\ o = job[a].order /\ view[a][o] = row[o] /\ Recorded(a) \in Row
                          /\ Recorded(a).state = row[o].state /\ Recorded(a).done = row[o].done
    BY <1>1, <1>4 DEF ClerkValidated, ClerkAsked
  <2>1. row[o].state = "sale"
    BY <1>4 DEF ClerkValidated, ClerkAsked, Deliverable
  <2>2. ASSUME NEW r \in Row, r = [Recorded(a) EXCEPT !.otp = "given", !.done = TRUE]
        PROVE  /\ r.state = Recorded(a).state /\ r.done
               /\ r.cartonaStatus = Recorded(a).cartonaStatus
    BY <2>2 DEF Row
  <2>3. ASSUME NEW r \in Row, r = [Recorded(a) EXCEPT !.otp = "given"]
        PROVE  /\ r.state = Recorded(a).state /\ r.done = Recorded(a).done
               /\ r.cartonaStatus = Recorded(a).cartonaStatus
    BY <2>3 DEF Row
  <2>4. /\ [Recorded(a) EXCEPT !.otp = "given", !.done = TRUE] \in Row
        /\ [Recorded(a) EXCEPT !.otp = "given"] \in Row
    BY DEF Row
  <2>5. CASE ClerkValidated(a)
    <3>1. Reports(a, o, [Recorded(a) EXCEPT !.otp = "given", !.done = TRUE])
      BY <1>4, <2>1, <2>2, <2>4, <2>5 DEF ClerkValidated, Reports
    <3> QED
      BY <2>4, <3>1
  <2>6. CASE ClerkAsked(a)
    <3>1. Reports(a, o, [Recorded(a) EXCEPT !.otp = "given"])
      BY <1>4, <2>1, <2>3, <2>4, <2>6 DEF ClerkAsked, Reports
    <3> QED
      BY <2>4, <3>1
  <2> QED
    BY <1>4, <2>5, <2>6
<1> QED
  BY <1>2, <1>3, <1>4

\* A reporter's step leaves the sale orders alone, or is a report, or the
\* answer to the question about a backorder.
LEMMA ReportKinds ==
  ASSUME TypeOK, Reporting, Seen, NEW a \in Reporters,
         (a \in Workers /\ Work(a)) \/ (a \in Clerks /\ Clerk(a))
  PROVE  \/ UNCHANGED <<row, partial>>
         \/ \E o \in Orders, r \in Row : Reports(a, o, r)
         \/ \E o \in Orders :
              /\ row[o].state = "sale" /\ row' = [row EXCEPT ![o] = [row[o] EXCEPT !.done = TRUE]]
              /\ Commit(a, {o})
              /\ UNCHANGED <<remote, queue, ghosts>>
<1> USE OrderAssumption
<1>5. CASE ClerkAnswers(a)
  <2> PICK o \in Orders : o = job[a].order
    BY <1>5 DEF Reporting, ClerkAnswers
  <2> QED
    BY <1>5 DEF ClerkAnswers, TypeOK
<1>6. CASE ClerkError(a)
  <2> PICK o \in Orders : o = job[a].order
    BY <1>6 DEF Reporting, ClerkError, Current
  <2>1. row' = row
    BY <1>6 DEF ClerkError, Undone, TypeOK
  <2> QED
    BY <1>6, <2>1 DEF ClerkError
<1>7. CASE (\E o \in Orders, k \in Kind : JobBegin(a, o, k)) \/ Send(a) \/ JobConflict(a)
           \/ JobCrash(a) \/ (\E o \in Orders : ClerkOpen(a, o)) \/ ClerkConfirm(a)
           \/ ClerkConflict(a) \/ ClerkCloses(a)
  BY <1>7
  DEF JobBegin, Send, JobConflict, JobCrash, Return, ClerkOpen, ClerkConfirm, ClerkConflict,
      ClerkCloses
<1> QED
  BY <1>5, <1>6, <1>7, ReportMade DEF Work, Clerk

\* What the code makes of a sale order when Cartona's status arrives: the
\* validated delivery stays validated, and is not cancelled.
Delivered(r) ==
  r.state \in {"sale", "draft"} /\ r.cartonaStatus = "delivered" => r.done

LEMMA UpdatedKeeps ==
  ASSUME NEW r \in Row, NEW s \in Status, NEW stock \in BOOLEAN, ~Blocked(r, s)
  PROVE  LET u == Updated(r, s, stock) IN
         /\ r.done => u.done
         /\ r.state = "sale" /\ r.done => u.state = "sale"
         /\ r.state # "none" => u.state # "none"
         /\ Delivered(r) => Delivered(u) \/ Short(u, s)
<1> DEFINE a == Applied(r, s, stock)
           u == Updated(r, s, stock)
<1>1. a \in Row /\ a.cartonaStatus = r.cartonaStatus
  <2>1. a \in Row
    BY RowTypes
  <2> QED
    BY <2>1 DEF Applied, Row
<1>2. (r.done => a.done) /\ (r.state # "none" => a.state # "none")
  BY DEF Applied, Row
<1>3. r.state = "sale" /\ r.done => a.state = "sale"
  BY DEF Applied, Row, Blocked
<1>4. /\ u.state = IF NeedsTransition(r, s) THEN a.state ELSE r.state
      /\ u.done = IF NeedsTransition(r, s) THEN a.done ELSE r.done
      /\ u.cartonaStatus = s
  BY <1>1 DEF Updated, Row
<1>5. s = "delivered" /\ a.state \in {"sale", "draft"} => a.state = "sale"
  BY DEF Applied, Row
<1>6. ASSUME Delivered(r) PROVE Delivered(u) \/ Short(u, s)
  <2>1. CASE NeedsTransition(r, s)
    BY <1>4, <1>5, <2>1 DEF Delivered, Short
  <2>2. CASE ~NeedsTransition(r, s)
    <3>1. r.cartonaStatus = s
      BY <2>2 DEF NeedsTransition
    <3> QED
      BY <1>4, <1>6, <2>2, <3>1 DEF Delivered
  <2> QED
    BY <2>1, <2>2
<1> QED
  BY <1>2, <1>3, <1>4, <1>6

LEMMA CreatedKeeps ==
  ASSUME NEW s \in Status, NEW stock \in BOOLEAN, NEW otp \in {"free", "asked"}
  PROVE  LET n == Created(s, stock, otp) IN
         /\ Delivered(n) \/ Short(n, s)
         /\ n.cartonaStatus = s /\ n.state = ToOdoo(s)
  BY DEF Created, Applied, Delivered, Short, ToOdoo, Status, Cancelled

-----------------------------------------------------------------------------
(* Deliveries *)

\* A report of a delivery is about one that is validated, or is a wizard's.
Validated ==
  /\ \A o \in Orders : queue[o]["delivered"] > 0 => row[o].done
  /\ \A w \in Workers : pc[w] # "idle" /\ job[w].kind = "delivered" => row[job[w].order].done
  /\ \A c \in Clerks : pc[c] # "idle" => job[c].kind = "delivered"
  /\ \A o \in Orders : ~Exists(o) => ~row[o].done

\* What a pull makes of an order whose row it has not missed.
Kept ==
  \A p \in Pullers : \A o \in Orders :
    /\ o \in wrote[p] \ missed[p] =>
         /\ row[o].done => view[p][o].done
         /\ row[o].state = "sale" /\ row[o].done => view[p][o].state = "sale"
         /\ o \notin partial => Delivered(view[p][o]) \/ Short(view[p][o], got[p][o])
    /\ o \in new[p] => Delivered(view[p][o]) \/ Short(view[p][o], got[p][o])

Undelivered == \A o \in Orders \ partial : Delivered(row[o])

DInv == IInv /\ Seen /\ Validated /\ Kept /\ Undelivered

\* What a user makes of a sale order.
LEMMA UserKinds ==
  ASSUME TypeOK, NEW o \in Orders, User(o)
  PROVE  \E r \in Row, k \in Kind :
           /\ UserAct(o, r, k)
           /\ r.cartonaStatus = row[o].cartonaStatus /\ Exists(o)
           /\ row[o].done => r.done
           /\ k = "delivered" => r.done
           /\ partial \subseteq partial'
           /\ \/ r.state = row[o].state
              \/ r.state = "sale" /\ row[o].state = "draft"
              \/ r.state = "cancel" /\ UserCancel(o)
              \/ o \in partial' /\ row[o].state = "cancel"
<1>1. row[o] \in Row
  BY DEF TypeOK
<1>2. /\ [row[o] EXCEPT !.done = TRUE] \in Row
      /\ [row[o] EXCEPT !.done = TRUE].done
      /\ [row[o] EXCEPT !.done = TRUE].state = row[o].state
      /\ [row[o] EXCEPT !.done = TRUE].cartonaStatus = row[o].cartonaStatus
  BY <1>1 DEF Row
<1>3. ASSUME NEW y \in {"sale", "cancel", "draft"}
      PROVE  /\ [row[o] EXCEPT !.state = y] \in Row
             /\ [row[o] EXCEPT !.state = y].state = y
             /\ [row[o] EXCEPT !.state = y].done = row[o].done
             /\ [row[o] EXCEPT !.state = y].cartonaStatus = row[o].cartonaStatus
  BY <1>1 DEF Row
<1>4. CASE UserConfirm(o)
  BY <1>3, <1>4 DEF UserConfirm, Kind, Exists
<1>5. CASE UserCancel(o)
  BY <1>3, <1>5 DEF UserCancel, Kind, Exists
<1>6. CASE UserDraft(o)
  BY <1>3, <1>6 DEF UserDraft, Kind, Exists
<1>7. CASE UserDeliver(o)
  BY <1>2, <1>7 DEF UserDeliver, Kind, Exists
<1>8. CASE UserSync(o)
  BY <1>1, <1>8 DEF UserSync, Kind, Exists
<1> QED
  BY <1>4, <1>5, <1>6, <1>7, <1>8 DEF User

\* The steps by what they write.
LEMMA Kinds ==
  ASSUME TypeOK, Reporting, Seen, [Next]_vars
  PROVE  \/ UNCHANGED <<row, partial>>
         \/ \E p \in Pullers : PullCommit(p)
         \/ \E a \in Reporters, o \in Orders, r \in Row : Reports(a, o, r)
         \/ \E o \in Orders :
              /\ row[o].state = "sale" /\ row' = [row EXCEPT ![o] = [row[o] EXCEPT !.done = TRUE]]
              /\ UNCHANGED <<remote, queue, ghosts>>
         \/ \E o \in Orders : User(o)
<1>1. ASSUME NEW p \in Pullers, Pull(p) PROVE UNCHANGED <<row, partial>> \/ PullCommit(p)
  BY <1>1
  DEF Pull, New, PullBegin, PullFetch, ProcessNew, ProcessUpdate, ProcessUnchanged, ProcessError,
      ProcessHalf, ProcessRejected, Process, PullConflict, PullRollback
<1>2. ASSUME NEW o \in Orders, Cartona(o) \/ \E k \in Kind : JobSkip(o, k)
      PROVE  UNCHANGED <<row, partial>>
  BY <1>2 DEF Cartona, CartonaPlaces, CartonaMoves, JobSkip
<1>3. UserSwitches \/ UNCHANGED vars => UNCHANGED <<row, partial>>
  BY DEF UserSwitches
<1> QED
  BY <1>1, <1>2, <1>3, ReportKinds DEF Next, Reporters

\* A validated delivery stays validated, and its order a sale unless a user
\* cancels it.
LEMMA DeliveryStays ==
  ASSUME DInv, [Next]_vars, NEW o \in Orders, row[o].done
  PROVE  /\ row'[o].done
         /\ row[o].state = "sale" => row'[o].state = "sale" \/ UserCancel(o)
<1>0. TypeOK /\ Listing /\ Reporting /\ Fresh /\ Seen /\ Exists(o)
  BY DEF DInv, IInv, Validated
<1>1. ASSUME NEW p \in Pullers, PullCommit(p)
      PROVE  row'[o].done /\ (row[o].state = "sale" => row'[o].state = "sale")
  <2>1. CASE o \in new[p]
    <3>1. got[p][o] # "none"
      BY <1>0, <2>1 DEF Listing
    <3>2. Config \notin missed[p]
      BY <1>1, <3>1 DEF PullCommit, Claimed
    <3> QED
      BY <1>0, <1>1, <2>1, <3>2 DEF Fresh, PullCommit
  <2>2. CASE o \in wrote[p] \ new[p]
    <3>1. o \notin missed[p]
      BY <1>1, <2>2 DEF PullCommit, Claimed
    <3> QED
      BY <1>1, <2>2, <3>1 DEF PullCommit, DInv, Kept
  <2>3. CASE o \notin wrote[p] \cup new[p]
    BY <1>1, <2>3 DEF PullCommit
  <2> QED
    BY <2>1, <2>2, <2>3
<1>2. ASSUME NEW a \in Reporters, NEW x \in Orders, NEW r \in Row, Reports(a, x, r)
      PROVE  row'[o].done /\ row'[o].state = row[o].state
  BY <1>0, <1>2 DEF Reports, Record, TypeOK
<1>3. ASSUME NEW x \in Orders, row' = [row EXCEPT ![x] = [row[x] EXCEPT !.done = TRUE]]
      PROVE  row'[o].done /\ row'[o].state = row[o].state
  BY <1>0, <1>3 DEF TypeOK, Row
<1>4. ASSUME NEW x \in Orders, User(x)
      PROVE  row'[o].done /\ (row[o].state = "sale" => row'[o].state = "sale" \/ UserCancel(o))
  <2>1. PICK r \in Row, k \in Kind :
          /\ UserAct(x, r, k) /\ (row[x].done => r.done)
          /\ \/ r.state = row[x].state \/ r.state = "sale"
             \/ UserCancel(x) \/ row[x].state = "cancel"
    BY <1>0, <1>4, UserKinds
  <2> QED
    BY <1>0, <2>1 DEF UserAct, TypeOK
<1> QED
  BY <1>0, <1>1, <1>2, <1>3, <1>4, Kinds

LEMMA ValidatedStep ==
  ASSUME DInv, [Next]_vars
  PROVE  Validated'
<1> USE OrderAssumption
<1>0. /\ TypeOK /\ Listing /\ Reporting /\ Seen /\ Validated
      /\ \A o \in Orders : row[o].done => row'[o].done
  BY DeliveryStays DEF DInv, IInv
<1>1. ASSUME NEW o \in Orders, queue'[o]["delivered"] > 0 PROVE row'[o].done
  <2>0. "delivered" \in Kind
    BY DEF Kind
  <2>1. ASSUME NEW x \in Orders, User(x) PROVE row'[o].done
    <3>1. PICK r \in Row, k \in Kind : UserAct(x, r, k) /\ (k = "delivered" => r.done)
      BY <1>0, <2>1, UserKinds
    <3>2. queue' = queue \/ queue' = [queue EXCEPT ![x][k] = @ + 1]
      BY <3>1 DEF UserAct
    <3>3. queue[o]["delivered"] > 0 \/ (o = x /\ k = "delivered")
      BY <1>0, <1>1, <2>0, <3>2 DEF TypeOK
    <3>4. row' = [row EXCEPT ![x] = r]
      BY <3>1 DEF UserAct
    <3> QED
      BY <1>0, <3>1, <3>3, <3>4 DEF Validated, TypeOK
  <2>2. ASSUME NEW x \in Orders, NEW k \in Kind, Take(x, k) PROVE row'[o].done
    <3>1. queue[o]["delivered"] > 0
      BY <1>0, <1>1, <2>0, <2>2 DEF TypeOK, Take
    <3> QED
      BY <1>0, <3>1 DEF Validated
  <2>3. ASSUME NEW w \in Workers, pc[w] # "idle", Return(w) PROVE row'[o].done
    <3> PICK x \in Orders, k \in Kind : x = job[w].order /\ k = job[w].kind
      BY <1>0, <2>3 DEF Reporting, Reporters
    <3>1. queue' = [queue EXCEPT ![x][k] = @ + 1]
      BY <2>3 DEF Return
    <3>2. queue[o]["delivered"] > 0 \/ (o = x /\ k = "delivered")
      BY <1>0, <1>1, <2>0, <3>1 DEF TypeOK
    <3> QED
      BY <1>0, <2>3, <3>2 DEF Validated
  <2>4. CASE queue' = queue
    BY <1>0, <1>1, <2>4 DEF Validated
  <2>5. ASSUME NEW p \in Pullers, Pull(p) PROVE queue' = queue
    BY <2>5
    DEF Pull, New, PullBegin, PullFetch, ProcessNew, ProcessUpdate, ProcessUnchanged,
        ProcessError, ProcessHalf, ProcessRejected, Process, PullCommit, PullConflict, PullRollback
  <2>6. ASSUME NEW c \in Clerks, Clerk(c) PROVE queue' = queue
    BY <2>6
    DEF Clerk, ClerkOpen, ClerkConfirm, Send, ClerkBlocked, ClerkValidated, ClerkAsked,
        ClerkAnswers, ClerkError, ClerkConflict, ClerkCloses, Record
  <2>7. ASSUME NEW w \in Workers, Work(w) PROVE row'[o].done
    <3>1. CASE \E x \in Orders, k \in Kind : JobBegin(w, x, k)
      BY <2>2, <3>1 DEF JobBegin
    <3>2. CASE Send(w) \/ JobCommit(w)
      BY <2>4, <3>2 DEF Send, JobCommit, Record
    <3>3. CASE JobConflict(w) \/ JobCrash(w)
      BY <2>3, <3>3 DEF JobConflict, Overtaken, JobCrash
    <3> QED
      BY <2>7, <3>1, <3>2, <3>3 DEF Work
  <2>8. ASSUME NEW x \in Orders, Cartona(x) \/ \E k \in Kind : JobSkip(x, k)
        PROVE  row'[o].done
    BY <2>2, <2>4, <2>8 DEF Cartona, CartonaPlaces, CartonaMoves, JobSkip
  <2>9. CASE UserSwitches \/ UNCHANGED vars
    BY <2>4, <2>9 DEF UserSwitches
  <2> QED
    BY <2>1, <2>4, <2>5, <2>6, <2>7, <2>8, <2>9 DEF Next
<1>2. ASSUME NEW w \in Workers, pc'[w] # "idle", job'[w].kind = "delivered"
      PROVE  row'[job'[w].order].done
  <2>0. w \in Actors /\ w \in Reporters /\ w \notin Pullers /\ w \notin Clerks
    BY DEF Actors, Reporters
  <2>1. CASE Others(w)
    <3>1. pc[w] # "idle" /\ job'[w] = job[w]
      BY <1>2, <2>0, <2>1 DEF Others
    <3> QED
      BY <1>0, <1>2, <2>0, <3>1 DEF Validated, Reporting
  <2>2. ASSUME NEW o \in Orders, NEW k \in Kind, JobBegin(w, o, k) PROVE row'[job'[w].order].done
    <3>1. job'[w].order = o /\ job'[w].kind = k /\ queue[o][k] > 0
      BY <1>0, <2>0, <2>2 DEF JobBegin, Take, TypeOK
    <3> QED
      BY <1>0, <1>2, <3>1 DEF Validated
  <2>3. CASE Send(w)
    <3>1. \E x \in {"ok", "error"} : job' = [job EXCEPT ![w].answer = x]
      BY <2>3 DEF Send
    <3>2. job'[w].order = job[w].order /\ job'[w].kind = job[w].kind
      BY <1>0, <2>0, <3>1 DEF TypeOK, Report
    <3> QED
      BY <1>0, <1>2, <2>0, <2>3, <3>2 DEF Validated, Reporting, Send
  <2>4. JobCommit(w) \/ JobConflict(w) \/ JobCrash(w) => pc'[w] = "idle"
    BY <1>0, <2>0 DEF JobCommit, JobConflict, JobCrash, Return, EndReport, TypeOK
  <2> QED
    BY <1>0, <1>2, <2>0, <2>1, <2>2, <2>3, <2>4, OwnOrOthers DEF Own, Work
<1>3. ASSUME NEW c \in Clerks, pc'[c] # "idle" PROVE job'[c].kind = "delivered"
  <2>0. c \in Actors /\ c \in Reporters /\ c \notin Pullers /\ c \notin Workers
    BY DEF Actors, Reporters
  <2>1. CASE Others(c)
    BY <1>0, <1>3, <2>0, <2>1 DEF Others, Validated
  <2>2. ASSUME NEW x, job'[c] = [job[c] EXCEPT !.answer = x] PROVE job'[c].kind = job[c].kind
    BY <1>0, <2>0, <2>2 DEF TypeOK, Report
  <2>3. CASE Send(c)
    <3>1. \E x \in {"ok", "error"} : job' = [job EXCEPT ![c].answer = x]
      BY <2>3 DEF Send
    <3>2. job'[c].kind = job[c].kind
      BY <1>0, <2>0, <3>1 DEF TypeOK, Report
    <3> QED
      BY <1>0, <2>3, <3>2 DEF Validated, Send
  <2>4. ASSUME NEW o \in Orders, ClerkOpen(c, o) PROVE job'[c].kind = "delivered"
    BY <1>0, <2>0, <2>4 DEF ClerkOpen, TypeOK
  <2>5. CASE ClerkConfirm(c)
    <3>1. job' = job \/ job' = [job EXCEPT ![c].answer = "skipped"]
      BY <2>5 DEF ClerkConfirm
    <3>2. job'[c].kind = job[c].kind
      BY <1>0, <2>0, <3>1 DEF TypeOK, Report
    <3> QED
      BY <1>0, <2>5, <3>2 DEF Validated, ClerkConfirm
  <2>6. CASE ClerkAsked(c) \/ ClerkConflict(c)
    <3>1. pc[c] # "idle" /\ job'[c] = [job[c] EXCEPT !.answer = "none"]
      BY <1>0, <2>0, <2>6 DEF ClerkAsked, Current, ClerkConflict, Overtaken, EndReport, TypeOK
    <3> QED
      BY <1>0, <2>2, <3>1 DEF Validated
  <2>7. ClerkBlocked(c) \/ ClerkValidated(c) \/ ClerkAnswers(c) \/ ClerkError(c) \/ ClerkCloses(c)
          => pc'[c] = "idle"
    BY <1>0, <2>0
    DEF ClerkBlocked, ClerkValidated, ClerkAnswers, ClerkError, ClerkCloses, EndReport, TypeOK
  <2> QED
    BY <1>0, <1>3, <2>0, <2>1, <2>3, <2>4, <2>5, <2>6, <2>7, OwnOrOthers DEF Own, Clerk
<1>4. ASSUME NEW o \in Orders, row'[o].state = "none" PROVE ~row'[o].done
  <2>1. ~Exists(o) /\ ~row[o].done
    BY <1>0, <1>4, Stays DEF Exists, Validated
  <2>2. ASSUME NEW p \in Pullers, PullCommit(p) PROVE row'[o] = row[o]
    BY <1>0, <1>4, <2>2 DEF PullCommit, Listing
  <2>3. CASE Writes
    BY <1>0, <2>1, <2>3 DEF Writes, TypeOK
  <2> QED
    BY <1>0, <2>1, <2>2, <2>3, RowStep
<1> QED
  BY <1>1, <1>2, <1>3, <1>4 DEF Validated, Exists

LEMMA KeptStep ==
  ASSUME DInv, [Next]_vars
  PROVE  Kept'
<1> USE OrderAssumption
<1>0. /\ TypeOK /\ Listing /\ Reporting /\ Fresh /\ Seen /\ Kept /\ Undelivered
      /\ partial \subseteq partial'
  <2>1. TypeOK /\ Listing /\ Reporting /\ Fresh /\ Seen /\ Kept /\ Undelivered
    BY DEF DInv, IInv
  <2>2. ASSUME NEW a \in Reporters, NEW x \in Orders, NEW r \in Row, Reports(a, x, r)
        PROVE  partial \subseteq partial'
    BY <2>2 DEF Reports
  <2>3. ASSUME NEW x \in Orders, User(x) PROVE partial \subseteq partial'
    BY <2>1, <2>3, UserKinds
  <2>4. ASSUME NEW p \in Pullers, PullCommit(p) PROVE partial \subseteq partial'
    BY <2>4 DEF PullCommit
  <2> QED
    BY <2>1, <2>2, <2>3, <2>4, Kinds
<1> DEFINE K(p, o) ==
      /\ o \in wrote[p] \ missed[p] =>
           /\ row[o].done => view[p][o].done
           /\ row[o].state = "sale" /\ row[o].done => view[p][o].state = "sale"
           /\ o \notin partial => Delivered(view[p][o]) \/ Short(view[p][o], got[p][o])
      /\ o \in new[p] => Delivered(view[p][o]) \/ Short(view[p][o], got[p][o])
<1> SUFFICES ASSUME NEW p \in Pullers, NEW o \in Orders PROVE K(p, o)'
  BY DEF Kept
<1>1. p \in Actors /\ p \notin Reporters /\ K(p, o)
  BY <1>0 DEF Actors, Reporters, Kept
<1>2. CASE Others(p)
  <2>1. /\ wrote'[p] = wrote[p] /\ new'[p] = new[p] /\ view'[p] = view[p] /\ got'[p] = got[p]
    BY <1>2 DEF Others
  <2>2. CASE o \in wrote[p] \ missed'[p]
    <3>1. pc[p] = "processing"
      BY <1>0, <2>2 DEF Listing
    <3>2. o \notin missed[p] /\ row'[o] = row[o]
      BY <1>2, <2>2, <3>1 DEF Others
    <3> QED
      BY <1>0, <1>1, <2>1, <3>2
  <2>3. CASE o \notin wrote[p] \ missed'[p]
    BY <1>1, <2>1, <2>3
  <2> QED
    BY <2>2, <2>3
<1>3. CASE UNCHANGED <<row, wrote, new, missed, partial>> /\ got'[p][o] = got[p][o]
           /\ view'[p][o] = view[p][o]
  BY <1>1, <1>3
<1>4. CASE PullBegin(p) \/ PullFetch(p)
  BY <1>0, <1>4 DEF PullBegin, PullFetch, Listing
<1>5. ASSUME NEW x \in Orders, NEW stock \in BOOLEAN, NEW otp \in Payments,
             ProcessNew(p, x, stock, otp)
      PROVE  K(p, o)'
  <2>1. got[p][x] \in Status /\ otp \in {"free", "asked"} /\ x \notin wrote[p] /\ got' = got
    BY <1>0, <1>5 DEF TypeOK, Listing, ProcessNew, Process
  <2>2. CASE x = o
    <3>1. view'[p][o] = Created(got[p][o], stock, otp) /\ o \notin wrote'[p]
      BY <1>0, <1>1, <1>5, <2>1, <2>2 DEF ProcessNew, TypeOK
    <3> QED
      BY <2>1, <2>2, <3>1, CreatedKeeps
  <2>3. CASE x # o
    <3>1. /\ view'[p][o] = view[p][o] /\ wrote' = wrote /\ (o \in new'[p] => o \in new[p])
          /\ UNCHANGED <<row, missed, partial>>
      BY <1>0, <1>1, <1>5, <2>3 DEF ProcessNew, Process, TypeOK
    <3> QED
      BY <1>1, <2>1, <3>1
  <2> QED
    BY <2>2, <2>3
<1>6. ASSUME NEW x \in Orders, NEW u \in Row, Process(p, x), new' = new, partial' = partial,
             view' = [view EXCEPT ![p][x] = u],
             wrote' = [wrote EXCEPT ![p] = @ \cup {x}],
             o = x /\ o \notin missed[p] =>
               /\ row[o].done => u.done
               /\ row[o].state = "sale" /\ row[o].done => u.state = "sale"
               /\ o \notin partial => Delivered(u) \/ Short(u, got[p][o])
      PROVE  K(p, o)'
  <2>0. UNCHANGED <<row, missed, got>> /\ x \notin new[p]
    BY <1>0, <1>6 DEF Process, Listing
  <2>1. CASE x = o
    <3>1. view'[p][o] = u /\ o \notin new'[p]
      BY <1>0, <1>1, <1>6, <2>0, <2>1 DEF TypeOK
    <3> QED
      BY <1>6, <2>0, <2>1, <3>1
  <2>2. CASE x # o
    <3>1. view'[p][o] = view[p][o] /\ (o \in wrote'[p] => o \in wrote[p])
      BY <1>0, <1>1, <1>6, <2>2 DEF TypeOK
    <3> QED
      BY <1>1, <1>6, <2>0, <3>1
  <2> QED
    BY <2>1, <2>2
<1>7. ASSUME NEW x \in Orders, Process(p, x)
      PROVE  /\ got[p][x] \in Status /\ view[p][x] \in Row
             /\ x \notin missed[p] => view[p][x] = row[x]
  BY <1>0, <1>1, <1>7 DEF Process, TypeOK, Listing, Seen
<1>8. ASSUME NEW x \in Orders, NEW stock \in BOOLEAN, ProcessUpdate(p, x, stock)
      PROVE  K(p, o)'
  <2> DEFINE u == Updated(view[p][x], got[p][x], stock)
  <2>1. Process(p, x) /\ ~Blocked(view[p][x], got[p][x])
    BY <1>8 DEF ProcessUpdate
  <2>2. u \in Row
    BY <1>7, <2>1, RowTypes
  <2>3. o = x /\ o \notin missed[p] =>
          /\ row[o].done => u.done
          /\ row[o].state = "sale" /\ row[o].done => u.state = "sale"
          /\ o \notin partial => Delivered(u) \/ Short(u, got[p][o])
    BY <1>0, <1>7, <2>1, UpdatedKeeps DEF Undelivered
  <2>4. /\ new' = new /\ partial' = partial /\ view' = [view EXCEPT ![p][x] = u]
        /\ wrote' = [wrote EXCEPT ![p] = @ \cup {x}]
    BY <1>8 DEF ProcessUpdate, Process
  <2> HIDE DEF u
  <2> QED
    BY <1>6, <2>1, <2>2, <2>3, <2>4
<1>9. ASSUME NEW x \in Orders, ProcessError(p, x)
      PROVE  K(p, o)'
  <2>1. Process(p, x)
    BY <1>9 DEF ProcessError
  <2>3. PICK u \in Row :
          /\ view' = [view EXCEPT ![p][x] = u]
          /\ u.cartonaStatus = view[p][x].cartonaStatus /\ u.done = view[p][x].done
          /\ u.state = view[p][x].state \/ (view[p][x].state = "draft" /\ u.state = "sale")
    BY <1>0, <1>9, ErrorRow
  <2>5. new' = new /\ partial' = partial /\ wrote' = [wrote EXCEPT ![p] = @ \cup {x}]
    BY <1>9 DEF ProcessError, Process
  <2>6. o = x /\ o \notin missed[p] =>
          /\ row[o].done => u.done
          /\ row[o].state = "sale" /\ row[o].done => u.state = "sale"
          /\ o \notin partial => Delivered(u) \/ Short(u, got[p][o])
    BY <1>0, <1>7, <2>1, <2>3 DEF Undelivered, Delivered
  <2> QED
    BY <1>6, <2>1, <2>3, <2>5, <2>6
<1>12. ASSUME NEW x \in Orders, NEW otp \in Payments, ProcessHalf(p, x, otp)
       PROVE  K(p, o)'
  <2>1. PICK u \in Row : /\ view' = [view EXCEPT ![p][x] = u] /\ u.cartonaStatus = got[p][x]
                         /\ u.state = "sale" /\ ~u.done
    BY <1>0, <1>12, HalfRow
  <2>2. /\ UNCHANGED <<got, wrote, row, missed, partial>> /\ x \in todo[p]
        /\ new' = [new EXCEPT ![p] = @ \cup {x}]
    BY <1>12 DEF ProcessHalf, Process
  <2>3. CASE x = o
    <3>1. view'[p][o] = u /\ o \notin wrote'[p]
      BY <1>0, <1>1, <2>1, <2>2, <2>3 DEF Listing, TypeOK
    <3>2. Delivered(u) \/ Short(u, got[p][o])
      BY <2>1, <2>3 DEF Delivered, Short
    <3> QED
      BY <2>2, <3>1, <3>2
  <2>4. CASE x # o
    <3>1. view'[p][o] = view[p][o] /\ (o \in new'[p] => o \in new[p])
      BY <1>0, <1>1, <2>1, <2>2, <2>4 DEF TypeOK
    <3> QED
      BY <1>1, <2>2, <3>1
  <2> QED
    BY <2>3, <2>4
<1>10. ASSUME NEW x \in Orders, ProcessUnchanged(p, x) \/ ProcessRejected(p, x)
       PROVE  K(p, o)'
  BY <1>3, <1>10 DEF ProcessUnchanged, ProcessRejected, Process
<1>11. CASE PullCommit(p) \/ PullConflict(p) \/ PullRollback(p)
  <2>1. wrote'[p] = {} /\ new'[p] = {}
    BY <1>0, <1>1, <1>11 DEF PullCommit, PullConflict, PullRollback, EndPull, End, TypeOK
  <2> QED
    BY <2>1
<1> QED
  BY <1>0, <1>1, <1>2, <1>4, <1>5, <1>8, <1>9, <1>10, <1>11, <1>12,
     OwnOrOthers
  DEF Own, Pull, New, Reporters

LEMMA UndeliveredStep ==
  ASSUME DInv, [Next]_vars
  PROVE  Undelivered'
<1> USE OrderAssumption
<1>0. TypeOK /\ Listing /\ Reporting /\ Seen /\ Validated /\ Kept /\ Undelivered
  BY DEF DInv, IInv
<1> SUFFICES ASSUME NEW o \in Orders, o \notin partial' PROVE Delivered(row'[o])
  BY DEF Undelivered, Delivered
<1>1. CASE UNCHANGED <<row, partial>>
  BY <1>0, <1>1 DEF Undelivered
<1>2. ASSUME NEW p \in Pullers, PullCommit(p) PROVE Delivered(row'[o])
  <2>1. CASE o \in wrote[p] \cup new[p]
    <3>1. row'[o] = view[p][o] /\ ~Short(view[p][o], got[p][o]) /\ o \notin partial
      BY <1>2, <2>1 DEF PullCommit
    <3>2. o \notin missed[p] \/ o \in new[p]
      BY <1>2, <2>1 DEF PullCommit, Claimed
    <3> QED
      BY <1>0, <2>1, <3>1, <3>2 DEF Kept
  <2>2. CASE o \notin wrote[p] \cup new[p]
    BY <1>0, <1>2, <2>2 DEF PullCommit, Undelivered
  <2> QED
    BY <2>1, <2>2
<1>3. ASSUME NEW a \in Reporters, NEW x \in Orders, NEW r \in Row, Reports(a, x, r)
      PROVE  Delivered(row'[o])
  <2>0. row' = [row EXCEPT ![x] = r] /\ o \notin partial
    BY <1>3 DEF Reports, Record
  <2>1. CASE o # x
    BY <1>0, <2>0, <2>1 DEF Undelivered, TypeOK
  <2>2. CASE o = x
    <3>0. row'[o] = r /\ r.state = row[o].state /\ (row[o].done => r.done)
      BY <1>0, <1>3, <2>0, <2>2 DEF Reports, TypeOK
    <3>1. CASE r.cartonaStatus = row[o].cartonaStatus
      BY <1>0, <2>0, <3>0, <3>1 DEF Undelivered, Delivered
    <3>2. CASE r.cartonaStatus # row[o].cartonaStatus
      <4>1. view[a][o] = row[o] /\ view[a][o] \in Row /\ pc[a] = "sent"
        <5>1. a \in Actors /\ new[a] = {} /\ wrote[a] = {}
          BY <1>0 DEF Seen, Actors
        <5>2. pc[a] = "sent" /\ o \notin missed[a]
          BY <1>3, <2>2 DEF Reports, Current, Reads
        <5>3. view[a][o] = row[o]
          BY <1>0, <5>1, <5>2 DEF Seen
        <5> QED
          BY <1>0, <5>1, <5>2, <5>3 DEF TypeOK
      <4>2. job[a].answer = "ok" /\ r.cartonaStatus = Reported(a)
        BY <1>3, <2>2, <3>2, <4>1 DEF Reports, Recorded, Row
      <4>3. CASE a \in Workers
        <5>1. job[a].kind = "delivered" => row[o].done
          BY <1>0, <1>3, <2>2, <4>1, <4>3 DEF Validated, Reports
        <5>2. job[a].kind # "delivered" => Reported(a) # "delivered"
          <6>1. row[o].state \in {"draft", "sale", "cancel"}
            BY <1>0, <1>3, <2>2, <4>1 DEF Reporting, Reports, Row
          <6> QED
            BY <1>3, <2>2, <4>1, <6>1 DEF Reported, ToCartona, Reports
        <5> QED
          BY <3>0, <4>2, <5>1, <5>2 DEF Delivered
      <4>4. CASE a \in Clerks
        <5>1. Confirmed(a)
          BY <1>3, <2>2, <4>1, <4>2 DEF Confirmed, Recorded, Reports, Row
        <5>2. r.done \/ o \in partial'
          BY <1>3, <2>2, <4>4, <5>1 DEF Reports
        <5> QED
          BY <3>0, <5>2 DEF Delivered
      <4> QED
        BY <4>3, <4>4 DEF Reporters
    <3> QED
      BY <3>1, <3>2
  <2> QED
    BY <2>1, <2>2
<1>4. ASSUME NEW x \in Orders, row' = [row EXCEPT ![x] = [row[x] EXCEPT !.done = TRUE]],
             UNCHANGED ghosts
      PROVE  Delivered(row'[o])
  <2>1. row[x] \in Row
    BY <1>0 DEF TypeOK
  <2>2. [row[x] EXCEPT !.done = TRUE].done
    BY <2>1 DEF Row
  <2> QED
    BY <1>0, <1>4, <2>2 DEF Undelivered, Delivered, TypeOK
<1>5. ASSUME NEW x \in Orders, User(x) PROVE Delivered(row'[o])
  <2>1. PICK r \in Row, k \in Kind :
          /\ UserAct(x, r, k)
          /\ r.cartonaStatus = row[x].cartonaStatus
          /\ row[x].done => r.done
          /\ partial \subseteq partial'
          /\ \/ r.state = row[x].state
             \/ r.state = "sale" /\ row[x].state = "draft"
             \/ r.state = "cancel" /\ UserCancel(x)
             \/ x \in partial' /\ row[x].state = "cancel"
    BY <1>0, <1>5, UserKinds
  <2>2. row' = [row EXCEPT ![x] = r]
    BY <2>1 DEF UserAct
  <2> QED
    BY <1>0, <2>1, <2>2 DEF Undelivered, Delivered, TypeOK
<1> QED
  BY <1>0, <1>1, <1>2, <1>3, <1>4, <1>5, Kinds

LEMMA DInvInit == Init => DInv
<1> SUFFICES ASSUME Init PROVE DInv
  OBVIOUS
<1>1. IInv
  BY IInvInit
<1>2. Seen /\ Validated /\ Kept /\ Undelivered
  BY OrderAssumption
  DEF Init, Seen, Validated, Kept, Undelivered, Delivered, NoRow, NoJob, Actors, Reporters, Exists,
      Kind
<1> QED
  BY <1>1, <1>2 DEF DInv

LEMMA DInvStep == DInv /\ [Next]_vars => DInv'
<1> SUFFICES ASSUME DInv, [Next]_vars PROVE DInv'
  OBVIOUS
<1>1. IInv' /\ Seen'
  BY IInvStep, SeenStep DEF DInv, IInv
<1> QED
  BY <1>1, ValidatedStep, KeptStep, UndeliveredStep DEF DInv

LEMMA DInvAlways == Spec => []DInv
  BY DInvInit, DInvStep, PTL DEF Spec

-----------------------------------------------------------------------------
(* Theorems about deliveries *)

\* A sale order says Cartona has it delivered only if its delivery is
\* validated, whatever was reported and then rolled back.
THEOREM DeliveryRecorded == Spec => []RecordedDelivery
<1>1. DInv => RecordedDelivery
  BY DEF DInv, Undelivered, Delivered, RecordedDelivery
<1> QED
  BY <1>1, DInvAlways, PTL

\* No cancellation by Cartona, however late it is applied, cancels a sale
\* order whose delivery is validated.
THEOREM DeliveryKept == Spec => DeliveredIsKept
<1> DEFINE K == \A o \in Orders :
                  row[o].state = "sale" /\ row[o].done /\ row'[o].state = "cancel" => UserCancel(o)
<1>1. DInv /\ [Next]_vars => K
  BY DeliveryStays
<1> QED
  BY <1>1, DInvAlways, PTL DEF Spec, DeliveredIsKept


-----------------------------------------------------------------------------
(* What Cartona can make of a status, and what it may say of an order *)

Later(s) ==
  CASE s = "pending"  -> {"pending", "approved", "delivered", "cancelled_by_retailer"}
    [] s = "approved" -> {"approved", "delivered", "cancelled_by_retailer"}
    [] OTHER          -> {s}

Expected(state) ==
  CASE state = "draft"  -> Later("pending")
    [] state = "sale"   -> Later("approved")
    [] OTHER            -> Cancelled

\* A sale order and a status of Cartona that fit, unless its delivery is
\* validated and it is no sale any more.  An order whose action failed after it
\* was confirmed is ahead of the status it knows.
Fits(r) ==
  r.state = ToOdoo(r.cartonaStatus) \/ (r.state = "sale" /\ r.cartonaStatus = "pending")

Agrees(r, s) ==
  /\ (r.done => r.state = "sale") => Fits(r) /\ s \in Expected(r.state)
  /\ r.state = "draft" =>
       \/ r.cartonaStatus = "pending" /\ s \in Later("pending")
       \/ r.done /\ r.cartonaStatus = "delivered" /\ s = "delivered"

\* A report that went well fits what it reported.
LEMMA ReportAgrees ==
  ASSUME NEW r \in Row, NEW s,
         \/ r.state # "none" /\ r.cartonaStatus = ToCartona(r.state)
         \/ (r.done \/ r.state = "sale") /\ r.cartonaStatus = "delivered",
         s \in Later(r.cartonaStatus)
  PROVE  Agrees(r, s)
<1>1. CASE r.cartonaStatus = "delivered" /\ (r.done \/ r.state = "sale")
  BY <1>1 DEF Agrees, Fits, Later, Expected, ToOdoo, Cancelled
<1>2. CASE r.state = "draft" /\ r.cartonaStatus = "pending"
  BY <1>2 DEF Agrees, Fits, Later, Expected, ToOdoo, Cancelled
<1>3. CASE r.state = "sale" /\ r.cartonaStatus = "approved"
  BY <1>3 DEF Agrees, Fits, Later, Expected, ToOdoo, Cancelled
<1>4. CASE r.state = "cancel" /\ r.cartonaStatus = "cancelled_by_supplier"
  BY <1>4 DEF Agrees, Fits, Later, Expected, ToOdoo, Cancelled
<1> QED
  BY <1>1, <1>2, <1>3, <1>4 DEF ToCartona, Row

\* So does a new order.
LEMMA CreatedAgrees ==
  ASSUME NEW g \in Status, NEW stock \in BOOLEAN, NEW otp \in {"free", "asked"},
         NEW s \in Later(g)
  PROVE  Agrees(Created(g, stock, otp), s)
<1>1. Created(g, stock, otp).cartonaStatus = g /\ Created(g, stock, otp).state = ToOdoo(g)
  BY CreatedKeeps
<1>2. s \in Expected(ToOdoo(g))
  <2>1. CASE g = "pending"
    BY <2>1 DEF Later, Expected, ToOdoo, Cancelled
  <2>2. CASE g = "approved"
    BY <2>2 DEF Later, Expected, ToOdoo, Cancelled
  <2>3. CASE g = "delivered"
    BY <2>3 DEF Later, Expected, ToOdoo, Cancelled
  <2>4. CASE g \in Cancelled
    BY <2>4 DEF Later, Expected, ToOdoo, Cancelled
  <2> QED
    BY <2>1, <2>2, <2>3, <2>4 DEF Status
<1>3. ToOdoo(g) = "draft" => g = "pending"
  BY DEF ToOdoo, Status, Cancelled
<1> QED
  BY <1>1, <1>2, <1>3 DEF Agrees, Fits, Expected

\* And one whose action failed after it was confirmed.
LEMMA ConfirmedAgrees ==
  ASSUME NEW r \in Row, NEW g \in Status, NEW s \in Later(g), ToOdoo(g) = "sale",
         r.state = "sale", r.cartonaStatus \in {"pending", g}
  PROVE  Agrees(r, s)
<1>1. g \in {"approved", "delivered"}
  BY DEF ToOdoo, Status, Cancelled
<1>2. s \in Expected("sale")
  BY <1>1 DEF Later, Expected, Cancelled
<1>3. Fits(r)
  BY DEF Fits
<1> QED
  BY <1>2, <1>3 DEF Agrees

\* And an order that a pull updates, if it fitted what the pull got.
LEMMA UpdatedAgrees ==
  ASSUME NEW r \in Row, NEW g \in Status, NEW stock \in BOOLEAN, NEW s \in Later(g),
         r.state # "none", ~Blocked(r, g),
         Agrees(r, g)
  PROVE  Agrees(Updated(r, g, stock), s)
<1> DEFINE a == Applied(r, g, stock)
           u == Updated(r, g, stock)
<1>1. a \in Row /\ a.cartonaStatus = r.cartonaStatus
  <2>1. a \in Row
    BY RowTypes
  <2> QED
    BY <2>1 DEF Applied, Row
<1>2. /\ u.state = IF NeedsTransition(r, g) THEN a.state ELSE r.state
      /\ u.done = IF NeedsTransition(r, g) THEN a.done ELSE r.done
      /\ u.cartonaStatus = g
  BY <1>1 DEF Updated, Row
<1>3. r.state \in {"draft", "sale", "cancel"}
  BY DEF Row
<1>4. /\ g \in {"approved", "delivered"} =>
           a.state = IF r.state = "draft" THEN "sale" ELSE r.state
      /\ g \in Cancelled => a.state = "cancel" /\ a.done = r.done
      /\ g = "pending" => a = r
      /\ r.done => a.done
      /\ a.done => r.done \/ a.state = "sale"
  BY DEF Applied, Row, Status, Cancelled
<1> HIDE DEF a, u
<1>5. CASE g \in {"approved", "delivered"} /\ u.state = "sale"
  BY <1>2, <1>5 DEF Agrees, Fits, Expected, Later, ToOdoo, Cancelled, u
<1>6. CASE r.state = "draft"
  <2>1. CASE g = "pending"
    BY <1>2, <1>4, <1>6, <2>1 DEF Agrees, Fits, Expected, ToOdoo, Cancelled, u
  <2>2. CASE g \in {"approved", "delivered"} /\ NeedsTransition(r, g)
    BY <1>2, <1>4, <1>5, <1>6, <2>2
  <2>3. CASE g \in {"approved", "delivered"} /\ ~NeedsTransition(r, g)
    <3>1. r.done /\ g = "delivered"
      BY <1>6, <2>3 DEF Agrees, NeedsTransition
    <3>2. s = "delivered"
      BY <3>1 DEF Later, Cancelled
    <3> QED
      BY <1>2, <1>6, <2>3, <3>1, <3>2 DEF Agrees, u
  <2>4. CASE g \in Cancelled
    <3>1. ~r.done /\ u.state = "cancel" /\ ~u.done /\ s = g
      BY <1>2, <1>4, <1>6, <2>4 DEF Blocked, NeedsTransition, Later, Cancelled
    <3> QED
      BY <1>2, <2>4, <3>1 DEF Agrees, Fits, Expected, ToOdoo, Cancelled, u
  <2> QED
    BY <2>1, <2>2, <2>3, <2>4 DEF Status
<1>7. CASE r.state = "cancel" /\ r.done
  <2>1. a.state = "cancel" /\ a.done
    <3>1. g = "pending" \/ g \in {"approved", "delivered"} \/ g \in Cancelled
      BY DEF Status
    <3> QED
      BY <1>4, <1>7, <3>1
  <2>2. u.state = "cancel" /\ u.done
    BY <1>2, <1>7, <2>1
  <2> QED
    BY <2>2 DEF Agrees, u
<1>8. CASE r.state # "draft" /\ (r.done => r.state = "sale")
  <2>1. Fits(r) /\ g \in Expected(r.state)
    BY <1>8 DEF Agrees
  <2>2. g # "pending"
    BY <1>3, <1>8, <2>1 DEF Expected, Later, Cancelled
  <2>3. CASE g \in {"approved", "delivered"}
    <3>1. r.state = "sale"
      BY <1>3, <1>8, <2>1, <2>3 DEF Expected, Cancelled
    <3> QED
      BY <1>2, <1>4, <1>5, <2>3, <3>1
  <2>4. CASE g \in Cancelled
    <3>1. u.state = "cancel"
      BY <1>2, <1>4, <2>4 DEF NeedsTransition
    <3>2. s = g
      BY <2>4 DEF Later, Cancelled
    <3> QED
      BY <1>2, <2>4, <3>1, <3>2 DEF Agrees, Fits, Expected, ToOdoo, Cancelled, u
  <2> QED
    BY <2>2, <2>3, <2>4 DEF Status
<1> QED
  BY <1>3, <1>6, <1>7, <1>8 DEF u

-----------------------------------------------------------------------------
(* Reports under way *)

BusyWith(a, o) == pc[a] \in {"open", "sent"} /\ job[a].order = o

\* Nothing of an order is left to be reported, and nothing went wrong.
Quiet(o) == Idle(o) /\ o \notin failed \cup undone

\* Nobody else is to report the order.
Alone(a, o) ==
  /\ \A k \in Kind : queue[o][k] = 0
  /\ \A b \in Reporters \ {a} : ~BusyWith(b, o)
  /\ o \notin undone

\* A step leaves the reports of an order alone, ends one, or leaves one to be
\* made or known to be missing.
Untouched(o) ==
  /\ queue'[o] = queue[o]
  /\ \A a \in Reporters : BusyWith(a, o)' <=> BusyWith(a, o)
  /\ o \in undone' <=> o \in undone

Touches(o) ==
  \/ Untouched(o) /\ (o \in failed' <=> o \in failed)
  \/ \E a \in Reporters, r \in Row : Reports(a, o, r)
  \/ \E a \in Reporters : ~BusyWith(a, o) /\ BusyWith(a, o)'
  \/ \E k \in Kind : queue'[o][k] # 0
  \/ o \in undone'
  \/ o \in failed' /\ (Untouched(o) \/ ~Busy(o))

\* Whoever is not the actor of a step goes on with its report.
LEMMA StillBusy ==
  ASSUME NEW a \in Reporters, Others(a), NEW o
  PROVE  BusyWith(a, o)' <=> BusyWith(a, o)
  BY DEF Others, BusyWith

LEMMA ReporterTouches ==
  ASSUME TypeOK, Listing, Reporting, Seen, NEW a \in Reporters,
         (a \in Workers /\ Work(a)) \/ (a \in Clerks /\ Clerk(a)),
         NEW o \in Orders
  PROVE  Touches(o)
<1> USE OrderAssumption
<1>0. a \in Actors
  BY DEF Actors
<1>a. \A b \in Reporters \ {a} : BusyWith(b, o)' <=> BusyWith(b, o)
  BY ReportOthers, StillBusy DEF Reporters, Actors
<1>b. ASSUME NEW x, NEW j, x \in {"idle", "form", "dialog"}, EndReport(a, x, j)
      PROVE  ~BusyWith(a, o)'
  BY <1>0, <1>b DEF EndReport, BusyWith, TypeOK
<1>1. ASSUME NEW x \in Orders, NEW k \in Kind, JobBegin(a, x, k) PROVE Touches(o)
  <2>1. pc[a] = "idle" /\ pc'[a] = "open" /\ job'[a].order = x
    BY <1>0, <1>1 DEF JobBegin, TypeOK
  <2>2. CASE x = o
    BY <2>1, <2>2 DEF Touches, BusyWith
  <2>3. CASE x # o
    <3>1. queue'[o] = queue[o]
      BY <1>1, <2>3 DEF JobBegin, Take, TypeOK
    <3> QED
      BY <1>a, <1>1, <2>1, <2>3, <3>1 DEF JobBegin, Touches, Untouched, BusyWith
  <2> QED
    BY <2>2, <2>3
<1>2. CASE Send(a)
  <2>1. pc[a] = "open" /\ pc'[a] = "sent"
    BY <1>0, <1>2 DEF Send, TypeOK
  <2>2. \E x \in {"ok", "error"} : job' = [job EXCEPT ![a].answer = x]
    BY <1>2 DEF Send
  <2>3. job'[a].order = job[a].order
    BY <2>2 DEF TypeOK, Report
  <2> QED
    BY <1>a, <1>2, <2>1, <2>3 DEF Send, Touches, Untouched, BusyWith
<1>3. CASE \/ JobCommit(a) /\ a \in Workers
           \/ a \in Clerks /\ (ClerkBlocked(a) \/ ClerkValidated(a) \/ ClerkAsked(a))
  <2> PICK x \in Orders, r \in Row : Reports(a, x, r)
    BY <1>3, ReportMade
  <2>1. CASE x = o
    BY <2>1 DEF Touches
  <2>2. CASE x # o
    <3>1. queue' = queue /\ undone' = undone /\ (o \in failed' <=> o \in failed)
      BY <2>2 DEF Reports, Record
    <3>2. ~BusyWith(a, o)' /\ ~BusyWith(a, o)
      BY <1>b, <2>2 DEF Reports, BusyWith
    <3> QED
      BY <1>a, <3>1, <3>2 DEF Touches, Untouched
  <2> QED
    BY <2>1, <2>2
<1>4. CASE JobConflict(a) \/ JobCrash(a)
  <2> PICK x \in Orders, k \in Kind : x = job[a].order /\ k = job[a].kind
    BY <1>4 DEF Reporting, JobConflict, Overtaken, JobCrash
  <2>1. Return(a)
    BY <1>4 DEF JobConflict, JobCrash
  <2>2. CASE x = o
    <3>1. queue'[o][k] = queue[o][k] + 1
      BY <2>1, <2>2 DEF Return, TypeOK
    <3>2. queue[o][k] \in Nat
      BY DEF TypeOK
    <3> QED
      BY <3>1, <3>2 DEF Touches
  <2>3. CASE x # o
    <3>1. queue'[o] = queue[o] /\ undone' = undone /\ failed' = failed
      BY <2>1, <2>3 DEF Return, TypeOK
    <3>2. ~BusyWith(a, o)' /\ ~BusyWith(a, o)
      BY <1>b, <2>1, <2>3 DEF Return, BusyWith
    <3> QED
      BY <1>a, <3>1, <3>2 DEF Touches, Untouched
  <2> QED
    BY <2>2, <2>3
<1>5. CASE (\E x \in Orders : ClerkOpen(a, x)) \/ ClerkCloses(a)
  <2>1. pc[a] \in {"idle", "form", "dialog"} /\ pc'[a] \in {"idle", "form"}
    BY <1>0, <1>5 DEF ClerkOpen, ClerkCloses, TypeOK
  <2> QED
    BY <1>a, <1>5, <2>1 DEF ClerkOpen, ClerkCloses, Touches, Untouched, BusyWith
<1>6. CASE ClerkConfirm(a)
  <2>1. ~BusyWith(a, o)
    BY <1>6 DEF ClerkConfirm, BusyWith
  <2> QED
    BY <1>a, <1>6, <2>1 DEF ClerkConfirm, Touches, Untouched
<1>7. CASE ClerkAnswers(a)
  <2>1. ~BusyWith(a, o) /\ ~BusyWith(a, o)'
    BY <1>b, <1>7 DEF ClerkAnswers, BusyWith
  <2> QED
    BY <1>a, <1>7, <2>1 DEF ClerkAnswers, Touches, Untouched
<1>8. CASE ClerkError(a) \/ ClerkConflict(a)
  <2>1. CASE job[a].order = o
    BY <1>8, <2>1 DEF ClerkError, ClerkConflict, Touches
  <2>2. CASE job[a].order # o
    <3>1. ~BusyWith(a, o) /\ ~BusyWith(a, o)'
      BY <1>b, <1>8, <2>2 DEF ClerkError, ClerkConflict, BusyWith
    <3>2. queue' = queue /\ failed' = failed /\ (o \in undone' <=> o \in undone)
      BY <1>8, <2>2 DEF ClerkError, ClerkConflict
    <3> QED
      BY <1>a, <3>1, <3>2 DEF Touches, Untouched
  <2> QED
    BY <2>1, <2>2
<1> QED
  BY <1>1, <1>2, <1>3, <1>4, <1>5, <1>6, <1>7, <1>8 DEF Work, Clerk

LEMMA AllTouch ==
  ASSUME TypeOK, Listing, Reporting, Seen, [Next]_vars, NEW o \in Orders
  PROVE  Touches(o)
<1> USE OrderAssumption
<1>1. ASSUME NEW p \in Pullers, Pull(p) PROVE Touches(o)
  <2>1. UNCHANGED <<queue, failed, undone>>
    BY <1>1
    DEF Pull, New, PullBegin, PullFetch, ProcessNew, ProcessUpdate, ProcessUnchanged,
        ProcessError, ProcessHalf, ProcessRejected, Process, PullCommit, PullConflict, PullRollback
  <2>2. \A a \in Reporters : BusyWith(a, o)' <=> BusyWith(a, o)
    BY <1>1, PullOthers, StillBusy DEF Reporters, Actors
  <2> QED
    BY <2>1, <2>2 DEF Touches, Untouched
<1>2. ASSUME NEW x \in Orders, User(x) PROVE Touches(o)
  <2>1. PICK r \in Row, k \in Kind : UserAct(x, r, k)
    BY <1>2, UserKinds
  <2>2. \A a \in Reporters : BusyWith(a, o)' <=> BusyWith(a, o)
    BY <1>2, UserOthers, StillBusy DEF Actors
  <2>3. CASE x = o
    <3>1. CASE queue' = [queue EXCEPT ![x][k] = @ + 1]
      <4>1. queue'[o][k] = queue[o][k] + 1 /\ queue[o][k] \in Nat
        BY <2>3, <3>1 DEF TypeOK
      <4> QED
        BY <4>1 DEF Touches
    <3>2. CASE failed' = failed \cup {x} /\ queue' = queue
      BY <2>1, <2>2, <2>3, <3>2 DEF UserAct, Touches, Untouched
    <3> QED
      BY <2>1, <3>1, <3>2 DEF UserAct
  <2>4. CASE x # o
    <3>1. queue'[o] = queue[o] /\ undone' = undone /\ (o \in failed' <=> o \in failed)
      BY <2>1, <2>4 DEF UserAct, TypeOK
    <3> QED
      BY <2>2, <3>1 DEF Touches, Untouched
  <2> QED
    BY <2>3, <2>4
<1>3. ASSUME NEW x \in Orders, NEW k \in Kind, JobSkip(x, k) PROVE Touches(o)
  <2>1. CASE x = o
    BY <1>3, <2>1 DEF JobSkip, Touches
  <2>2. CASE x # o
    <3>1. queue'[o] = queue[o]
      BY <1>3, <2>2 DEF JobSkip, Take, TypeOK
    <3>2. (o \in undone' <=> o \in undone) /\ (o \in failed' <=> o \in failed)
      BY <1>3, <2>2 DEF JobSkip
    <3> QED
      BY <1>3, <3>1, <3>2 DEF JobSkip, Touches, Untouched, BusyWith
  <2> QED
    BY <2>1, <2>2
<1>4. ASSUME UNCHANGED <<queue, pc, job, failed, undone>> PROVE Touches(o)
  BY <1>4 DEF Touches, Untouched, BusyWith
<1>5. ASSUME NEW x \in Orders, Cartona(x) PROVE Touches(o)
  BY <1>4, <1>5 DEF Cartona, CartonaPlaces, CartonaMoves
<1>6. CASE UserSwitches \/ UNCHANGED vars
  BY <1>4, <1>6 DEF UserSwitches
<1> QED
  BY <1>1, <1>2, <1>3, <1>5, <1>6, ReporterTouches DEF Next, Reporters

\* A report that becomes the last one, as far as it has not been overtaken,
\* was the last one already.
LEMMA AloneStep ==
  ASSUME TypeOK, Listing, Reporting, Seen, [Next]_vars,
         NEW a \in Reporters, NEW o \in Orders, pc[a] = "sent", job[a].order = o, Others(a),
         o \notin missed'[a], Alone(a, o)'
  PROVE  Alone(a, o)
<1>1. Touches(o)
  BY AllTouch
<1>2. CASE Untouched(o)
  BY <1>2 DEF Alone, Untouched
<1>3. ASSUME NEW b \in Reporters, NEW r \in Row, Reports(b, o, r) PROVE FALSE
  <2>1. \E x \in {"idle", "dialog"} : \E j : EndReport(b, x, j)
    BY <1>3 DEF Reports
  <2>2. pc'[b] \in {"idle", "dialog"}
    BY <2>1 DEF EndReport, TypeOK, Actors
  <2>3. a # b
    BY <2>2 DEF Others
  <2>4. Commit(b, {o})
    BY <1>3 DEF Reports, Record
  <2>5. o \in missed'[a]
    BY <2>3, <2>4, CommitMissed DEF Actors
  <2> QED
    BY <2>5
<1>4. ASSUME NEW b \in Reporters, ~BusyWith(b, o), BusyWith(b, o)' PROVE FALSE
  BY <1>4 DEF Alone, BusyWith
<1>5. Busy(o)
  BY DEF Busy
<1> QED
  BY <1>1, <1>2, <1>3, <1>4, <1>5 DEF Touches, Alone

\* An order comes to rest when its last report ends well.
LEMMA QuietStep ==
  ASSUME TypeOK, Listing, Reporting, Seen, [Next]_vars, NEW o \in Orders,
         ~Quiet(o), Quiet(o)'
  PROVE  \E a \in Reporters, r \in Row :
           Reports(a, o, r) /\ job[a].answer = "ok" /\ Alone(a, o)
<1>1. Touches(o)
  BY AllTouch
<1>2. ~(Untouched(o) /\ (o \in failed' <=> o \in failed))
  BY DEF Untouched, Quiet, Idle, Busy, BusyWith
<1>3. o \notin undone' /\ o \notin failed' /\ \A k \in Kind : queue'[o][k] = 0
  BY DEF Quiet, Idle
<1>4. \A a \in Reporters : ~BusyWith(a, o)'
  BY DEF Quiet, Idle, Busy, BusyWith
<1>5. PICK a \in Reporters, r \in Row : Reports(a, o, r)
  BY <1>1, <1>2, <1>3, <1>4 DEF Touches
<1>6. job[a].answer = "ok" /\ queue' = queue /\ undone' = undone
  BY <1>3, <1>5 DEF Reports, Record
<1>7. ASSUME NEW b \in Reporters \ {a} PROVE ~BusyWith(b, o)
  <2>1. pc'[b] = pc[b] /\ job'[b] = job[b]
    BY <1>5 DEF Reports, EndReport, TypeOK, Actors
  <2> QED
    BY <1>4, <2>1 DEF BusyWith
<1> QED
  BY <1>3, <1>5, <1>6, <1>7 DEF Alone

-----------------------------------------------------------------------------
(* The inductive invariant *)

\* Sale orders at rest fit Cartona.
RowFits == \A o \in Orders : Exists(o) /\ Quiet(o) => Agrees(row[o], remote[o])

\* The orders at rest that a pull has not missed fit what it got, and what it
\* has made of them fits Cartona.
PullFits ==
  \A p \in Pullers : \A o \in Orders :
    pc[p] = "processing" /\ got[p][o] # "none" /\ o \notin missed[p] /\ Quiet(o) =>
      /\ remote[o] \in Later(got[p][o])
      /\ Exists(o) => Agrees(row[o], got[p][o])
      /\ o \in wrote[p] \cup new[p] => Agrees(view[p][o], remote[o])

\* The last report of an order, if it has not been overtaken, is what Cartona
\* knows.
ReportFits ==
  \A a \in Reporters : \A o \in Orders :
    (/\ pc[a] = "sent" /\ job[a].answer = "ok" /\ job[a].order = o
     /\ o \notin missed[a] /\ Alone(a, o)) =>
      \A s \in Status : s = Reported(a) => remote[o] \in Later(s)

\* Nobody misses an order that is not there.
MissedExist == \A a \in Actors : \A o \in Orders : o \in missed[a] => Exists(o)

AInv == DInv /\ MissedExist /\ RowFits /\ PullFits /\ ReportFits

LEMMA MissedStep ==
  ASSUME DInv, MissedExist, [Next]_vars
  PROVE  MissedExist'
<1> USE OrderAssumption
<1>0. /\ TypeOK /\ Listing /\ Reporting /\ Seen
      /\ \A o \in Orders : Exists(o) => Exists(o)'
  BY Stays DEF DInv, IInv
<1>1. ASSUME NEW b, NEW rows, Commit(b, rows), \A o \in Orders : o \in rows => Exists(o)'
      PROVE  MissedExist'
  <2> SUFFICES ASSUME NEW a \in Actors, NEW o \in Orders, o \in missed'[a] PROVE Exists(o)'
    BY DEF MissedExist, Exists
  <2>1. o \in missed[a] \/ o \in rows
    BY <1>1 DEF Commit
  <2> QED
    BY <1>0, <1>1, <2>1 DEF MissedExist
<1>2. CASE missed' = missed
  BY <1>0, <1>2 DEF MissedExist, Exists
<1>3. ASSUME NEW p \in Pullers, Pull(p) PROVE MissedExist'
  <2>1. CASE PullCommit(p)
    <3>1. \A o \in Orders : o \in Claimed(p) \cup new[p] => Exists(o)'
      BY <1>0, <2>1 DEF PullCommit, Claimed, Listing, Exists
    <3> QED
      BY <1>1, <2>1, <3>1 DEF PullCommit
  <2>2. CASE PullConflict(p) \/ PullRollback(p)
    <3>1. Commit(p, {})
      BY <2>2 DEF PullConflict, PullRollback
    <3> QED
      BY <1>1, <3>1
  <2>3. CASE ~PullCommit(p) /\ ~PullConflict(p) /\ ~PullRollback(p)
    BY <1>2, <1>3, <2>3
    DEF Pull, New, PullBegin, PullFetch, ProcessNew, ProcessUpdate, ProcessUnchanged,
        ProcessError, ProcessHalf, ProcessRejected, Process
  <2> QED
    BY <2>1, <2>2, <2>3
<1>4. ASSUME NEW a \in Reporters, NEW r, pc[a] # "idle", Record(a, r) PROVE MissedExist'
  <2> PICK o \in Orders : o = job[a].order /\ Exists(o)
    BY <1>0, <1>4 DEF Reporting
  <2>1. Commit(a, {o})
    BY <1>4 DEF Record
  <2> QED
    BY <1>0, <1>1, <2>1
<1>5. ASSUME NEW w \in Workers, Work(w) PROVE MissedExist'
  <2>1. CASE JobCommit(w)
    BY <1>4, <2>1 DEF JobCommit, Current, Reporters
  <2>2. CASE JobConflict(w) \/ JobCrash(w)
    BY <1>1, <2>2 DEF JobConflict, JobCrash, Return
  <2>3. CASE Send(w) \/ \E o \in Orders, k \in Kind : JobBegin(w, o, k)
    BY <1>2, <2>3 DEF Send, JobBegin
  <2> QED
    BY <1>5, <2>1, <2>2, <2>3 DEF Work
<1>6. ASSUME NEW c \in Clerks, Clerk(c) PROVE MissedExist'
  <2>1. CASE ClerkBlocked(c) \/ ClerkValidated(c) \/ ClerkAsked(c)
    BY <1>4, <2>1 DEF ClerkBlocked, ClerkValidated, ClerkAsked, Current, Reporters
  <2>2. CASE ClerkAnswers(c)
    <3> PICK o \in Orders : o = job[c].order /\ Exists(o)
      BY <1>0, <2>2 DEF Reporting, Reporters, ClerkAnswers
    <3> QED
      BY <1>0, <1>1, <2>2 DEF ClerkAnswers
  <2>3. CASE ClerkError(c) \/ ClerkConflict(c)
    BY <1>1, <2>3 DEF ClerkError, ClerkConflict
  <2>4. CASE (\E o \in Orders : ClerkOpen(c, o)) \/ ClerkConfirm(c) \/ Send(c) \/ ClerkCloses(c)
    BY <1>2, <2>4 DEF ClerkOpen, ClerkConfirm, Send, ClerkCloses
  <2> QED
    BY <1>6, <2>1, <2>2, <2>3, <2>4 DEF Clerk
<1>7. ASSUME NEW x \in Orders, User(x) PROVE MissedExist'
  <2> PICK r \in Row, k \in Kind : UserAct(x, r, k) /\ Exists(x)
    BY <1>0, <1>7, UserKinds
  <2> QED
    BY <1>0, <1>1 DEF UserAct
<1>8. CASE UserSwitches
  BY <1>1, <1>8 DEF UserSwitches
<1>9. ASSUME NEW x \in Orders, Cartona(x) \/ \E k \in Kind : JobSkip(x, k) PROVE MissedExist'
  BY <1>2, <1>9 DEF Cartona, CartonaPlaces, CartonaMoves, JobSkip
<1>10. CASE UNCHANGED vars
  BY <1>2, <1>10
<1> QED
  BY <1>3, <1>5, <1>6, <1>7, <1>8, <1>9, <1>10 DEF Next

\* What Cartona says of an order changes by reports and by its own rules.
LEMMA RemoteStep ==
  ASSUME TypeOK, Listing, Reporting, Seen, [Next]_vars, NEW o \in Orders,
         NEW s \in Status, remote[o] \in Later(s),
         \A a \in Reporters : job[a].order = o => ~Send(a)
  PROVE  remote'[o] \in Later(s)
<1>0. remote[o] # "none"
  BY DEF Later, Status, Cancelled
<1>1. ASSUME NEW x \in Orders, NEW t \in Status, CartonaMoves(x, t) PROVE remote'[o] \in Later(s)
  <2>1. CASE x = o
    <3>1. <<remote[o], t>> \in {<<"pending", "approved">>, <<"approved", "delivered">>,
                                <<"pending", "cancelled_by_retailer">>,
                                <<"approved", "cancelled_by_retailer">>}
      BY <1>1, <2>1 DEF CartonaMoves
    <3>2. remote'[o] = t
      BY <1>1, <2>1 DEF CartonaMoves, TypeOK
    <3> QED
      BY <3>1, <3>2 DEF Later, Status, Cancelled
  <2>2. CASE x # o
    BY <1>1, <2>2 DEF CartonaMoves, TypeOK
  <2> QED
    BY <2>1, <2>2
<1>2. ASSUME NEW x \in Orders, CartonaPlaces(x) PROVE remote'[o] = remote[o]
  BY <1>0, <1>2 DEF CartonaPlaces, TypeOK
<1>3. ASSUME NEW a \in Reporters, Send(a) PROVE remote'[o] = remote[o]
  <2>1. PICK x \in Orders : x = job[a].order
    BY <1>3 DEF Reporting, Send
  <2>2. x # o
    BY <1>3, <2>1
  <2> QED
    BY <1>3, <2>1, <2>2 DEF Send, TypeOK
<1>4. ASSUME NEW p \in Pullers, Pull(p) PROVE remote' = remote
  BY <1>4
  DEF Pull, New, PullBegin, PullFetch, ProcessNew, ProcessUpdate, ProcessUnchanged,
      ProcessError, ProcessHalf, ProcessRejected, Process, PullCommit, PullConflict, PullRollback
<1>5. ASSUME NEW a \in Reporters, Work(a) \/ Clerk(a), ~Send(a) PROVE remote' = remote
  BY <1>5
  DEF Work, JobBegin, JobCommit, JobConflict, JobCrash, Return, Record, Clerk, ClerkOpen,
      ClerkConfirm, ClerkBlocked, ClerkValidated, ClerkAsked, ClerkAnswers, ClerkError,
      ClerkConflict, ClerkCloses
<1>6. ASSUME NEW x \in Orders, User(x) \/ \E k \in Kind : JobSkip(x, k) PROVE remote' = remote
  BY <1>6
  DEF User, UserConfirm, UserCancel, UserDraft, UserDeliver, UserSync, UserAct, JobSkip
<1>7. UserSwitches \/ UNCHANGED vars => remote' = remote
  BY DEF UserSwitches
<1> QED
  BY <1>1, <1>2, <1>3, <1>4, <1>5, <1>6, <1>7 DEF Next, Cartona, Reporters

\* An order at rest is not being reported.
LEMMA QuietRemote ==
  ASSUME TypeOK, Listing, Reporting, Seen, [Next]_vars, NEW o \in Orders, Quiet(o),
         NEW s \in Status, remote[o] \in Later(s)
  PROVE  remote'[o] \in Later(s)
<1>1. ASSUME NEW a \in Reporters, job[a].order = o, Send(a) PROVE FALSE
  BY <1>1 DEF Quiet, Idle, Busy, Send
<1> QED
  BY <1>1, RemoteStep

LEMMA QuietAgrees ==
  ASSUME TypeOK, Listing, Reporting, Seen, [Next]_vars, NEW o \in Orders, Quiet(o),
         NEW r \in Row, Agrees(r, remote[o]), r.state # "none"
  PROVE  Agrees(r, remote'[o])
<1>1. CASE r.state = "draft"
  <2>1. CASE r.cartonaStatus = "pending" /\ remote[o] \in Later("pending")
    <3>1. remote'[o] \in Later("pending")
      BY <2>1, QuietRemote DEF Status
    <3> QED
      BY <1>1, <2>1, <3>1 DEF Agrees, Fits, Expected, ToOdoo, Cancelled
  <2>2. CASE r.done /\ r.cartonaStatus = "delivered" /\ remote[o] = "delivered"
    <3>1. remote[o] \in Later("delivered")
      BY <2>2 DEF Later, Cancelled
    <3>2. remote'[o] \in Later("delivered")
      BY <3>1, QuietRemote DEF Status
    <3>3. remote'[o] = "delivered"
      BY <3>2 DEF Later, Cancelled
    <3> QED
      BY <1>1, <2>2, <3>3 DEF Agrees
  <2> QED
    BY <1>1, <2>1, <2>2 DEF Agrees
<1>3. CASE r.state = "sale"
  <2>1. Fits(r) /\ remote[o] \in Later("approved")
    BY <1>3 DEF Agrees, Expected
  <2>2. remote'[o] \in Later("approved")
    BY <2>1, QuietRemote DEF Status
  <2> QED
    BY <1>3, <2>1, <2>2 DEF Agrees, Expected
<1>2. CASE r.state = "cancel"
  <2>1. CASE r.done
    BY <1>2, <2>1 DEF Agrees
  <2>2. CASE ~r.done
    <3>1. remote[o] \in Cancelled
      BY <1>2, <2>2 DEF Agrees, Expected
    <3>2. remote[o] \in Later(remote[o]) /\ remote[o] \in Status
      BY <3>1 DEF Later, Status, Cancelled
    <3>3. remote'[o] \in Later(remote[o])
      BY <3>2, QuietRemote
    <3>4. remote'[o] = remote[o]
      BY <3>1, <3>3 DEF Later, Cancelled
    <3> QED
      BY <3>4
  <2> QED
    BY <2>1, <2>2
<1> QED
  BY <1>1, <1>2, <1>3 DEF Row

LEMMA RowFitsStep ==
  ASSUME AInv, [Next]_vars
  PROVE  RowFits'
<1> USE OrderAssumption
<1>0. /\ TypeOK /\ Listing /\ Reporting /\ Fresh /\ Seen /\ Validated
      /\ RowFits /\ PullFits /\ ReportFits
  BY DEF AInv, DInv, IInv
<1> SUFFICES ASSUME NEW o \in Orders, Exists(o)', Quiet(o)'
             PROVE  Agrees(row'[o], remote'[o])
  BY DEF RowFits, Agrees
<1>1. CASE ~Quiet(o)
  <2> PICK a \in Reporters, r \in Row : Reports(a, o, r) /\ job[a].answer = "ok" /\ Alone(a, o)
    BY <1>0, <1>1, QuietStep
  <2>1. /\ pc[a] = "sent" /\ job[a].order = o /\ o \notin missed[a]
        /\ remote' = remote /\ row' = [row EXCEPT ![o] = r]
    BY DEF Reports, Record, Current, Reads
  <2>2. \A s \in Status : s = Reported(a) => remote[o] \in Later(s)
    BY <1>0, <2>1 DEF ReportFits
  <2>3. view[a][o] = row[o] /\ view[a][o] \in Row
    <3>1. a \in Actors /\ new[a] = {} /\ wrote[a] = {}
      BY <1>0 DEF Seen, Actors
    <3>2. view[a][o] = row[o]
      BY <1>0, <2>1, <3>1 DEF Seen
    <3> QED
      BY <1>0, <3>1, <3>2 DEF TypeOK
  <2>4. r.state = row[o].state /\ row[o].state # "none" /\ (row[o].done => r.done)
    BY <1>0, <2>1 DEF Reports, Reporting, Exists
  <2>5. r.cartonaStatus = Reported(a) /\ remote[o] \in Later(r.cartonaStatus)
    <3>1. Reported(a) \in Status
      BY <1>0, <2>1, <2>3, <2>4, ReportTypes
    <3>2. Recorded(a).cartonaStatus = Reported(a)
      BY <2>1, <2>3, <3>1 DEF Recorded, Row
    <3>3. r.cartonaStatus = Reported(a)
      BY <3>2 DEF Reports
    <3> QED
      BY <2>2, <3>1, <3>3
  <2>6. \/ r.cartonaStatus = ToCartona(r.state)
        \/ (r.done \/ r.state = "sale") /\ r.cartonaStatus = "delivered"
    <3>1. CASE job[a].kind # "delivered"
      BY <2>1, <2>3, <2>4, <2>5, <3>1 DEF Reported
    <3>2. CASE job[a].kind = "delivered" /\ a \in Workers
      BY <1>0, <2>1, <2>4, <2>5, <3>2 DEF Reported, Validated
    <3>3. CASE job[a].kind = "delivered" /\ a \in Clerks
      <4>1. Confirmed(a)
        BY <2>1, <2>3 DEF Confirmed, Recorded, Row
      <4>2. row[o].state = "sale"
        BY <3>3, <4>1 DEF Reports
      <4> QED
        BY <2>4, <2>5, <3>3, <4>2 DEF Reported
    <3> QED
      BY <3>1, <3>2, <3>3 DEF Reporters
  <2>7. Agrees(r, remote[o])
    BY <2>4, <2>5, <2>6, ReportAgrees
  <2> QED
    BY <1>0, <2>1, <2>7 DEF TypeOK
<1>2. ASSUME Quiet(o), Agrees(row'[o], remote[o]) PROVE Agrees(row'[o], remote'[o])
  <2>1. row'[o] \in Row /\ row'[o].state # "none"
    BY <1>0, TypeStep DEF TypeOK, Exists
  <2>2. PICK r \in Row : r = row'[o]
    BY <2>1
  <2> QED
    BY <1>0, <1>2, <2>1, <2>2, QuietAgrees
<1>3. CASE Quiet(o)
  <2>1. CASE row'[o] = row[o]
    <3>1. Exists(o)
      BY <2>1 DEF Exists
    <3> QED
      BY <1>0, <1>2, <1>3, <2>1, <3>1 DEF RowFits
  <2>2. ASSUME NEW p \in Pullers, PullCommit(p), o \in wrote[p] \cup new[p]
        PROVE  Agrees(row'[o], remote[o])
    <3>1. row'[o] = view[p][o] /\ pc[p] = "processing"
      BY <2>2 DEF PullCommit
    <3>2. got[p][o] # "none"
      BY <1>0, <2>2 DEF Listing
    <3>3. o \notin missed[p]
      <4>1. CASE o \in wrote[p]
        BY <2>2, <4>1 DEF PullCommit, Claimed
      <4>2. CASE o \in new[p]
        <5>1. Config \notin missed[p]
          BY <2>2, <3>2 DEF PullCommit, Claimed
        <5>2. ~Exists(o)
          BY <1>0, <3>1, <4>2, <5>1 DEF Fresh
        <5> QED
          BY <5>2 DEF AInv, MissedExist, Actors
      <4> QED
        BY <2>2, <4>1, <4>2
    <3> QED
      BY <1>0, <1>3, <2>2, <3>1, <3>2, <3>3 DEF PullFits
  <2>3. ASSUME NEW a \in Reporters, NEW x \in Orders, NEW r \in Row, Reports(a, x, r)
        PROVE  row'[o] = row[o]
    <3>1. x # o
      BY <1>3, <2>3 DEF Reports, Current, Quiet, Idle, Busy
    <3> QED
      BY <2>3, <3>1 DEF Reports, Record
  <2>4. ASSUME NEW x \in Orders, row[x].state = "sale",
               row' = [row EXCEPT ![x] = [row[x] EXCEPT !.done = TRUE]], UNCHANGED remote
        PROVE  Agrees(row'[o], remote[o])
    <3>1. CASE x # o
      BY <1>0, <1>3, <2>4, <3>1 DEF RowFits, Exists
    <3>2. CASE x = o
      <4>1. row[o] \in Row /\ Exists(o)
        BY <1>0, <2>4, <3>2 DEF TypeOK, Exists
      <4>2. /\ row'[o].state = row[o].state
            /\ row'[o].cartonaStatus = row[o].cartonaStatus
        BY <1>0, <2>4, <3>2, <4>1 DEF TypeOK, Row
      <4>3. Agrees(row[o], remote[o])
        BY <1>0, <1>3, <4>1 DEF RowFits
      <4> QED
        BY <2>4, <3>2, <4>2, <4>3 DEF Agrees, Fits
    <3> QED
      BY <3>1, <3>2
  <2>5. ASSUME NEW x \in Orders, User(x) PROVE row'[o] = row[o]
    <3>1. PICK r \in Row, k \in Kind : UserAct(x, r, k)
      BY <1>0, <2>5, UserKinds
    <3>2. x # o
      <4>1. queue[x][k] \in Nat
        BY <1>0 DEF TypeOK
      <4>2. queue'[x][k] = queue[x][k] + 1 \/ x \in failed'
        BY <1>0, <3>1 DEF UserAct, TypeOK
      <4> QED
        BY <4>1, <4>2 DEF Quiet, Idle
    <3> QED
      BY <3>1, <3>2 DEF UserAct
  <2>6. CASE UNCHANGED row
    BY <2>1, <2>6
  <2>7. ASSUME NEW p \in Pullers, PullCommit(p), o \notin wrote[p] \cup new[p]
        PROVE  row'[o] = row[o]
    BY <2>7 DEF PullCommit
  <2> QED
    BY <1>0, <1>2, <1>3, <2>1, <2>2, <2>3, <2>4, <2>5, <2>6, <2>7, Kinds
<1> QED
  BY <1>1, <1>3

LEMMA ReportFitsStep ==
  ASSUME AInv, [Next]_vars
  PROVE  ReportFits'
<1> USE OrderAssumption
<1>0. TypeOK /\ Listing /\ Reporting /\ Seen /\ ReportFits
  BY DEF AInv, DInv, IInv
<1> SUFFICES ASSUME NEW a \in Reporters, NEW o \in Orders,
                    pc'[a] = "sent", job'[a].answer = "ok", job'[a].order = o,
                    o \notin missed'[a], Alone(a, o)',
                    NEW s \in Status, s = Reported(a)'
             PROVE  remote'[o] \in Later(s)
  BY DEF ReportFits
<1>1. a \in Actors /\ a \notin Pullers
  BY DEF Actors, Reporters
<1>2. CASE Others(a)
  <2>1. /\ pc[a] = "sent" /\ job'[a] = job[a] /\ view'[a] = view[a]
        /\ o \notin missed[a]
    BY <1>1, <1>2 DEF Others
  <2>2. Alone(a, o)
    BY <1>0, <1>2, <2>1, AloneStep
  <2>3. Reported(a)' = Reported(a)
    <3>1. /\ job'[a].kind = job[a].kind
          /\ view'[a][job'[a].order].state = view[a][job[a].order].state
      BY <2>1
    <3> QED
      BY <3>1 DEF Reported, ToCartona
  <2>4. remote[o] \in Later(s)
    BY <1>0, <2>1, <2>2, <2>3 DEF ReportFits
  <2>5. ASSUME NEW b \in Reporters, job[b].order = o, Send(b) PROVE FALSE
    BY <2>1, <2>2, <2>5 DEF Alone, BusyWith, Send
  <2> QED
    BY <1>0, <2>4, <2>5, RemoteStep
<1>3. CASE Send(a)
  <2>1. PICK x \in {"ok", "error"} : job' = [job EXCEPT ![a].answer = x]
    BY <1>3 DEF Send
  <2>2. job'[a].order = job[a].order /\ job'[a].kind = job[a].kind /\ job'[a].answer = x
    BY <1>0, <2>1 DEF TypeOK, Report
  <2>3. remote' = [remote EXCEPT ![o] = Reported(a)]
    <3>1. [job EXCEPT ![a].answer = "error"][a].answer = "error"
      BY <1>0 DEF TypeOK, Report
    <3> QED
      BY <1>3, <2>2, <3>1 DEF Send
  <2>4. Reported(a)' = Reported(a)
    BY <1>3, <2>2 DEF Reported, ToCartona, Send
  <2>5. Reported(a) \in Status
    BY <1>0, <1>3, <2>2, ReportTypes DEF Reporting, Send
  <2> QED
    BY <1>0, <2>3, <2>4, <2>5 DEF TypeOK, Later, Status, Cancelled
<1>4. ASSUME NEW x \in Orders, NEW k \in Kind, JobBegin(a, x, k) PROVE FALSE
  BY <1>0, <1>1, <1>4 DEF JobBegin, TypeOK
<1>5. ASSUME NEW x \in {"idle", "form", "dialog"}, NEW j, EndReport(a, x, j) PROVE FALSE
  BY <1>0, <1>1, <1>5 DEF EndReport, TypeOK
<1>6. ~JobCommit(a) /\ ~JobConflict(a) /\ ~JobCrash(a)
  BY <1>5 DEF JobCommit, JobConflict, JobCrash, Return
<1>7. ASSUME ClerkConfirm(a) PROVE FALSE
  <2>1. pc'[a] = "open" \/ job' = [job EXCEPT ![a].answer = "skipped"]
    BY <1>0, <1>1, <1>7 DEF ClerkConfirm, TypeOK
  <2>2. [job EXCEPT ![a].answer = "skipped"][a].answer = "skipped"
    BY <1>0 DEF TypeOK, Report
  <2> QED
    BY <2>1, <2>2
<1>8. ASSUME (\E x \in Orders : ClerkOpen(a, x)) \/ ClerkCloses(a) PROVE FALSE
  BY <1>0, <1>1, <1>8 DEF ClerkOpen, ClerkCloses, TypeOK
<1>9. /\ ~ClerkBlocked(a) /\ ~ClerkValidated(a) /\ ~ClerkAsked(a) /\ ~ClerkAnswers(a)
      /\ ~ClerkError(a) /\ ~ClerkConflict(a)
  BY <1>5
  DEF ClerkBlocked, ClerkValidated, ClerkAsked, ClerkAnswers, ClerkError, ClerkConflict
<1> QED
  BY <1>0, <1>1, <1>2, <1>3, <1>4, <1>6, <1>7, <1>8, <1>9, OwnOrOthers DEF Own, Work, Clerk

LEMMA PullFitsStep ==
  ASSUME AInv, [Next]_vars
  PROVE  PullFits'
<1> USE OrderAssumption
<1>0. /\ TypeOK /\ Listing /\ Reporting /\ Fresh /\ Seen /\ RowFits /\ PullFits
      /\ MissedExist
  BY DEF AInv, DInv, IInv
<1> DEFINE F(p, o) ==
      /\ remote[o] \in Later(got[p][o])
      /\ Exists(o) => Agrees(row[o], got[p][o])
      /\ o \in wrote[p] \cup new[p] => Agrees(view[p][o], remote[o])
<1> SUFFICES ASSUME NEW p \in Pullers, NEW o \in Orders,
                    pc'[p] = "processing", got'[p][o] # "none", o \notin missed'[p], Quiet(o)'
             PROVE  F(p, o)'
  BY DEF PullFits
<1>1. p \in Actors /\ p \notin Reporters
  BY DEF Actors, Reporters
<1>2. CASE Others(p)
  <2>1. /\ pc[p] = "processing" /\ o \notin missed[p] /\ row'[o] = row[o]
        /\ got'[p] = got[p] /\ wrote'[p] = wrote[p] /\ new'[p] = new[p] /\ view'[p] = view[p]
    BY <1>2 DEF Others
  <2>2. Quiet(o)
    <3> SUFFICES ASSUME ~Quiet(o) PROVE FALSE
      OBVIOUS
    <3> PICK a \in Reporters, r \in Row : Reports(a, o, r)
      BY <1>0, QuietStep
    <3>1. Commit(a, {o}) /\ a # p
      BY <1>1 DEF Reports, Record
    <3>2. o \in missed'[p]
      BY <1>0, <1>1, <2>1, <3>1, CommitMissed
    <3> QED
      BY <3>2
  <2>3. F(p, o)
    BY <1>2, <2>1, <2>2, <1>0 DEF PullFits
  <2>4. got[p][o] \in Status
    BY <1>0, <2>1 DEF TypeOK
  <2>5. remote'[o] \in Later(got[p][o])
    BY <1>0, <2>2, <2>3, <2>4, QuietRemote
  <2>6. o \in wrote[p] \cup new[p] => Agrees(view[p][o], remote'[o])
    <3>1. view[p][o] \in Row /\ (o \in wrote[p] \cup new[p] => view[p][o].state # "none")
      BY <1>0, <1>1 DEF TypeOK, Listing
    <3>2. PICK r \in Row : r = view[p][o]
      BY <3>1
    <3> QED
      BY <1>0, <2>2, <2>3, <3>1, <3>2, QuietAgrees
  <2> QED
    BY <2>1, <2>3, <2>5, <2>6 DEF Exists
<1>3. CASE PullFetch(p)
  <2>1. /\ got'[p][o] = remote[o] /\ UNCHANGED <<row, remote, queue, failed, undone, job>>
        /\ wrote'[p] = {} /\ new'[p] = {}
    BY <1>0, <1>3 DEF PullFetch, TypeOK, Listing, Listed
  <2>2. \A a \in Reporters : pc'[a] = pc[a]
    BY <1>0, <1>1, <1>3 DEF PullFetch, TypeOK
  <2>3. Quiet(o)
    BY <2>1, <2>2 DEF Quiet, Idle, Busy
  <2>4. remote[o] \in Later(remote[o])
    BY DEF Later
  <2>5. Exists(o) => Agrees(row[o], remote[o])
    BY <1>0, <2>3 DEF RowFits
  <2> QED
    BY <2>1, <2>4, <2>5 DEF Agrees, Exists
<1>4. ASSUME NEW x \in Orders, Process(p, x)
      PROVE  /\ F(p, o) /\ o \notin missed[p] /\ got[p][o] \in Status
             /\ UNCHANGED <<row, remote, got>>
             /\ x \notin wrote[p] \cup new[p]
             /\ x \notin missed[p] => view[p][x] = row[x]
             /\ view[p][x] \in Row /\ Quiet(o)
  <2>1. UNCHANGED <<row, remote, got, missed, queue, pc, failed, undone>> /\ pc[p] = "processing"
    BY <1>4 DEF Process
  <2>2. Quiet(o)
    BY <1>4 DEF Process, Quiet, Idle, Busy
  <2>3. o \notin missed[p] /\ got[p][o] # "none" /\ got[p][o] \in Status
    BY <1>0, <2>1 DEF TypeOK
  <2>4. F(p, o)
    BY <1>0, <2>1, <2>2, <2>3 DEF PullFits
  <2>5. x \notin wrote[p] \cup new[p] /\ view[p][x] \in Row
    BY <1>0, <1>1, <1>4 DEF Process, Listing, TypeOK
  <2>6. x \notin missed[p] => view[p][x] = row[x]
    BY <1>0, <1>1, <2>1, <2>5 DEF Seen
  <2> QED
    BY <2>1, <2>2, <2>3, <2>4, <2>5, <2>6
<1>5. ASSUME NEW x \in Orders, Process(p, x), NEW v \in Row,
             view' = [view EXCEPT ![p][x] = v],
             x = o => Agrees(v, remote[o]),
             wrote'[p] \cup new'[p] \subseteq wrote[p] \cup new[p] \cup {x}
      PROVE  F(p, o)'
  <2>0. /\ F(p, o) /\ UNCHANGED <<row, remote, got>>
    BY <1>4, <1>5
  <2>1. CASE x = o
    <3>1. view'[p][o] = v
      BY <1>0, <1>1, <1>5, <2>1 DEF TypeOK
    <3> QED
      BY <1>5, <2>0, <2>1, <3>1 DEF Exists
  <2>2. CASE x # o
    <3>1. view'[p][o] = view[p][o] /\ (o \in wrote'[p] \cup new'[p] => o \in wrote[p] \cup new[p])
      BY <1>0, <1>1, <1>5, <2>2 DEF TypeOK
    <3> QED
      BY <2>0, <3>1 DEF Exists
  <2> QED
    BY <2>1, <2>2
<1>6. ASSUME NEW x \in Orders, NEW stock \in BOOLEAN, NEW otp \in Payments,
             ProcessNew(p, x, stock, otp)
      PROVE  F(p, o)'
  <2>1. Process(p, x) /\ view' = [view EXCEPT ![p][x] = Created(got[p][x], stock, otp)]
    BY <1>6 DEF ProcessNew
  <2>2. got[p][x] \in Status
    BY <1>0, <2>1 DEF Process, Listing, TypeOK
  <2>3. otp \in {"free", "asked"}
    OBVIOUS
  <2>4. Created(got[p][x], stock, otp) \in Row
    <3>1. NoRow \in Row
      BY DEF NoRow, Row
    <3> QED
      BY <2>2, <2>3, <3>1, RowTypes
  <2>5. ASSUME x = o PROVE Agrees(Created(got[p][x], stock, otp), remote[o])
    <3>1. remote[o] \in Later(got[p][x])
      BY <1>4, <2>1, <2>5
    <3> QED
      BY <2>2, <2>3, <3>1, CreatedAgrees
  <2>6. wrote'[p] \cup new'[p] \subseteq wrote[p] \cup new[p] \cup {x}
    BY <1>0, <1>1, <1>6 DEF ProcessNew, TypeOK
  <2> QED
    BY <1>5, <2>1, <2>4, <2>5, <2>6
<1>7. ASSUME NEW x \in Orders, NEW stock \in BOOLEAN, ProcessUpdate(p, x, stock)
      PROVE  F(p, o)'
  <2>1. /\ Process(p, x) /\ view' = [view EXCEPT ![p][x] = Updated(view[p][x], got[p][x], stock)]
        /\ view[p][x].state # "none" /\ ~Blocked(view[p][x], got[p][x])
    BY <1>7 DEF ProcessUpdate
  <2>2. got[p][x] \in Status /\ view[p][x] \in Row
    BY <1>0, <1>1, <2>1 DEF Process, Listing, TypeOK
  <2>3. Updated(view[p][x], got[p][x], stock) \in Row
    BY <2>2, RowTypes
  <2>4. ASSUME x = o PROVE Agrees(Updated(view[p][x], got[p][x], stock), remote[o])
    <3>1. F(p, o) /\ view[p][o] = row[o]
      BY <1>4, <2>1, <2>4
    <3>2. remote[o] \in Later(got[p][o])
      BY <3>1
    <3>3. Exists(o)
      BY <2>1, <2>4, <3>1 DEF Exists
    <3>4. Agrees(view[p][o], got[p][o])
      BY <3>1, <3>3 DEF Agrees
    <3> PICK r \in Row, g \in Status : r = view[p][o] /\ g = got[p][o]
      BY <2>2, <2>4
    <3> QED
      BY <2>1, <2>4, <3>2, <3>4, UpdatedAgrees
  <2>5. wrote'[p] \cup new'[p] \subseteq wrote[p] \cup new[p] \cup {x}
    BY <1>0, <1>1, <1>7 DEF ProcessUpdate, TypeOK
  <2> QED
    BY <1>5, <2>1, <2>3, <2>4, <2>5
<1>8. ASSUME NEW x \in Orders, ProcessError(p, x) PROVE F(p, o)'
  <2>1. Process(p, x) /\ view[p][x].state # "none" /\ view[p][x] \in Row
    BY <1>0, <1>1, <1>8 DEF ProcessError, TypeOK
  <2>2. PICK v \in Row :
          /\ view' = [view EXCEPT ![p][x] = v]
          /\ v.cartonaStatus = view[p][x].cartonaStatus /\ v.done = view[p][x].done
          /\ \/ v.state = view[p][x].state
             \/ /\ view[p][x].state = "draft" /\ v.state = "sale"
                /\ NeedsTransition(view[p][x], got[p][x]) /\ ToOdoo(got[p][x]) = "sale"
    BY <1>0, <1>8, ErrorRow
  <2>4. ASSUME x = o PROVE Agrees(v, remote[o])
    <3>1. view[p][o] = row[o] /\ Quiet(o) /\ F(p, o)
      BY <1>4, <2>1, <2>4
    <3>2. Exists(o)
      BY <2>1, <2>4, <3>1 DEF Exists
    <3>3. CASE v.state = view[p][x].state
      <4>1. Agrees(row[o], remote[o])
        BY <1>0, <3>1, <3>2 DEF RowFits
      <4> QED
        BY <2>2, <2>4, <3>1, <3>3, <4>1 DEF Agrees, Fits
    <3>4. CASE /\ view[p][x].state = "draft" /\ v.state = "sale"
               /\ NeedsTransition(view[p][x], got[p][x]) /\ ToOdoo(got[p][x]) = "sale"
      <4>1. PICK g \in Status : g = got[p][o]
        BY <1>4, <2>1
      <4>2. Agrees(view[p][o], g) /\ remote[o] \in Later(g)
        BY <3>1, <3>2, <4>1
      <4>3. view[p][o].cartonaStatus = "pending"
        BY <2>4, <3>4, <4>1, <4>2 DEF Agrees, NeedsTransition, Cancelled
      <4> QED
        BY <2>2, <2>4, <3>4, <4>1, <4>2, <4>3, ConfirmedAgrees
    <3> QED
      BY <2>2, <3>3, <3>4
  <2>5. wrote'[p] \cup new'[p] \subseteq wrote[p] \cup new[p] \cup {x}
    BY <1>0, <1>1, <1>8 DEF ProcessError, TypeOK
  <2> QED
    BY <1>5, <2>1, <2>2, <2>4, <2>5
<1>12. ASSUME NEW x \in Orders, NEW otp \in Payments, ProcessHalf(p, x, otp) PROVE F(p, o)'
  <2>1. Process(p, x)
    BY <1>12 DEF ProcessHalf
  <2>2. PICK v \in Row :
          /\ view' = [view EXCEPT ![p][x] = v]
          /\ v.state = "sale" /\ v.cartonaStatus = got[p][x] /\ ToOdoo(got[p][x]) = "sale"
    BY <1>0, <1>12, HalfRow
  <2>3. ASSUME x = o PROVE Agrees(v, remote[o])
    <3>1. PICK g \in Status : g = got[p][o] /\ remote[o] \in Later(g)
      BY <1>4, <2>1, <2>3
    <3> QED
      BY <2>2, <2>3, <3>1, ConfirmedAgrees
  <2>4. wrote'[p] \cup new'[p] \subseteq wrote[p] \cup new[p] \cup {x}
    BY <1>0, <1>1, <1>12 DEF ProcessHalf, TypeOK
  <2> QED
    BY <1>5, <2>1, <2>2, <2>3, <2>4
<1>9. ASSUME NEW x \in Orders, ProcessUnchanged(p, x) \/ ProcessRejected(p, x) PROVE F(p, o)'
  <2>1. Process(p, x) /\ UNCHANGED <<view, wrote, new>>
    BY <1>9 DEF ProcessUnchanged, ProcessRejected
  <2>2. F(p, o) /\ UNCHANGED <<row, remote, got>>
    BY <1>4, <2>1
  <2> QED
    BY <2>1, <2>2 DEF Exists
<1>10. ~PullBegin(p)
  BY <1>0, <1>1 DEF PullBegin, TypeOK
<1>11. ~PullCommit(p) /\ ~PullConflict(p) /\ ~PullRollback(p)
  <2>1. ~EndPull(p)
    BY <1>0, <1>1 DEF EndPull, TypeOK
  <2> QED
    BY <2>1 DEF PullCommit, PullConflict, PullRollback
<1> QED
  BY <1>0, <1>1, <1>2, <1>3, <1>6, <1>7, <1>8, <1>9, <1>10, <1>11, <1>12, OwnOrOthers
  DEF Own, Pull, New

LEMMA AInvInit == Init => AInv
<1> SUFFICES ASSUME Init PROVE AInv
  OBVIOUS
<1>1. DInv
  BY DInvInit
<1>2. \A o \in Orders : ~Exists(o)
  BY DEF Init, Exists, NoRow
<1>3. MissedExist /\ RowFits
  BY <1>2 DEF Init, MissedExist, RowFits
<1>4. \A a \in Actors : pc[a] = "idle"
  BY DEF Init
<1>5. PullFits
  BY <1>4 DEF PullFits, Actors
<1>6. ReportFits
  BY <1>4 DEF ReportFits, Actors
<1> QED
  BY <1>1, <1>3, <1>5, <1>6 DEF AInv

LEMMA AInvStep == AInv /\ [Next]_vars => AInv'
<1> SUFFICES ASSUME AInv, [Next]_vars PROVE AInv'
  OBVIOUS
<1>1. DInv'
  BY DInvStep DEF AInv
<1>2. MissedExist'
  BY MissedStep DEF AInv
<1> QED
  BY <1>1, <1>2, RowFitsStep, PullFitsStep, ReportFitsStep DEF AInv

LEMMA AInvAlways == Spec => []AInv
  BY AInvInit, AInvStep, PTL DEF Spec

-----------------------------------------------------------------------------
(* The theorem *)

\* Once no report of an order is left and its last one went well, Odoo and
\* Cartona agree on it, however jobs, pulls, wizards and users overlapped.
THEOREM Agreement == Spec => []AgreeAtRest
<1>1. AInv => AgreeAtRest
  <2> SUFFICES ASSUME AInv, NEW o \in Orders,
                      row[o].state # "none", row[o].cartonaStatus = remote[o],
                      row[o].done => row[o].state = "sale",
                      Idle(o), o \notin failed \cup undone
               PROVE  row[o].state = ToOdoo(remote[o])
    BY DEF AgreeAtRest
  <2>1. Agrees(row[o], remote[o])
    BY DEF AInv, RowFits, Exists, Quiet
  <2>2. ~(row[o].state = "sale" /\ row[o].cartonaStatus = "pending")
    BY <2>1 DEF Agrees, Expected, Later
  <2> QED
    BY <2>1, <2>2 DEF Agrees, Fits
<1> QED
  BY <1>1, AInvAlways, PTL

=============================================================================
