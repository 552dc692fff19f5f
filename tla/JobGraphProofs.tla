--------------------------- MODULE JobGraphProofs ---------------------------
(***************************************************************************)
(* Proofs about JobGraph, for any graph, any number of users and any       *)
(* bounds: no child starts before its parents were done or deleted as      *)
(* cancelled, and no wake-up is lost but for the reasons NoLostWakeup      *)
(* names.                                                                  *)
(***************************************************************************)
EXTENDS JobGraph, TLAPS

USE DEF txns, ghosts

-----------------------------------------------------------------------------
(* The inductive invariant *)

\* Whose transactions these are; a wake-up belongs to a worker yet to do it.
Transactions ==
  /\ \A j \in Jobs : op[j] \in {"wake", "none"}
  /\ \A j \in Jobs : op[j] = "wake" => on[j] = j /\ j \in waking
  /\ \A u \in Users : op[u] \in Button \cup {"none"}
  /\ \A u \in Users : op[u] # "none" => on[u] \in Jobs

\* A snapshot is right about every row that nobody wrote since.
Snapshots ==
  \A a \in Actors : \A j \in Jobs \ missed[a] :
    op[a] # "none" => snap[a][j] = state[j]

\* What is known as done, in the table or in a snapshot, has been done; what
\* has no row has been done or was cancelled.
History ==
  /\ waking \subseteq wasDone
  /\ \A j \in Jobs : state[j] = "done" => j \in wasDone
  /\ \A j \in Jobs : state[j] = "deleted" => j \in wasDone \cup dropped
  /\ \A a \in Actors, j \in Jobs :
       snap[a][j] \in {"done", "deleted"} => j \in wasDone \cup dropped
  /\ \A j \in Jobs : ready[j] => Parents[j] \subseteq wasDone \cup dropped

\* A parent that will wake c up has no snapshot yet, or one that shows c
\* waiting for nothing.
WillWake(p, c) ==
  /\ p \in waking
  /\ op[p] = "wake" =>
       snap[p][c] = "wait_dependencies" /\ AllParents(snap[p], c, "done")

WokenUp ==
  \A c \in Jobs :
    Waits(c) /\ c \notin misread => \E p \in Parents[c] : p \in lost \cup dropped \/ WillWake(p, c)

IInv ==
  /\ TypeOK
  /\ Transactions
  /\ Snapshots
  /\ History
  /\ OnlyAfterParents
  /\ WokenUp

\* A freshly stored graph satisfies all of it.
LEMMA IInvInit == Init => IInv
<1> SUFFICES ASSUME Init PROVE IInv
  OBVIOUS
<1> USE GraphAssumption
<1>1. TypeOK
  BY DEF Init, TypeOK, JobState, Actors, NoSnapshot, FirstState
<1>2. Transactions /\ Snapshots
  BY DEF Init, Transactions, Snapshots, Actors
<1>3. History /\ OnlyAfterParents
  BY DEF Init, History, OnlyAfterParents, Actors, NoSnapshot, FirstState
<1>4. WokenUp
  BY DEF Init, WokenUp, Waits, AllParents, FirstState
<1> QED
  BY <1>1, <1>2, <1>3, <1>4 DEF IInv

-----------------------------------------------------------------------------
\* What a transaction writes, and where.
LEMMA WriteTypes ==
  ASSUME TypeOK, Transactions, NEW a \in Actors, op[a] # "none"
  PROVE  /\ on[a] \in Jobs
         /\ OwnState(a) \in JobState /\ ChildState(a) \in JobState
         /\ Updated(a) \subseteq Jobs /\ Written(a) \subseteq Jobs
<1> USE GraphAssumption DEF TypeOK, Transactions, Actors, Button, JobState
<1>1. on[a] \in Jobs /\ op[a] \in Button \cup {"wake"}
  OBVIOUS
<1>2. OwnState(a) \in JobState /\ ChildState(a) \in JobState
  BY <1>1 DEF OwnState, ChildState, PendingOrWait
<1>3. Updated(a) \subseteq Jobs
  BY DEF Updated, Dependents, Children
<1> QED
  BY <1>1, <1>2, <1>3 DEF Written

-----------------------------------------------------------------------------
(* One lemma per part of IInv: each step of Next preserves it *)

\* Types.
LEMMA TypeStep ==
  ASSUME TypeOK, Transactions, [Next]_vars
  PROVE  TypeOK'
<1> USE GraphAssumption
    DEF TypeOK, JobState, Button, Actors, Transactions, NoSnapshot
<1>1. ASSUME NEW j \in Jobs, Acquire(j) PROVE TypeOK'
  BY <1>1 DEF Acquire, SetState, Commit, AllParents
<1>2. ASSUME NEW j \in Jobs, Finish(j) PROVE TypeOK'
  BY <1>2 DEF Finish, SetState, Commit
<1>3. ASSUME NEW j \in Jobs, Fail(j) PROVE TypeOK'
  BY <1>3 DEF Fail, SetState, Commit
<1>4. ASSUME NEW j \in Jobs, Postpone(j) PROVE TypeOK'
  BY <1>4 DEF Postpone, SetState, Commit
<1>5. ASSUME NEW j \in Jobs, WakeBegin(j) PROVE TypeOK'
  BY <1>5 DEF WakeBegin, Open
<1>6. ASSUME NEW j \in Jobs, WakeCommit(j) PROVE TypeOK'
  <2>1. OwnState(j) \in JobState /\ ChildState(j) \in JobState /\ Written(j) \subseteq Jobs
    BY <1>6, WriteTypes DEF WakeCommit
  <2> QED
    BY <1>6, <2>1 DEF WakeCommit, Write, Commit, Close
<1>7. ASSUME NEW j \in Jobs, WakeRefused(j) PROVE TypeOK'
  BY <1>7 DEF WakeRefused, Commit, Close
<1>8. ASSUME NEW j \in Jobs, WakeCrash(j) PROVE TypeOK'
  BY <1>8 DEF WakeCrash, Commit, Close
<1>9. ASSUME NEW u \in Users, NEW button \in Button, NEW j \in Jobs,
             Press(u, button, j)
       PROVE TypeOK'
  BY <1>9 DEF Press, Open
<1>10. ASSUME NEW u \in Users, ButtonCommit(u) PROVE TypeOK'
  <2>1. OwnState(u) \in JobState /\ ChildState(u) \in JobState /\ Written(u) \subseteq Jobs
    BY <1>10, WriteTypes DEF ButtonCommit
  <2>2. misread' \in SUBSET Jobs
    BY <1>10 DEF ButtonCommit, Judged, Children
  <2>3. undated' \in SUBSET Jobs
    BY <1>10, WriteTypes DEF ButtonCommit, Write
  <2> QED
    BY <1>10, <2>1, <2>2, <2>3 DEF ButtonCommit, Write, Commit, Close
<1>11. ASSUME NEW u \in Users, ButtonRerun(u) PROVE TypeOK'
  <2>1. /\ missed' \in [Actors -> SUBSET Jobs]
        /\ missed' = [b \in Actors |->
                       IF b = u \/ op[b] = "none" THEN {} ELSE missed[b] \cup {}]
        /\ UNCHANGED <<state, ready, waking, undated, crashes, buttons, wasDone, dropped, lost,
                       misread>>
    BY <1>11 DEF ButtonRerun, Commit
  <2>2. CASE snap' = [snap EXCEPT ![u] = state] /\ UNCHANGED <<op, on>>
    BY <2>1, <2>2
  <2>3. CASE Close(u)
    BY <2>1, <2>3 DEF Close
  <2> QED
    BY <1>11, <2>2, <2>3 DEF ButtonRerun
<1>12. ASSUME NEW j \in Jobs, Vacuum(j) PROVE TypeOK'
  BY <1>12 DEF Vacuum, SetState, Commit
<1>13. CASE UNCHANGED vars
  BY <1>13 DEF vars, txns, ghosts
<1> HIDE DEF TypeOK
<1> QED
  BY <1>1, <1>2, <1>3, <1>4, <1>5, <1>6, <1>7, <1>8, <1>9, <1>10, <1>11,
     <1>12, <1>13
  DEF Next, Worker, User

-----------------------------------------------------------------------------
\* Transactions: a worker's ends when it stops being about to wake.
LEMMA TransactionsStep ==
  ASSUME TypeOK, Transactions, [Next]_vars
  PROVE  Transactions'
<1> USE GraphAssumption
    DEF TypeOK, JobState, Button, Actors, Transactions
<1>1. ASSUME NEW j \in Jobs, Acquire(j) PROVE Transactions'
  BY <1>1 DEF Acquire, SetState, Commit
<1>2. ASSUME NEW j \in Jobs, Finish(j) PROVE Transactions'
  BY <1>2 DEF Finish, SetState, Commit
<1>3. ASSUME NEW j \in Jobs, Fail(j) PROVE Transactions'
  BY <1>3 DEF Fail, SetState, Commit
<1>4. ASSUME NEW j \in Jobs, Postpone(j) PROVE Transactions'
  BY <1>4 DEF Postpone, SetState, Commit
<1>5. ASSUME NEW j \in Jobs, WakeBegin(j) PROVE Transactions'
  BY <1>5 DEF WakeBegin, Open
<1>6. ASSUME NEW j \in Jobs, WakeCommit(j) PROVE Transactions'
  BY <1>6 DEF WakeCommit, Write, Commit, Close
<1>7. ASSUME NEW j \in Jobs, WakeRefused(j) PROVE Transactions'
  BY <1>7 DEF WakeRefused, Commit, Close
<1>8. ASSUME NEW j \in Jobs, WakeCrash(j) PROVE Transactions'
  BY <1>8 DEF WakeCrash, Commit, Close
<1>9. ASSUME NEW u \in Users, NEW button \in Button, NEW j \in Jobs,
             Press(u, button, j)
       PROVE Transactions'
  BY <1>9 DEF Press, Open
<1>10. ASSUME NEW u \in Users, ButtonCommit(u) PROVE Transactions'
  BY <1>10 DEF ButtonCommit, Write, Commit, Close
<1>11. ASSUME NEW u \in Users, ButtonRerun(u) PROVE Transactions'
  <2>1. /\ missed' \in [Actors -> SUBSET Jobs]
        /\ missed' = [b \in Actors |->
                       IF b = u \/ op[b] = "none" THEN {} ELSE missed[b] \cup {}]
        /\ UNCHANGED <<state, ready, waking, undated, crashes, buttons, wasDone, dropped, lost,
                       misread>>
    BY <1>11 DEF ButtonRerun, Commit
  <2>2. CASE snap' = [snap EXCEPT ![u] = state] /\ UNCHANGED <<op, on>>
    BY <2>1, <2>2
  <2>3. CASE Close(u)
    BY <2>1, <2>3 DEF Close
  <2> QED
    BY <1>11, <2>2, <2>3 DEF ButtonRerun
<1>12. ASSUME NEW j \in Jobs, Vacuum(j) PROVE Transactions'
  BY <1>12 DEF Vacuum, SetState, Commit
<1>13. CASE UNCHANGED vars
  BY <1>13 DEF vars, txns, ghosts
<1> QED
  BY <1>1, <1>2, <1>3, <1>4, <1>5, <1>6, <1>7, <1>8, <1>9, <1>10, <1>11,
     <1>12, <1>13
  DEF Next, Worker, User

-----------------------------------------------------------------------------
\* Snapshots: each commit is missed by the others.
LEMMA SnapshotsStep ==
  ASSUME TypeOK, Transactions, Snapshots, [Next]_vars
  PROVE  Snapshots'
<1> USE GraphAssumption
    DEF TypeOK, JobState, Button, Actors, Transactions, Snapshots
<1>1. ASSUME NEW j \in Jobs, Acquire(j) PROVE Snapshots'
  BY <1>1 DEF Acquire, SetState, Commit
<1>2. ASSUME NEW j \in Jobs, Finish(j) PROVE Snapshots'
  BY <1>2 DEF Finish, SetState, Commit
<1>3. ASSUME NEW j \in Jobs, Fail(j) PROVE Snapshots'
  BY <1>3 DEF Fail, SetState, Commit
<1>4. ASSUME NEW j \in Jobs, Postpone(j) PROVE Snapshots'
  BY <1>4 DEF Postpone, SetState, Commit
<1>5. ASSUME NEW j \in Jobs, WakeBegin(j) PROVE Snapshots'
  BY <1>5 DEF WakeBegin, Open
<1>6. ASSUME NEW j \in Jobs, WakeCommit(j) PROVE Snapshots'
  BY <1>6 DEF WakeCommit, Write, Commit, Close, Written
<1>7. ASSUME NEW j \in Jobs, WakeRefused(j) PROVE Snapshots'
  BY <1>7 DEF WakeRefused, Commit, Close
<1>8. ASSUME NEW j \in Jobs, WakeCrash(j) PROVE Snapshots'
  BY <1>8 DEF WakeCrash, Commit, Close
<1>9. ASSUME NEW u \in Users, NEW button \in Button, NEW j \in Jobs,
             Press(u, button, j)
       PROVE Snapshots'
  BY <1>9 DEF Press, Open
<1>10. ASSUME NEW u \in Users, ButtonCommit(u) PROVE Snapshots'
  BY <1>10 DEF ButtonCommit, Write, Commit, Close, Written
<1>11. ASSUME NEW u \in Users, ButtonRerun(u) PROVE Snapshots'
  BY <1>11 DEF ButtonRerun, Commit, Close
<1>12. ASSUME NEW j \in Jobs, Vacuum(j) PROVE Snapshots'
  BY <1>12 DEF Vacuum, SetState, Commit
<1>13. CASE UNCHANGED vars
  BY <1>13 DEF vars, txns, ghosts
<1> QED
  BY <1>1, <1>2, <1>3, <1>4, <1>5, <1>6, <1>7, <1>8, <1>9, <1>10, <1>11,
     <1>12, <1>13
  DEF Next, Worker, User

-----------------------------------------------------------------------------
\* A transaction creates no "deleted" row, and its snapshot ends with it.
LEMMA WriteHistory ==
  ASSUME TypeOK, Transactions, History, NEW a \in Actors, op[a] # "none", Write(a),
         waking' \subseteq waking, UNCHANGED <<ready, dropped>>
  PROVE  History'
<1> USE GraphAssumption DEF TypeOK, Transactions, History, Actors, Button
<1>1. /\ wasDone \subseteq wasDone'
      /\ \A j \in Jobs : state'[j] = "done" => j \in wasDone'
  BY DEF Write
<1>2. OwnState(a) # "deleted" /\ ChildState(a) # "deleted"
  BY DEF OwnState, PendingOrWait, ChildState
<1>3. \A j \in Jobs : state'[j] = "deleted" => state[j] = "deleted"
  BY <1>2 DEF Write
<1>4. snap' = [snap EXCEPT ![a] = NoSnapshot]
  BY DEF Write, Close
<1>5. \A b \in Actors, j \in Jobs :
        snap'[b][j] \in {"done", "deleted"} => snap[b][j] \in {"done", "deleted"}
  BY <1>4 DEF NoSnapshot
<1> QED
  BY <1>1, <1>3, <1>5

\* History: wasDone only grows, and by every job that becomes done.
LEMMA HistoryStep ==
  ASSUME TypeOK, Transactions, History, [Next]_vars
  PROVE  History'
<1> USE GraphAssumption
    DEF TypeOK, JobState, Button, Actors, Transactions, History, NoSnapshot,
        AllParents
<1>1. ASSUME NEW j \in Jobs, Acquire(j) PROVE History'
  BY <1>1 DEF Acquire, SetState, Commit
<1>2. ASSUME NEW j \in Jobs, Finish(j) PROVE History'
  BY <1>2 DEF Finish, SetState, Commit
<1>3. ASSUME NEW j \in Jobs, Fail(j) PROVE History'
  BY <1>3 DEF Fail, SetState, Commit
<1>4. ASSUME NEW j \in Jobs, Postpone(j) PROVE History'
  BY <1>4 DEF Postpone, SetState, Commit
<1>5. ASSUME NEW j \in Jobs, WakeBegin(j) PROVE History'
  BY <1>5 DEF WakeBegin, Open
<1>6. ASSUME NEW j \in Jobs, WakeCommit(j) PROVE History'
  BY <1>6, WriteHistory DEF WakeCommit
<1>7. ASSUME NEW j \in Jobs, WakeRefused(j) PROVE History'
  BY <1>7 DEF WakeRefused, Commit, Close
<1>8. ASSUME NEW j \in Jobs, WakeCrash(j) PROVE History'
  BY <1>8 DEF WakeCrash, Commit, Close
<1>9. ASSUME NEW u \in Users, NEW button \in Button, NEW j \in Jobs,
             Press(u, button, j)
       PROVE History'
  BY <1>9 DEF Press, Open
<1>10. ASSUME NEW u \in Users, ButtonCommit(u) PROVE History'
  BY <1>10, WriteHistory DEF ButtonCommit
<1>11. ASSUME NEW u \in Users, ButtonRerun(u) PROVE History'
  <2>1. /\ missed' \in [Actors -> SUBSET Jobs]
        /\ missed' = [b \in Actors |->
                       IF b = u \/ op[b] = "none" THEN {} ELSE missed[b] \cup {}]
        /\ UNCHANGED <<state, ready, waking, undated, crashes, buttons, wasDone, dropped, lost,
                       misread>>
    BY <1>11 DEF ButtonRerun, Commit
  <2>2. CASE snap' = [snap EXCEPT ![u] = state] /\ UNCHANGED <<op, on>>
    BY <2>1, <2>2
  <2>3. CASE Close(u)
    BY <2>1, <2>3 DEF Close
  <2> QED
    BY <1>11, <2>2, <2>3 DEF ButtonRerun
<1>12. ASSUME NEW j \in Jobs, Vacuum(j) PROVE History'
  BY <1>12 DEF Vacuum, SetState, Commit, HasEnded
<1>13. CASE UNCHANGED vars
  BY <1>13 DEF vars, txns, ghosts
<1> QED
  BY <1>1, <1>2, <1>3, <1>4, <1>5, <1>6, <1>7, <1>8, <1>9, <1>10, <1>11,
     <1>12, <1>13
  DEF Next, Worker, User

-----------------------------------------------------------------------------
\* What a transaction makes executable has seen its parents done, in its
\* snapshot or by its own doing.
LEMMA WriteAfterParents ==
  ASSUME TypeOK, Transactions, History, OnlyAfterParents,
         NEW a \in Actors, op[a] # "none", Write(a), UNCHANGED dropped
  PROVE  OnlyAfterParents'
<1> USE GraphAssumption DEF TypeOK, Transactions, History, Actors, Button
<1>1. on[a] \in Jobs
  OBVIOUS
<1> DEFINE seen == [snap[a] EXCEPT ![on[a]] = OwnState(a)]
<1>2. wasDone \subseteq wasDone'
  BY DEF Write
<1>3. ASSUME NEW p \in Jobs, seen[p] \in {"done", "deleted"}, op[a] # "requeue",
             Updated(a) \subseteq {c \in Jobs : seen[c] = "wait_dependencies"}
      PROVE  p \in wasDone' \cup dropped'
  <2>1. CASE p # on[a]
    BY <1>1, <1>2, <1>3, <2>1
  <2>2. CASE p = on[a] /\ op[a] = "wake"
    BY <1>2, <2>2
  <2>3. CASE p = on[a] /\ op[a] # "wake"
    <3>1. p \in Written(a) /\ p \notin Updated(a) /\ OwnState(a) = "done"
      BY <1>1, <1>3, <2>3 DEF Written, OwnState
    <3>2. state'[p] = "done"
      BY <3>1 DEF Write
    <3> QED
      BY <3>2 DEF Write
  <2> QED
    BY <2>1, <2>2, <2>3
<1>4. ASSUME NEW c \in Updated(a), ChildState(a) = "pending"
      PROVE  Parents[c] \subseteq wasDone' \cup dropped'
  <2>1. /\ op[a] # "requeue"
        /\ OwnState(a) = "done"
        /\ Updated(a) = Dependents(seen, on[a], "done")
    BY <1>4 DEF Updated, ChildState, OwnState
  <2>2. Updated(a) \subseteq {b \in Jobs : seen[b] = "wait_dependencies"}
    BY <2>1 DEF Dependents, Children
  <2>3. c \in Jobs /\ \A p \in Parents[c] : p \in Jobs /\ seen[p] \in {"done", "deleted"}
    BY <2>1 DEF Dependents, Children, AllParents
  <2> QED
    BY <1>3, <2>1, <2>2, <2>3
<1>5. ASSUME OwnState(a) = "pending" PROVE Parents[on[a]] \subseteq wasDone \cup dropped
  BY <1>1, <1>5 DEF OwnState, PendingOrWait, AllParents
<1>6. OwnState(a) # "started" /\ ChildState(a) # "started"
  BY DEF OwnState, PendingOrWait, ChildState
<1>7. Written(a) \subseteq Updated(a) \cup {on[a]}
  BY DEF Written
<1>8. ASSUME NEW j \in Jobs, state'[j] \in {"pending", "started"}
      PROVE  Parents[j] \subseteq wasDone' \cup dropped'
  <2>1. CASE j \in Updated(a)
    BY <1>4, <1>6, <1>8, <2>1 DEF Write
  <2>2. CASE j \in Written(a) \ Updated(a)
    BY <1>2, <1>5, <1>6, <1>7, <1>8, <2>2 DEF Write
  <2>3. CASE j \notin Written(a) \cup Updated(a)
    BY <1>2, <1>8, <2>3 DEF Write, OnlyAfterParents
  <2> QED
    BY <2>1, <2>2, <2>3
<1> QED
  BY <1>8 DEF OnlyAfterParents

-----------------------------------------------------------------------------
\* Executable jobs: workers only take executable ones, transactions only
\* release children whose parents they see done.
LEMMA OnlyAfterParentsStep ==
  ASSUME TypeOK, Transactions, History, OnlyAfterParents, [Next]_vars
  PROVE  OnlyAfterParents'
<1> USE GraphAssumption
    DEF TypeOK, JobState, Button, Actors, Transactions, History,
        OnlyAfterParents
<1>1. ASSUME NEW j \in Jobs, Acquire(j) PROVE OnlyAfterParents'
  BY <1>1 DEF Acquire, SetState, Commit
<1>2. ASSUME NEW j \in Jobs, Finish(j) PROVE OnlyAfterParents'
  BY <1>2 DEF Finish, SetState, Commit
<1>3. ASSUME NEW j \in Jobs, Fail(j) PROVE OnlyAfterParents'
  BY <1>3 DEF Fail, SetState, Commit
<1>4. ASSUME NEW j \in Jobs, Postpone(j) PROVE OnlyAfterParents'
  BY <1>4 DEF Postpone, SetState, Commit
<1>5. ASSUME NEW j \in Jobs, WakeBegin(j) PROVE OnlyAfterParents'
  BY <1>5 DEF WakeBegin, Open
<1>6. ASSUME NEW j \in Jobs, WakeCommit(j) PROVE OnlyAfterParents'
  BY <1>6, WriteAfterParents DEF WakeCommit
<1>7. ASSUME NEW j \in Jobs, WakeRefused(j) PROVE OnlyAfterParents'
  BY <1>7 DEF WakeRefused, Commit, Close
<1>8. ASSUME NEW j \in Jobs, WakeCrash(j) PROVE OnlyAfterParents'
  BY <1>8 DEF WakeCrash, Commit, Close
<1>9. ASSUME NEW u \in Users, NEW button \in Button, NEW j \in Jobs,
             Press(u, button, j)
       PROVE OnlyAfterParents'
  BY <1>9 DEF Press, Open
<1>10. ASSUME NEW u \in Users, ButtonCommit(u) PROVE OnlyAfterParents'
  BY <1>10, WriteAfterParents DEF ButtonCommit
<1>11. ASSUME NEW u \in Users, ButtonRerun(u) PROVE OnlyAfterParents'
  BY <1>11 DEF ButtonRerun, Commit, Close
<1>12. ASSUME NEW j \in Jobs, Vacuum(j) PROVE OnlyAfterParents'
  BY <1>12 DEF Vacuum, SetState, Commit
<1>13. CASE UNCHANGED vars
  BY <1>13 DEF vars, txns, ghosts
<1> QED
  BY <1>1, <1>2, <1>3, <1>4, <1>5, <1>6, <1>7, <1>8, <1>9, <1>10, <1>11,
     <1>12, <1>13
  DEF Next, Worker, User

-----------------------------------------------------------------------------
\* Wake-ups: whoever completes the last parent is about to wake the child,
\* does so in the same transaction, or has misread the rows.
LEMMA WokenUpStep ==
  ASSUME TypeOK, Transactions, Snapshots, WokenUp, [Next]_vars
  PROVE  WokenUp'
<1> USE GraphAssumption
    DEF TypeOK, JobState, Button, Actors, Transactions, WokenUp, WillWake,
        Waits, AllParents
<1>1. ASSUME NEW j \in Jobs, Acquire(j) PROVE WokenUp'
  BY <1>1 DEF Acquire, SetState, Commit
<1>2. ASSUME NEW j \in Jobs, Finish(j) PROVE WokenUp'
  <2>1. /\ state' = [state EXCEPT ![j] = "done"]
        /\ j \notin waking /\ op[j] = "none"
        /\ waking' = IF HasChildren(j) THEN waking \cup {j} ELSE waking
        /\ UNCHANGED <<op, snap, dropped, lost, misread>>
    BY <1>2 DEF Finish, SetState
  <2>2. ASSUME NEW c \in Jobs, Waits(c)', c \notin misread
        PROVE  \E p \in Parents[c] : p \in lost \cup dropped \/ WillWake(p, c)'
    <3>1. CASE j \in Parents[c]
      BY <2>1, <2>2, <3>1 DEF HasChildren, Children
    <3>2. CASE j \notin Parents[c]
      <4>1. Waits(c)
        BY <2>1, <2>2, <3>2
      <4> QED
        BY <2>1, <2>2, <4>1
    <3> QED
      BY <3>1, <3>2
  <2> QED
    BY <2>1, <2>2
<1>3. ASSUME NEW j \in Jobs, Fail(j) PROVE WokenUp'
  <2>1. state' = [state EXCEPT ![j] = "failed"]
    BY <1>3 DEF Fail, SetState
  <2>2. \A c \in Jobs : Waits(c)' => Waits(c)
    BY <2>1
  <2>3. UNCHANGED <<waking, op, snap, dropped, lost, misread>>
    BY <1>3 DEF Fail, SetState
  <2> QED
    BY <2>2, <2>3
<1>4. ASSUME NEW j \in Jobs, Postpone(j) PROVE WokenUp'
  <2>1. /\ state[j] = "started"
        /\ state' = [state EXCEPT ![j] = IF ready[j] THEN "pending" ELSE "wait_dependencies"]
        /\ misread' = IF ready[j] THEN misread ELSE misread \cup {j}
        /\ UNCHANGED <<waking, op, snap, dropped, lost>>
    BY <1>4 DEF Postpone, SetState
  <2>2. \A c \in Jobs : Waits(c)' /\ c \notin misread' => Waits(c) /\ c \notin misread
    BY <2>1
  <2> QED
    BY <2>1, <2>2
<1>5. ASSUME NEW j \in Jobs, WakeBegin(j) PROVE WokenUp'
  BY <1>5 DEF WakeBegin, Open
<1>6. ASSUME NEW j \in Jobs, WakeCommit(j) PROVE WokenUp'
  <2>1. /\ op[j] = "wake" /\ on[j] = j
        /\ OwnState(j) = "done" /\ ChildState(j) = "pending"
        /\ Written(j) = Updated(j)
        /\ waking' = waking \ {j} /\ UNCHANGED <<dropped, lost, misread>>
    BY <1>6 DEF WakeCommit, OwnState, ChildState, Written
  <2>2. /\ state' = [i \in Jobs |-> IF i \in Updated(j) THEN "pending" ELSE state[i]]
        /\ op' = [op EXCEPT ![j] = "none"]
        /\ snap' = [snap EXCEPT ![j] = NoSnapshot]
    BY <1>6, <2>1 DEF WakeCommit, Write, Close
  <2>3. SUFFICES ASSUME NEW c \in Jobs, Waits(c)', c \notin misread
        PROVE  \E p \in Parents[c] : p \in lost \cup dropped \/ WillWake(p, c)'
    BY <2>1
  <2>4. Waits(c) /\ c \notin Updated(j)
    <3>1. state'[c] = "wait_dependencies" /\ c \notin Updated(j)
      BY <2>2, <2>3
    <3>2. ASSUME NEW p \in Parents[c] PROVE state[p] \in {"done", "deleted"}
      <4>1. p \in Jobs /\ state'[p] \in {"done", "deleted"}
        BY <2>3
      <4> QED
        BY <2>2, <4>1
    <3> QED
      BY <2>2, <3>1, <3>2
  <2>5. PICK p \in Parents[c] : p \in lost \cup dropped \/ WillWake(p, c)
    BY <2>3, <2>4
  <2>6. ASSUME p = j, WillWake(p, c) PROVE FALSE
    BY <2>1, <2>4, <2>6 DEF Updated, Dependents, Children
  <2> QED
    BY <2>1, <2>2, <2>5, <2>6
<1>7. ASSUME NEW j \in Jobs, WakeRefused(j) PROVE WokenUp'
  <2>1. /\ lost' = lost \cup {j} /\ waking' = waking \ {j}
        /\ op' = [op EXCEPT ![j] = "none"] /\ snap' = [snap EXCEPT ![j] = NoSnapshot]
        /\ UNCHANGED <<state, dropped, misread>>
    BY <1>7 DEF WakeRefused, Close
  <2>2. \A c \in Jobs : \A p \in Parents[c] \ {j} : WillWake(p, c) => WillWake(p, c)'
    BY <2>1
  <2> QED
    BY <2>1, <2>2
<1>8. ASSUME NEW j \in Jobs, WakeCrash(j) PROVE WokenUp'
  <2>1. /\ lost' = lost \cup {j} /\ waking' = waking \ {j}
        /\ op' = [op EXCEPT ![j] = "none"] /\ snap' = [snap EXCEPT ![j] = NoSnapshot]
        /\ UNCHANGED <<state, dropped, misread>>
    BY <1>8 DEF WakeCrash, Close
  <2>2. \A c \in Jobs : \A p \in Parents[c] \ {j} : WillWake(p, c) => WillWake(p, c)'
    BY <2>1
  <2> QED
    BY <2>1, <2>2
<1>9. ASSUME NEW u \in Users, NEW button \in Button, NEW j \in Jobs,
             Press(u, button, j)
      PROVE WokenUp'
  <2>1. UNCHANGED <<state, waking, dropped, lost, misread>>
    BY <1>9 DEF Press, Open
  <2>2. \A p \in Jobs : op'[p] = op[p] /\ snap'[p] = snap[p]
    BY <1>9 DEF Press, Open, Close
  <2>3. \A c \in Jobs : \A p \in Parents[c] : WillWake(p, c) => WillWake(p, c)'
    BY <2>1, <2>2
  <2> QED
    BY <2>1, <2>3
<1>10. ASSUME NEW u \in Users, ButtonCommit(u) PROVE WokenUp'
  <2> DEFINE j    == on[u]
             seen == [snap[u] EXCEPT ![j] = OwnState(u)]
  <2>1. /\ j \in Jobs /\ u \in Actors /\ op[u] \in Button
        /\ Written(u) = Updated(u) \cup {j}
        /\ ChildState(u) \in {"cancelled", "pending"}
        /\ misread' = misread \cup
             {c \in Judged(u) : missed[u] \cap (Parents[c] \cup {c}) # {}}
        /\ UNCHANGED <<waking, dropped, lost>>
    BY <1>10 DEF ButtonCommit, ChildState, Written
  <2>2. /\ state' = [i \in Jobs |-> IF i \in Updated(u) THEN ChildState(u)
                                    ELSE IF i \in Written(u) THEN OwnState(u)
                                    ELSE state[i]]
        /\ op' = [op EXCEPT ![u] = "none"]
        /\ snap' = [snap EXCEPT ![u] = NoSnapshot]
    BY <1>10 DEF ButtonCommit, Write, Close
  <2>3. SUFFICES ASSUME NEW c \in Jobs, Waits(c)', c \notin misread'
        PROVE  \E p \in Parents[c] : p \in lost \cup dropped \/ WillWake(p, c)'
    BY <2>1
  <2>4. c \notin Updated(u) /\ ChildState(u) # "done"
    BY <2>1, <2>2, <2>3
  <2>5. ASSUME Waits(c)
        PROVE  \E p \in Parents[c] : p \in lost \cup dropped \/ WillWake(p, c)'
    <3>1. PICK p \in Parents[c] : p \in lost \cup dropped \/ WillWake(p, c)
      BY <2>1, <2>3, <2>5
    <3> QED
      BY <2>1, <2>2, <3>1
  <2>6. CASE c = j
    <3>1. OwnState(u) = "wait_dependencies" /\ op[u] = "requeue"
      BY <2>1, <2>2, <2>3, <2>4, <2>6 DEF OwnState
    <3>2. \A i \in Parents[c] \cup {c} : snap[u][i] = state[i]
      BY <2>1, <2>3, <2>6, <3>1 DEF Judged, Snapshots
    <3>3. Updated(u) = {} /\ j \notin Parents[c]
      BY <2>1, <2>2, <2>3, <2>6, <3>1 DEF Updated
    <3>4. \A p \in Parents[c] : p \in Jobs /\ state'[p] = state[p]
      BY <2>1, <2>2, <3>3
    <3>5. \A p \in Parents[c] : snap[u][p] \in {"done", "deleted"}
      BY <2>3, <3>2, <3>4
    <3> QED
      BY <2>6, <3>1, <3>5 DEF OwnState, PendingOrWait
  <2>7. CASE c # j /\ ~Waits(c)
    <3>1. state[c] = "wait_dependencies"
      BY <2>1, <2>2, <2>3, <2>4, <2>7
    <3>2. \A p \in Parents[c] : p \in Jobs /\ (p = j \/ state[p] \in {"done", "deleted"})
      BY <2>1, <2>2, <2>3, <2>4
    <3>3. j \in Parents[c] /\ OwnState(u) = "done"
      <4>1. j \in Parents[c]
        BY <2>7, <3>1, <3>2
      <4>2. state'[j] \in {"done", "deleted"}
        BY <2>3, <4>1
      <4> QED
        BY <2>1, <2>2, <2>4, <4>1, <4>2 DEF OwnState, PendingOrWait
    <3>4. op[u] = "done"
      BY <2>1, <3>3 DEF OwnState, PendingOrWait
    <3>5. \A i \in Parents[c] \cup {c} : snap[u][i] = state[i]
      BY <2>1, <2>3, <3>3, <3>4 DEF Judged, Children, Snapshots
    <3>6. seen[c] = "wait_dependencies" /\ \A p \in Parents[c] : seen[p] \in {"done", "deleted"}
      BY <2>1, <2>7, <3>1, <3>2, <3>3, <3>5
    <3> QED
      BY <2>4, <3>3, <3>4, <3>6 DEF Updated, Dependents, Children
  <2> QED
    BY <2>5, <2>6, <2>7
<1>11. ASSUME NEW u \in Users, ButtonRerun(u) PROVE WokenUp'
  <2>1. UNCHANGED <<state, waking, dropped, lost, misread>>
    BY <1>11 DEF ButtonRerun, Open
  <2>2. \A p \in Jobs : op'[p] = op[p] /\ snap'[p] = snap[p]
    BY <1>11 DEF ButtonRerun, Open, Close
  <2>3. \A c \in Jobs : \A p \in Parents[c] : WillWake(p, c) => WillWake(p, c)'
    BY <2>1, <2>2
  <2> QED
    BY <2>1, <2>3
<1>12. ASSUME NEW j \in Jobs, Vacuum(j) PROVE WokenUp'
  <2>1. /\ state' = [state EXCEPT ![j] = "deleted"]
        /\ state[j] \in {"done", "cancelled"}
        /\ state[j] = "cancelled" => j \in dropped'
        /\ dropped \subseteq dropped'
        /\ UNCHANGED <<waking, op, snap, lost, misread>>
    BY <1>12 DEF Vacuum, HasEnded, SetState
  <2>2. SUFFICES ASSUME NEW c \in Jobs, Waits(c)', c \notin misread
        PROVE  (\E p \in Parents[c] : p \in lost \cup dropped \/ WillWake(p, c))'
    BY <2>1
  <2>3. CASE j \in Parents[c] /\ state[j] = "cancelled"
    BY <2>1, <2>3
  <2>4. CASE ~(j \in Parents[c] /\ state[j] = "cancelled")
    <3>1. Waits(c)
      BY <2>1, <2>2, <2>4
    <3>2. PICK p \in Parents[c] : p \in lost \cup dropped \/ WillWake(p, c)
      BY <2>1, <2>2, <3>1
    <3> QED
      BY <2>1, <3>2
  <2> QED
    BY <2>3, <2>4
<1>13. CASE UNCHANGED vars
  BY <1>13 DEF vars, txns, ghosts
<1> QED
  BY <1>1, <1>2, <1>3, <1>4, <1>5, <1>6, <1>7, <1>8, <1>9, <1>10, <1>11,
     <1>12, <1>13
  DEF Next, Worker, User

-----------------------------------------------------------------------------
(* The theorems *)

\* The parts together are inductive.
LEMMA IInvStep == IInv /\ [Next]_vars => IInv'
  BY TypeStep, TransactionsStep, SnapshotsStep, HistoryStep, OnlyAfterParentsStep,
     WokenUpStep
  DEF IInv

\* Hence the invariant holds in every reachable state.
LEMMA IInvAlways == Spec => []IInv
  BY IInvInit, IInvStep, PTL DEF Spec

\* Every variable keeps its type, for every graph.
THEOREM GraphTypeCorrect == Spec => []TypeOK
<1>1. IInv => TypeOK
  BY DEF IInv
<1> QED
  BY <1>1, IInvAlways, PTL

\* A child is executable only after all its parents were done, or deleted as
\* cancelled, on every graph and on whatever outdated snapshots that was
\* decided.
THEOREM ParentsFirst == Spec => []OnlyAfterParents
<1>1. IInv => OnlyAfterParents
  BY DEF IInv
<1> QED
  BY <1>1, IInvAlways, PTL

\* A child left waiting for nothing is due to a worker that died or was
\* refused, to a decision taken on outdated states, or to the deletion of a
\* cancelled parent; nothing else loses it.
THEOREM WakeupsExplained == Spec => []NoLostWakeup
<1>1. IInv => NoLostWakeup
  BY DEF IInv, WokenUp, WillWake, NoLostWakeup
<1> QED
  BY <1>1, IInvAlways, PTL
=============================================================================
