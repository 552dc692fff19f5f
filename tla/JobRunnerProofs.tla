--------------------------- MODULE JobRunnerProofs ---------------------------
(***************************************************************************)
(* Proofs about JobRunner, for any number of runners and databases and any *)
(* number of failures: one runner at a time may write to a database, and   *)
(* none misses a change of a row it has loaded.                            *)
(***************************************************************************)
EXTENDS JobRunner, TLAPS

USE DEF sessions, runner

-----------------------------------------------------------------------------
(* The inductive invariant *)

\* The lock of a database belongs to a session exactly as long as the runner
\* has it and the server knows it.
Locks == \A r \in Runners : \A d \in Databases : Alive(r, d) <=> lock[d] = r

\* The sessions are opened in the order of the databases, and only an open
\* session breaks.
Opened ==
  \A r \in Runners :
    /\ broken[r] \subseteq open[r]
    /\ phase[r] = "connect" => \A d \in open[r] : d < at[r]
    /\ phase[r] \in {"listen", "load"} => \A d \in open[r] : d <= at[r]
    /\ phase[r] \in {"off", "sleep"} => open[r] = {}

Sessions == Locks /\ Opened

\* A session listens before its rows are loaded.
ListensFirst ==
  \A r \in Runners : \A d \in Databases :
    Loaded(r, d) \/ (Alive(r, d) /\ d = at[r] /\ phase[r] = "load") => d \in listens[r]

IInv == TypeOK /\ Sessions /\ ListensFirst /\ Informed

\* Before anything is started there is nothing to know.
LEMMA IInvInit == Init => IInv
  BY RunnerAssumption
  DEF Init, IInv, TypeOK, Phase, Databases, Sessions, Locks, Opened, ListensFirst, Informed,
      Loaded, Alive

-----------------------------------------------------------------------------
\* The helpers keep the types.
LEMMA StoreType ==
  ASSUME TypeOK, NEW d \in Databases, NEW s \in {"pending", "enqueued", "done"}, Store(d, s)
  PROVE  /\ row' \in [Databases -> {"pending", "enqueued", "done"}]
         /\ notice' \in [Runners -> SUBSET Databases]
  BY DEF TypeOK, Store

\* A position stays within the databases.
LEMMA GotoType ==
  ASSUME TypeOK, NEW r \in Runners, NEW p \in Phase, NEW q \in Phase,
         Goto(r, p, at[r]) \/ Goto(r, p, 1) \/ Advance(r, p, q)
  PROVE  phase' \in [Runners -> Phase] /\ at' \in [Runners -> Databases]
<1>1. at[r] \in 1..N /\ 1 \in 1..N /\ (at[r] < N => at[r] + 1 \in 1..N)
  BY RunnerAssumption DEF TypeOK, Databases
<1>2. ASSUME NEW x \in Phase, NEW i \in 1..N, Goto(r, x, i)
      PROVE  phase' \in [Runners -> Phase] /\ at' \in [Runners -> Databases]
  BY <1>2 DEF TypeOK, Goto, Databases
<1>3. CASE Advance(r, p, q) /\ at[r] < N
  BY <1>1, <1>2, <1>3 DEF Advance
<1>4. CASE Advance(r, p, q) /\ ~(at[r] < N)
  BY <1>1, <1>2, <1>4 DEF Advance
<1>5. CASE Goto(r, p, at[r]) \/ Goto(r, p, 1)
  BY <1>1, <1>2, <1>5
<1> QED
  BY <1>3, <1>4, <1>5

\* So does the position after a step of the initialization.
LEMMA ProceedType ==
  ASSUME TypeOK, NEW r \in Runners, NEW p \in {"connect", "listen", "load"}, Proceed(r, p)
  PROVE  phase' \in [Runners -> Phase] /\ at' \in [Runners -> Databases]
<1> DEFINE q == IF stop[r] THEN "wait" ELSE "requeue"
<1>1. q \in Phase /\ "connect" \in Phase /\ "listen" \in Phase /\ "load" \in Phase
  BY DEF Phase
<1>2. CASE p = "load"
  BY <1>1, <1>2, GotoType DEF Proceed, Following
<1>3. CASE p = "connect"
  BY <1>1, <1>3, GotoType DEF Proceed, Following
<1>4. CASE p = "listen"
  BY <1>1, <1>4, GotoType DEF Proceed, Following
<1> QED
  BY <1>2, <1>3, <1>4

\* And what is left when a runner closes its sessions.
LEMMA CloseAllType ==
  ASSUME TypeOK, NEW r \in Runners, CloseAll(r)
  PROVE  /\ open' \in [Runners -> SUBSET Databases] /\ broken' \in [Runners -> SUBSET Databases]
         /\ listens' \in [Runners -> SUBSET Databases]
         /\ notice' \in [Runners -> SUBSET Databases]
         /\ queued' \in [Runners -> SUBSET Databases]
         /\ lock' \in [Databases -> Runners \cup {Free, Lost}]
  BY DEF TypeOK, CloseAll

\* Every variable keeps its type.
LEMMA TypeStep ==
  ASSUME TypeOK, [Next]_vars
  PROVE  TypeOK'
<1> USE RunnerAssumption
<1>0. \A r \in Runners : DbAt(r) \in Databases
  BY DEF TypeOK, DbAt
<1>1. ASSUME NEW r \in Runners, Start(r) \/ Wake(r) \/ Wait(r) PROVE TypeOK'
  <2>1. \E p \in Phase : Goto(r, p, 1)
    BY <1>1 DEF Start, Wake, Wait, Phase
  <2>2. phase' \in [Runners -> Phase] /\ at' \in [Runners -> Databases]
    BY <2>1, GotoType
  <2> QED
    BY <1>1, <2>2 DEF TypeOK, Start, Wake, Wait
<1>2. ASSUME NEW r \in Runners, Connect(r) PROVE TypeOK'
  <2>1. phase' \in [Runners -> Phase] /\ at' \in [Runners -> Databases]
    BY <1>2, ProceedType DEF Connect
  <2> QED
    BY <1>0, <1>2, <2>1 DEF TypeOK, Connect
<1>3. ASSUME NEW r \in Runners, Listen(r) PROVE TypeOK'
  <2>1. phase' \in [Runners -> Phase] /\ at' \in [Runners -> Databases]
    BY <1>3, ProceedType DEF Listen
  <2> QED
    BY <1>0, <1>3, <2>1 DEF TypeOK, Listen
<1>4. ASSUME NEW r \in Runners, Load(r) PROVE TypeOK'
  <2>1. phase' \in [Runners -> Phase] /\ at' \in [Runners -> Databases]
    BY <1>4, ProceedType DEF Load
  <2> QED
    BY <1>0, <1>4, <2>1 DEF TypeOK, Load, Read
<1>5. ASSUME NEW r \in Runners, ElectionLost(r) \/ NoticeBroken(r) PROVE TypeOK'
  <2>1. Recover(r)
    BY <1>5 DEF ElectionLost, NoticeBroken
  <2>2. phase' \in [Runners -> Phase] /\ at' \in [Runners -> Databases]
    BY <2>1, GotoType DEF Recover, Phase
  <2> QED
    BY <2>1, <2>2, CloseAllType DEF TypeOK, Recover
<1>6. ASSUME NEW r \in Runners, Stopped(r) \/ Crash(r) PROVE TypeOK'
  <2>1. /\ CloseAll(r) /\ Goto(r, "off", 1)
        /\ failures' \in Nat
        /\ UNCHANGED <<stop, row, request, users>>
    BY <1>6 DEF Stopped, Exit, Crash, Fails, TypeOK
  <2>2. phase' \in [Runners -> Phase] /\ at' \in [Runners -> Databases]
    BY <2>1, GotoType DEF Phase
  <2> QED
    BY <2>1, <2>2, CloseAllType DEF TypeOK
<1>7. ASSUME NEW r \in Runners, RequeueDead(r) PROVE TypeOK'
  <2>1. phase' \in [Runners -> Phase] /\ at' \in [Runners -> Databases]
    BY <1>7, GotoType DEF RequeueDead, Phase
  <2> QED
    BY <1>0, <1>7, <2>1, StoreType DEF TypeOK, RequeueDead
<1>8. ASSUME NEW r \in Runners, ProcessNotifications(r) PROVE TypeOK'
  <2>1. phase' \in [Runners -> Phase] /\ at' \in [Runners -> Databases]
    BY <1>8, GotoType DEF ProcessNotifications, Phase
  <2> QED
    BY <1>0, <1>8, <2>1 DEF TypeOK, ProcessNotifications, Read
<1>9. ASSUME NEW r \in Runners, Enqueue(r) PROVE TypeOK'
  <2>1. phase' \in [Runners -> Phase] /\ at' \in [Runners -> Databases]
    BY <1>9, GotoType DEF Enqueue, Phase
  <2> QED
    BY <1>0, <1>9, <2>1, StoreType DEF TypeOK, Enqueue
<1>10. ASSUME NEW r \in Runners, Request(r) \/ RunNothing(r) PROVE TypeOK'
  <2>1. phase' \in [Runners -> Phase] /\ at' \in [Runners -> Databases]
    BY <1>10, GotoType DEF Request, RunNothing, Phase
  <2> QED
    BY <1>0, <1>10, <2>1 DEF TypeOK, Request, RunNothing
<1>11. ASSUME NEW r \in Runners, Stop(r) PROVE TypeOK'
  BY <1>11 DEF TypeOK, Stop, Fails
<1>12. ASSUME NEW r \in Runners, NEW d \in Databases, BreakSession(r, d) PROVE TypeOK'
  BY <1>12 DEF TypeOK, BreakSession, Fails
<1>13. ASSUME NEW d \in Databases, EndLost(d) \/ LoseRequest(d) PROVE TypeOK'
  BY <1>13 DEF TypeOK, EndLost, LoseRequest, Fails
<1>14. ASSUME NEW d \in Databases, Perform(d) \/ NewJob(d) \/ ButtonDone(d) PROVE TypeOK'
  BY <1>14, StoreType DEF TypeOK, Perform, NewJob, ButtonDone, UserActs
<1>15. CASE UNCHANGED vars
  BY <1>15 DEF vars, TypeOK
<1> QED
  BY <1>1, <1>2, <1>3, <1>4, <1>5, <1>6, <1>7, <1>8, <1>9, <1>10, <1>11, <1>12, <1>13, <1>14,
     <1>15
  DEF Next, Initialize, Loop

-----------------------------------------------------------------------------
\* A runner that closes its sessions frees its locks and nobody else's.
LEMMA CloseAllSessions ==
  ASSUME TypeOK, Sessions, NEW r \in Runners, CloseAll(r),
         \A s \in Runners \ {r} : phase'[s] = phase[s] /\ at'[s] = at[s]
  PROVE  Sessions'
  BY RunnerAssumption DEF TypeOK, Sessions, Locks, Opened, CloseAll, Alive

\* Locks: a session is opened with its lock, and loses it only when it ends.
LEMMA SessionsStep ==
  ASSUME TypeOK, Sessions, [Next]_vars
  PROVE  Sessions'
<1> USE RunnerAssumption
<1>0. \A r \in Runners : at[r] \in 1..N /\ DbAt(r) = at[r]
  BY DEF TypeOK, DbAt, Databases
<1>1. ASSUME NEW r \in Runners, Start(r) \/ Wake(r) PROVE Sessions'
  BY <1>1 DEF Start, Wake, Goto, Sessions, Locks, Opened, Alive, TypeOK
<1>2. ASSUME NEW r \in Runners, Connect(r) PROVE Sessions'
  <2> PICK d \in 1..N : d = at[r]
    BY <1>0
  <2>1. /\ lock[d] = Free
        /\ lock' = [lock EXCEPT ![d] = r]
        /\ open' = [open EXCEPT ![r] = @ \cup {d}]
        /\ UNCHANGED broken
        /\ phase[r] = "connect"
    BY <1>0, <1>2 DEF Connect, CanLock
  <2>2. phase' = [phase EXCEPT ![r] = "listen"] /\ at'[r] = at[r]
        /\ \A s \in Runners \ {r} : at'[s] = at[s]
    <3>1. Following("connect") = "listen"
      BY DEF Following
    <3>2. Proceed(r, "connect")
      BY <1>2 DEF Connect
    <3>3. Goto(r, "listen", at[r])
      BY <3>1, <3>2 DEF Proceed
    <3> QED
      BY <3>3 DEF Goto, TypeOK
  <2>3. d \notin broken[r] /\ \A e \in open[r] : e < d
    BY <2>1 DEF Sessions, Opened
  <2>4. Locks'
    BY <2>1, <2>3 DEF Sessions, Locks, Alive, TypeOK, Databases
  <2>5. Opened'
    BY <2>1, <2>2, <2>3 DEF Sessions, Opened, TypeOK
  <2> QED
    BY <2>4, <2>5 DEF Sessions
<1>3. ASSUME NEW r \in Runners,
             Listen(r) \/ Load(r) \/ RequeueDead(r) \/ ProcessNotifications(r) \/ Enqueue(r)
             \/ Request(r) \/ RunNothing(r) \/ Wait(r)
      PROVE  Sessions'
  <2>1. UNCHANGED <<open, broken, lock>>
    BY <1>3 DEF Listen, Load, RequeueDead, ProcessNotifications, Enqueue, Request, RunNothing, Wait
  <2>2. \A s \in Runners \ {r} : phase'[s] = phase[s] /\ at'[s] = at[s]
    BY <1>3
    DEF Listen, Load, RequeueDead, ProcessNotifications, Enqueue, Request, RunNothing, Wait,
        Proceed, Following, Advance, Goto, TypeOK
  <2>3. \/ phase[r] = "listen" /\ phase'[r] = "load" /\ at'[r] = at[r]
        \/ phase[r] = "load" /\ phase'[r] = "connect" /\ at'[r] = at[r] + 1
        \/ phase'[r] \notin {"off", "sleep", "connect", "listen", "load"}
    BY <1>3
    DEF Listen, Load, RequeueDead, ProcessNotifications, Enqueue, Request, RunNothing, Wait,
        Proceed, Following, Advance, Goto, TypeOK
  <2>4. Locks'
    BY <2>1 DEF Sessions, Locks, Alive
  <2>5. ASSUME NEW s \in Runners \ {r}
        PROVE  /\ broken'[s] \subseteq open'[s]
               /\ phase'[s] = "connect" => \A d \in open'[s] : d < at'[s]
               /\ phase'[s] \in {"listen", "load"} => \A d \in open'[s] : d <= at'[s]
               /\ phase'[s] \in {"off", "sleep"} => open'[s] = {}
    BY <2>1, <2>2 DEF Sessions, Opened
  <2>6. open[r] \subseteq 1..N /\ broken'[r] \subseteq open'[r] /\ at[r] \in 1..N
    BY <1>0, <2>1 DEF Sessions, Opened, TypeOK, Databases
  <2>7. CASE phase[r] = "load" /\ phase'[r] = "connect" /\ at'[r] = at[r] + 1
    <3>1. \A d \in open'[r] : d < at'[r]
      BY <2>1, <2>6, <2>7 DEF Sessions, Opened
    <3> QED
      BY <2>4, <2>5, <2>6, <2>7, <3>1 DEF Sessions, Opened
  <2>8. CASE phase[r] = "listen" /\ phase'[r] = "load" /\ at'[r] = at[r]
    BY <2>1, <2>4, <2>5, <2>6, <2>8 DEF Sessions, Opened
  <2>9. CASE phase'[r] \notin {"off", "sleep", "connect", "listen", "load"}
    BY <2>4, <2>5, <2>6, <2>9 DEF Sessions, Opened
  <2> QED
    BY <2>3, <2>7, <2>8, <2>9
<1>4. ASSUME NEW r \in Runners, ElectionLost(r) \/ NoticeBroken(r) \/ Stopped(r) \/ Crash(r)
      PROVE  Sessions'
  <2>1. CloseAll(r) /\ \A s \in Runners \ {r} : phase'[s] = phase[s] /\ at'[s] = at[s]
    BY <1>4 DEF ElectionLost, NoticeBroken, Stopped, Crash, Recover, Exit, Goto, TypeOK
  <2> QED
    BY <2>1, CloseAllSessions
<1>5. ASSUME NEW r \in Runners, Stop(r) PROVE Sessions'
  BY <1>5 DEF Stop, Sessions, Locks, Opened, Alive
<1>6. ASSUME NEW r \in Runners, NEW d \in Databases, BreakSession(r, d) PROVE Sessions'
  <2>1. /\ Alive(r, d)
        /\ broken' = [broken EXCEPT ![r] = @ \cup {d}]
        /\ UNCHANGED <<open, phase, at>>
        /\ \E holder \in {Free, Lost} : lock' = [lock EXCEPT ![d] = holder]
    BY <1>6 DEF BreakSession
  <2> QED
    BY <2>1 DEF Sessions, Locks, Opened, Alive, TypeOK
<1>7. ASSUME NEW d \in Databases, EndLost(d) PROVE Sessions'
  BY <1>7 DEF EndLost, Sessions, Locks, Opened, Alive, TypeOK
<1>8. ASSUME NEW d \in Databases, LoseRequest(d) \/ Perform(d) \/ NewJob(d) \/ ButtonDone(d)
      PROVE  Sessions'
  BY <1>8 DEF LoseRequest, Perform, NewJob, ButtonDone, Sessions, Locks, Opened, Alive
<1>9. CASE UNCHANGED vars
  BY <1>9 DEF vars, Sessions, Locks, Opened, Alive
<1> QED
  BY <1>1, <1>2, <1>3, <1>4, <1>5, <1>6, <1>7, <1>8, <1>9 DEF Next, Initialize, Loop

-----------------------------------------------------------------------------
Knows == ListensFirst /\ Informed

\* A session that closes knows nothing; the others are not concerned.
LEMMA CloseAllKnows ==
  ASSUME TypeOK, Sessions, Knows, NEW r \in Runners, CloseAll(r), UNCHANGED row,
         \A s \in Runners \ {r} : phase'[s] = phase[s] /\ at'[s] = at[s]
  PROVE  Knows'
  BY DEF TypeOK, Knows, ListensFirst, Informed, CloseAll, Loaded, Alive, DbAt

\* A row that changes is notified to every session that has loaded it.
LEMMA StoreKnows ==
  ASSUME TypeOK, Sessions, Knows, NEW d \in Databases, NEW s, Store(d, s),
         UNCHANGED <<open, broken, listens>>,
         \A r \in Runners : \A e \in Databases :
           Loaded(r, e)' \/ (Alive(r, e)' /\ e = at'[r] /\ phase'[r] = "load") => Loaded(r, e)
             \/ (Alive(r, e) /\ e = at[r] /\ phase[r] = "load"),
         \A r \in Runners : \A e \in Databases :
           e # d /\ Loaded(r, e)' => Loaded(r, e) /\ (e \in queued'[r] <=> e \in queued[r])
  PROVE  Knows'
<1>1. ListensFirst'
  BY DEF Knows, ListensFirst
<1>2. ASSUME NEW r \in Runners, NEW e \in Databases, Loaded(r, e)'
      PROVE  (e \in queued'[r] <=> row'[e] = "pending") \/ e \in notice'[r]
  <2>1. CASE e = d
    <3>1. d \in listens[r] \ broken[r]
      BY <1>1, <1>2, <2>1 DEF ListensFirst, Loaded, Alive
    <3> QED
      BY <2>1, <3>1 DEF Store
  <2>2. CASE e # d
    BY <1>2, <2>2 DEF Store, Knows, Informed, TypeOK
  <2> QED
    BY <2>1, <2>2
<1> QED
  BY <1>1, <1>2 DEF Knows, Informed

\* Knowledge: LISTEN comes before SELECT, and a notification is forgotten
\* only together with a new look at the row.
LEMMA KnowsStep ==
  ASSUME TypeOK, Sessions, Knows, [Next]_vars
  PROVE  Knows'
<1> USE RunnerAssumption DEF TypeOK, DbAt
<1>0. \A r \in Runners : at[r] \in Databases
  OBVIOUS
<1>1. ASSUME NEW r \in Runners, Start(r) \/ Wake(r) PROVE Knows'
  <2>1. open[r] = {}
    BY <1>1 DEF Start, Wake, Sessions, Opened
  <2> QED
    BY <1>1, <2>1 DEF Start, Wake, Goto, Knows, ListensFirst, Informed, Loaded, Alive
<1>2. ASSUME NEW r \in Runners, Connect(r) PROVE Knows'
  <2>1. /\ phase' = [phase EXCEPT ![r] = "listen"] /\ at' = at
        /\ phase[r] = "connect"
        /\ open' = [open EXCEPT ![r] = @ \cup {at[r]}]
        /\ UNCHANGED <<broken, listens, notice, queued, row>>
    BY <1>2 DEF Connect, Proceed, Following, Goto
  <2> QED
    BY <2>1 DEF Knows, ListensFirst, Informed, Loaded, Alive
<1>3. ASSUME NEW r \in Runners, Listen(r) PROVE Knows'
  <2>1. /\ phase' = [phase EXCEPT ![r] = "load"] /\ at' = at
        /\ phase[r] = "listen"
        /\ listens' = [listens EXCEPT ![r] = @ \cup {at[r]}]
        /\ UNCHANGED <<open, broken, notice, queued, row>>
    BY <1>3 DEF Listen, Proceed, Following, Goto
  <2> QED
    BY <2>1 DEF Knows, ListensFirst, Informed, Loaded, Alive
<1>4. ASSUME NEW r \in Runners, Load(r) PROVE Knows'
  <2> PICK d \in Databases : d = at[r]
    BY <1>0
  <2>1. /\ phase[r] = "load" /\ Alive(r, d)
        /\ queued' = [queued EXCEPT ![r] = IF row[d] = "pending" THEN @ \cup {d} ELSE @ \ {d}]
        /\ UNCHANGED <<open, broken, listens, notice, row>>
    BY <1>4 DEF Load, Read
  <2>2. /\ \A s \in Runners \ {r} : phase'[s] = phase[s] /\ at'[s] = at[s]
        /\ phase'[r] \in {"connect", "wait", "requeue"}
    BY <1>4 DEF Load, Proceed, Following, Advance, Goto
  <2>3. \A s \in Runners, e \in Databases :
          Loaded(s, e)' => Loaded(s, e) \/ (s = r /\ e = d)
    BY <2>1, <2>2 DEF Loaded, Alive
  <2>4. d \in listens[r]
    BY <2>1 DEF Knows, ListensFirst
  <2>5. ListensFirst'
    BY <2>1, <2>2, <2>3, <2>4 DEF Knows, ListensFirst, Alive
  <2>6. Informed'
    BY <2>1, <2>3 DEF Knows, Informed
  <2> QED
    BY <2>5, <2>6 DEF Knows
<1>5. ASSUME NEW r \in Runners, ElectionLost(r) \/ NoticeBroken(r) \/ Stopped(r) \/ Crash(r)
      PROVE  Knows'
  <2>1. /\ CloseAll(r) /\ UNCHANGED row
        /\ \A s \in Runners \ {r} : phase'[s] = phase[s] /\ at'[s] = at[s]
    BY <1>5 DEF ElectionLost, NoticeBroken, Stopped, Crash, Recover, Exit, Goto
  <2> QED
    BY <2>1, CloseAllKnows
<1>6. ASSUME NEW r \in Runners, RequeueDead(r) PROVE Knows'
  <2>1. /\ phase[r] = "requeue" /\ phase'[r] \in {"requeue", "notify"}
        /\ \A s \in Runners \ {r} : phase'[s] = phase[s] /\ at'[s] = at[s]
        /\ UNCHANGED <<open, broken, listens, queued>>
    BY <1>6 DEF RequeueDead, Advance, Goto
  <2>2. \A s \in Runners : \A e \in Databases :
          /\ Loaded(s, e)' <=> Loaded(s, e)
          /\ phase'[s] = "load" => phase[s] = "load" /\ at'[s] = at[s]
    BY <2>1 DEF Loaded, Alive
  <2>3. CASE Store(at[r], "pending")
    BY <1>0, <2>1, <2>2, <2>3, StoreKnows DEF Alive
  <2>4. CASE UNCHANGED <<row, notice>>
    BY <2>1, <2>2, <2>4 DEF Knows, ListensFirst, Informed, Alive
  <2> QED
    BY <1>6, <2>3, <2>4 DEF RequeueDead
<1>7. ASSUME NEW r \in Runners, ProcessNotifications(r) PROVE Knows'
  <2>1. /\ phase[r] = "notify" /\ phase'[r] \in {"notify", "run"}
        /\ \A s \in Runners \ {r} : phase'[s] = phase[s] /\ at'[s] = at[s]
        /\ UNCHANGED <<open, broken, listens, row>>
    BY <1>7 DEF ProcessNotifications, Advance, Goto
  <2>2. \A s \in Runners : \A e \in Databases :
          /\ Loaded(s, e)' <=> Loaded(s, e)
          /\ phase'[s] = "load" => phase[s] = "load" /\ at'[s] = at[s]
    BY <2>1 DEF Loaded, Alive
  <2>3. CASE Read(r, at[r]) /\ notice' = [notice EXCEPT ![r] = @ \ {at[r]}]
    BY <2>1, <2>2, <2>3 DEF Read, Knows, ListensFirst, Informed, Alive
  <2>4. CASE UNCHANGED <<queued, notice>>
    BY <2>1, <2>2, <2>4 DEF Knows, ListensFirst, Informed, Alive
  <2> QED
    BY <1>7, <2>3, <2>4 DEF ProcessNotifications
<1>8. ASSUME NEW r \in Runners, Enqueue(r) PROVE Knows'
  <2>1. /\ phase' = [phase EXCEPT ![r] = "request"] /\ phase[r] = "run" /\ at' = at
        /\ Store(at[r], "enqueued")
        /\ queued' = [queued EXCEPT ![r] = @ \ {at[r]}]
        /\ UNCHANGED <<open, broken, listens>>
    BY <1>8 DEF Enqueue, Goto
  <2>2. \A s \in Runners : \A e \in Databases :
          /\ Loaded(s, e)' <=> Loaded(s, e)
          /\ phase'[s] = "load" => phase[s] = "load" /\ at'[s] = at[s]
    BY <2>1 DEF Loaded, Alive
  <2>3. \A s \in Runners : \A e \in Databases :
          e # at[r] /\ Loaded(s, e) => (e \in queued'[s] <=> e \in queued[s])
    BY <2>1
  <2>4. \A s \in Runners : \A e \in Databases :
          e # at[r] /\ Loaded(s, e)' => Loaded(s, e) /\ (e \in queued'[s] <=> e \in queued[s])
    BY <2>2, <2>3
  <2> QED
    BY <1>0, <2>1, <2>2, <2>4, StoreKnows DEF Alive
<1>9. ASSUME NEW r \in Runners, Request(r) \/ RunNothing(r) \/ Wait(r) PROVE Knows'
  <2>1. /\ phase[r] \notin {"connect", "listen", "load"}
        /\ phase'[r] \notin {"connect", "listen", "load"}
        /\ \A s \in Runners \ {r} : phase'[s] = phase[s] /\ at'[s] = at[s]
        /\ UNCHANGED <<open, broken, listens, notice, queued, row>>
    BY <1>9 DEF Request, RunNothing, Wait, Advance, Goto
  <2> QED
    BY <2>1 DEF Knows, ListensFirst, Informed, Loaded, Alive
<1>10. ASSUME NEW r \in Runners, Stop(r) PROVE Knows'
  BY <1>10 DEF Stop, Knows, ListensFirst, Informed, Loaded, Alive
<1>11. ASSUME NEW r \in Runners, NEW d \in Databases, BreakSession(r, d) PROVE Knows'
  <2>1. /\ broken' = [broken EXCEPT ![r] = @ \cup {d}]
        /\ notice' = [notice EXCEPT ![r] = @ \ {d}]
        /\ UNCHANGED <<phase, at, open, listens, queued, row>>
    BY <1>11 DEF BreakSession
  <2>2. \A s \in Runners, e \in Databases : Alive(s, e)' => Alive(s, e) /\ ~(s = r /\ e = d)
    BY <2>1 DEF Alive
  <2>3. \A s \in Runners, e \in Databases : Loaded(s, e)' => Loaded(s, e) /\ ~(s = r /\ e = d)
    BY <2>1, <2>2 DEF Loaded
  <2> QED
    BY <2>1, <2>2, <2>3 DEF Knows, ListensFirst, Informed
<1>12. ASSUME NEW d \in Databases, EndLost(d) \/ LoseRequest(d) PROVE Knows'
  BY <1>12 DEF EndLost, LoseRequest, Knows, ListensFirst, Informed, Loaded, Alive
<1>13. ASSUME NEW d \in Databases, Perform(d) \/ NewJob(d) \/ ButtonDone(d) PROVE Knows'
  <2>1. UNCHANGED <<phase, at, open, broken, listens, queued>>
    BY <1>13 DEF Perform, NewJob, ButtonDone
  <2>2. CASE \E s \in {"pending", "enqueued", "done"} : Store(d, s)
    BY <2>1, <2>2, StoreKnows DEF Loaded, Alive
  <2>3. CASE UNCHANGED <<row, notice>>
    BY <2>1, <2>3 DEF Knows, ListensFirst, Informed, Loaded, Alive
  <2> QED
    BY <1>13, <2>2, <2>3 DEF Perform, NewJob, ButtonDone
<1>14. CASE UNCHANGED vars
  BY <1>14 DEF vars, Knows, ListensFirst, Informed, Loaded, Alive
<1> QED
  BY <1>1, <1>2, <1>3, <1>4, <1>5, <1>6, <1>7, <1>8, <1>9, <1>10, <1>11, <1>12, <1>13, <1>14
  DEF Next, Initialize, Loop

-----------------------------------------------------------------------------
(* The theorems *)

\* The parts together are inductive.
LEMMA IInvStep == IInv /\ [Next]_vars => IInv'
  BY TypeStep, SessionsStep, KnowsStep DEF IInv, Knows

\* Hence the invariant holds in every reachable state.
LEMMA IInvAlways == Spec => []IInv
  BY IInvInit, IInvStep, PTL DEF Spec

\* Every variable has its type.
THEOREM TypeCorrect == Spec => []TypeOK
<1>1. IInv => TypeOK
  BY DEF IInv
<1> QED
  BY <1>1, IInvAlways, PTL

\* Any number of servers, failures and restarts: whoever may write to a
\* database holds its advisory lock, and the lock has one holder.
THEOREM OneRunner == Spec => []OneMaster
<1>1. IInv => OneMaster
  BY DEF IInv, Sessions, Locks, OneMaster
<1> QED
  BY <1>1, IInvAlways, PTL

\* No change of a loaded row is missed.
THEOREM NothingMissed == Spec => []Informed
<1>1. IInv => Informed
  BY DEF IInv
<1> QED
  BY <1>1, IInvAlways, PTL
=============================================================================
