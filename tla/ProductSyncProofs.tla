------------------------- MODULE ProductSyncProofs -------------------------
(***************************************************************************)
(* Proofs about ProductSync, for any number of variants, workers, users    *)
(* and failures: a variant at rest that is marked as synced has its        *)
(* current values at Cartona.                                              *)
(***************************************************************************)
EXTENDS ProductSync, TLAPS

-----------------------------------------------------------------------------
(* The inductive invariant *)

\* A push under way has something to send, and sends nothing else; a job of
\* several variants has one of the catalogue's batches.
GoalsOK ==
  \A a \in Actors :
    /\ pc[a] = "idle" => goal[a].variants = {}
    /\ todo[a] \subseteq goal[a].variants
    /\ a \in Workers /\ goal[a].batch => goal[a].variants \in Batches

\* The pushes of a field that are under way.
Acting(v, f) == {a \in Actors : v \in goal[a].variants /\ f \in goal[a].fields}

\* A push of the field is to come: a job waits, or one that runs will be
\* refused, because others have committed the variant's row, or because there
\* are two and the first to commit will have.
Coming(v, f) ==
  \/ queue[v][f] > 0
  \/ \E b \in Batches : v \in b /\ batches[b] > 0
  \/ \E a \in Acting(v, f) : v \in missed[a]
  \/ \E a, b \in Acting(v, f) : a # b

\* Otherwise the only push under way sends the current value, and if there is
\* none, Cartona has it.
Right(v, f) == remote[v][f] = current[v][f]
RightSoFar(v, f) ==
  \/ Acting(v, f) = {} /\ Right(v, f)
  \/ \E a \in Actors :
       /\ Acting(v, f) = {a}
       /\ seen[a].current[v][f] = current[v][f]
       /\ v \in Sent(a) \ refused[a] => Right(v, f)

Pushed(v, f)  == <<v, f>> \notin unsent \cup stray => Coming(v, f) \/ RightSoFar(v, f)
FieldsPushed  == \A v \in Variants, f \in Field : Pushed(v, f)

IInv == TypeOK /\ GoalsOK /\ FieldsPushed

-----------------------------------------------------------------------------
(* Sets the code computes *)

\* A search with a limit finds some of what it searches.
LEMMA FirstTyped ==
  ASSUME NEW vs, NEW k
  PROVE  First(vs, k) \subseteq vs
PROOF BY DEF First

\* Batches and what the cron collects are variants.
LEMMA SetsTyped ==
  /\ Batches \subseteq SUBSET Variants
  /\ \A rows : Collected(rows) \subseteq Variants
PROOF
  <1>1. Batches \subseteq SUBSET Variants
    BY DEF Batches, Batch
  <1>2. ASSUME NEW rows
        PROVE  Collected(rows) \subseteq Variants
    BY FirstTyped DEF Collected
  <1> QED
    BY <1>1, <1>2

-----------------------------------------------------------------------------
(* Types *)

\* The values of a push that is not there have the types of one's.
LEMMA EmptyTyped ==
  /\ Nothing \in Goal
  /\ NoSnapshot \in [current : Versions, row : [Variants -> RowStatus]]
PROOF BY DEF Nothing, NoSnapshot, Goal, Versions, RowStatus

\* The initial states have the types.
LEMMA TypeInit ==
  ASSUME Init
  PROVE  TypeOK
PROOF
  <1>1. current \in Versions /\ remote \in Versions
    BY DEF Init, Versions
  <1>2. row \in [Variants -> RowStatus] /\ queue \in [Variants -> [Field -> Nat]]
    BY DEF Init, RowStatus
  <1>3. batches \in [SUBSET Variants -> Nat]
    BY DEF Init
  <1>4. pc \in [Actors -> {"idle", "open", "sending"}] /\ goal \in [Actors -> Goal]
    BY EmptyTyped DEF Init
  <1>5. seen \in [Actors -> [current : Versions, row : [Variants -> RowStatus]]]
    BY EmptyTyped DEF Init
  <1>6. /\ created \in [Actors -> SUBSET Variants]
        /\ todo \in [Actors -> SUBSET Variants]
        /\ refused \in [Actors -> SUBSET Variants]
        /\ missed \in [Actors -> SUBSET (Variants \cup {Config})]
    BY DEF Init
  <1>7. changes \in Nat /\ pushes \in Nat /\ failures \in Nat
    BY DEF Init
  <1>8. enabled \in BOOLEAN /\ rejected \in SUBSET Variants
    BY DEF Init
  <1>9. unsent \in SUBSET (Variants \X Field) /\ stray \in SUBSET (Variants \X Field)
    BY DEF Init
  <1> QED
    BY <1>1, <1>2, <1>3, <1>4, <1>5, <1>6, <1>7, <1>8, <1>9 DEF TypeOK

\* A commit of rows keeps the type of what others have missed.
LEMMA CommitTyped ==
  ASSUME TypeOK, NEW a, NEW rows \in SUBSET (Variants \cup {Config}), Commit(a, rows)
  PROVE  missed' \in [Actors -> SUBSET (Variants \cup {Config})]
PROOF BY DEF TypeOK, Commit

\* The end of a push keeps the types of its variables.
LEMMA EndTyped ==
  ASSUME TypeOK, NEW a \in Actors, End(a)
  PROVE  /\ pc' \in [Actors -> {"idle", "open", "sending"}]
         /\ goal' \in [Actors -> Goal]
         /\ seen' \in [Actors -> [current : Versions, row : [Variants -> RowStatus]]]
         /\ {created', todo', refused'} \subseteq [Actors -> SUBSET Variants]
PROOF BY EmptyTyped DEF TypeOK, End

\* A push that begins keeps the types;
LEMMA TypeStepBegin ==
  ASSUME TypeOK, NEW a \in Actors, NEW vs \in SUBSET Variants, NEW fs \in SUBSET Field,
         NEW isBatch \in BOOLEAN, Begin(a, vs, fs, isBatch),
         queue' \in [Variants -> [Field -> Nat]],
         batches' \in [SUBSET Variants -> Nat],
         changes' \in Nat, pushes' \in Nat, failures' \in Nat
  PROVE  TypeOK'
PROOF
  <1>1. goal' \in [Actors -> Goal]
    BY DEF Begin, TypeOK, Goal
  <1>2. seen' \in [Actors -> [current : Versions, row : [Variants -> RowStatus]]]
    BY DEF Begin, TypeOK
  <1>3. pc' \in [Actors -> {"idle", "open", "sending"}]
    BY DEF Begin, TypeOK
  <1>4. unsent' \in SUBSET (Variants \X Field)
    BY DEF Begin, TypeOK
  <1> QED
    BY <1>1, <1>2, <1>3, <1>4 DEF Begin, TypeOK, given

\* what it sends has the type of what Cartona has,
LEMMA SendTyped ==
  ASSUME TypeOK, NEW a \in Actors, NEW b, Send(a, b)
  PROVE  remote' \in Versions
PROOF
  <1> DEFINE New(v, f) == IF <<v, f>> \in Pairs(a, b) THEN seen[a].current[v][f] ELSE remote[v][f]
  <1>1. seen[a].current \in Versions /\ remote \in Versions
    BY DEF TypeOK
  <1>2. \A v \in Variants, f \in Field : New(v, f) \in Nat
    BY <1>1 DEF Versions
  <1>3. remote' = [v \in Variants |-> [f \in Field |-> New(v, f)]]
    BY DEF Send
  <1> HIDE DEF New
  <1> QED
    BY <1>2, <1>3 DEF Versions

\* one that is rolled back keeps the types,
LEMMA TypeStepAbandon ==
  ASSUME TypeOK, NEW a \in Actors, Abandon(a), failures' \in Nat
  PROVE  TypeOK'
PROOF
  <1>1. missed' \in [Actors -> SUBSET (Variants \cup {Config})]
    BY CommitTyped DEF Abandon
  <1>2. goal[a] \in Goal
    BY DEF TypeOK
  <1>3. batches' \in [SUBSET Variants -> Nat]
    <2>1. \/ batches' = batches
          \/ batches' = [batches EXCEPT ![goal[a].variants] = @ + 1]
      BY DEF Abandon
    <2>2. batches \in [SUBSET Variants -> Nat]
      BY DEF TypeOK
    <2> QED
      BY <2>1, <2>2
  <1>4. queue' \in [Variants -> [Field -> Nat]]
    <2>1. CASE UNCHANGED queue
      BY <2>1 DEF TypeOK
    <2>2. CASE queue' = [v \in Variants |-> [f \in Field |->
                 IF ~goal[a].batch /\ <<v, f>> \in Pairs(a, goal[a].variants)
                   THEN queue[v][f] + 1 ELSE queue[v][f]]]
      <3>1. \A v \in Variants, f \in Field : queue[v][f] \in Nat
        BY DEF TypeOK
      <3> DEFINE Back(v, f) == ~goal[a].batch /\ <<v, f>> \in Pairs(a, goal[a].variants)
                 More(v, f) == IF Back(v, f) THEN queue[v][f] + 1 ELSE queue[v][f]
      <3>2. \A v \in Variants, f \in Field : More(v, f) \in Nat
        BY <3>1
      <3>3. queue' = [v \in Variants |-> [f \in Field |-> More(v, f)]]
        BY <2>2
      <3> HIDE DEF More
      <3> QED
        BY <3>2, <3>3
    <2> QED
      BY <2>1, <2>2 DEF Abandon
  <1>5. stray' \in SUBSET (Variants \X Field)
    BY <1>2 DEF TypeOK, Abandon, Pairs, Goal
  <1>6. /\ pc' \in [Actors -> {"idle", "open", "sending"}]
        /\ goal' \in [Actors -> Goal]
        /\ seen' \in [Actors -> [current : Versions, row : [Variants -> RowStatus]]]
        /\ {created', todo', refused'} \subseteq [Actors -> SUBSET Variants]
    BY EndTyped DEF Abandon
  <1> QED
    BY <1>1, <1>3, <1>4, <1>5, <1>6 DEF TypeOK, Abandon, given

\* a step of one,
LEMMA TypeStepPush ==
  ASSUME TypeOK, NEW a \in Actors, Push(a)
  PROVE  TypeOK'
PROOF
  <1>1. goal[a] \in Goal /\ goal[a].variants \in SUBSET Variants /\ goal[a].fields \in SUBSET Field
    BY DEF TypeOK, Goal
  <1>2. CASE PushPrepare(a)
    <2>1. Lacking(a) \in SUBSET Variants
      BY <1>1 DEF Lacking
    <2>2. pc' \in [Actors -> {"idle", "open", "sending"}]
      BY <1>2 DEF PushPrepare, TypeOK
    <2>3. {created', todo'} \subseteq [Actors -> SUBSET Variants]
      BY <1>1, <1>2, <2>1 DEF PushPrepare, TypeOK
    <2> QED
      BY <1>2, <2>2, <2>3 DEF PushPrepare, TypeOK, given, budgets, ghosts
  <1>3. CASE PushSend(a)
    <2>1. PICK b \in SUBSET todo[a] :
            /\ todo' = [todo EXCEPT ![a] = @ \ b]
            /\ UNCHANGED <<given, current, row, queue, batches, pc, goal, seen, created, missed,
                           changes, pushes, ghosts>>
            /\ Refuse(a, b) \/ UNCHANGED refused
            /\ Send(a, b) \/ UNCHANGED remote
            /\ Fails \/ UNCHANGED failures
      BY <1>3 DEF PushSend
    <2>2. {todo', refused'} \subseteq [Actors -> SUBSET Variants]
      BY <2>1 DEF TypeOK, Refuse
    <2>3. remote' \in Versions
      <3>1. seen[a].current \in Versions
        BY DEF TypeOK
      <3> QED
        BY <2>1, <3>1, SendTyped DEF TypeOK
    <2>4. failures' \in Nat
      BY <2>1 DEF TypeOK, Fails
    <2> QED
      BY <2>1, <2>2, <2>3, <2>4 DEF TypeOK, given, ghosts
  <1>4. CASE PushCommit(a)
    <2>1. Claimed(a) \in SUBSET (Variants \cup {Config})
      BY <1>1 DEF Claimed, Sent
    <2>2. missed' \in [Actors -> SUBSET (Variants \cup {Config})]
      BY <1>4, <2>1, CommitTyped DEF PushCommit
    <2>3. row' \in [Variants -> RowStatus]
      BY <1>4 DEF PushCommit, TypeOK, Marked, RowStatus
    <2>4. unsent' \in SUBSET (Variants \X Field)
      <3>1. refused[a] \in SUBSET Variants
        BY DEF TypeOK
      <3> QED
        BY <1>1, <1>4, <3>1 DEF PushCommit, TypeOK, Pairs
    <2>5. /\ pc' \in [Actors -> {"idle", "open", "sending"}]
          /\ goal' \in [Actors -> Goal]
          /\ seen' \in [Actors -> [current : Versions, row : [Variants -> RowStatus]]]
          /\ {created', todo', refused'} \subseteq [Actors -> SUBSET Variants]
      BY <1>4, EndTyped DEF PushCommit
    <2> QED
      BY <1>4, <2>2, <2>3, <2>4, <2>5 DEF PushCommit, TypeOK, given, budgets
  <1>5. CASE PushRefused(a)
    BY <1>5, TypeStepAbandon DEF PushRefused, TypeOK
  <1>6. CASE PushCrash(a)
    <2>1. failures' \in Nat
      BY <1>6 DEF PushCrash, Fails, TypeOK
    <2> QED
      BY <1>6, <2>1, TypeStepAbandon DEF PushCrash
  <1> QED
    BY <1>2, <1>3, <1>4, <1>5, <1>6 DEF Push

\* one that runs again,
LEMMA TypeStepRerun ==
  ASSUME TypeOK, NEW u \in Actors, PushRerun(u)
  PROVE  TypeOK'
PROOF
  <1>1. missed' \in [Actors -> SUBSET (Variants \cup {Config})]
    BY CommitTyped DEF PushRerun
  <1>2. seen' \in [Actors -> [current : Versions, row : [Variants -> RowStatus]]]
    BY DEF PushRerun, TypeOK
  <1>3. pc' \in [Actors -> {"idle", "open", "sending"}]
    BY DEF PushRerun, TypeOK
  <1>4. {created', todo', refused'} \subseteq [Actors -> SUBSET Variants]
    BY DEF PushRerun, TypeOK
  <1>5. unsent' \in SUBSET (Variants \X Field)
    BY DEF PushRerun, TypeOK
  <1> QED
    BY <1>1, <1>2, <1>3, <1>4, <1>5 DEF PushRerun, TypeOK, given, budgets

\* and the other transactions.
LEMMA TypeStepOthers ==
  ASSUME TypeOK,
         \/ \E v \in Variants, f \in Field : Change(v, f)
         \/ SyncAll \/ PullEnds \/ JobSkip \/ Switch
  PROVE  TypeOK'
PROOF
  <1>1. ASSUME NEW v \in Variants, NEW f \in Field, Change(v, f)
        PROVE  TypeOK'
    <2>1. current' \in Versions
      BY <1>1 DEF Change, TypeOK, Versions
    <2>2. queue' \in [Variants -> [Field -> Nat]]
      <3>1. queue' = queue \/ queue' = [queue EXCEPT ![v][f] = @ + 1]
        BY <1>1 DEF Change
      <3>2. queue \in [Variants -> [Field -> Nat]]
        BY DEF TypeOK
      <3> QED
        BY <3>1, <3>2
    <2>3. unsent' \in SUBSET (Variants \X Field) /\ changes' \in Nat
      BY <1>1 DEF Change, TypeOK
    <2> QED
      BY <1>1, <2>1, <2>2, <2>3 DEF Change, TypeOK, given, push
  <1>2. CASE SyncAll
    <2>1. missed' \in [Actors -> SUBSET (Variants \cup {Config})]
      <3>1. {v \in Variants : row[v] = "none"} \in SUBSET (Variants \cup {Config})
        OBVIOUS
      <3> QED
        BY <1>2, <3>1, CommitTyped DEF SyncAll
    <2>2. row' \in [Variants -> RowStatus]
      BY <1>2 DEF SyncAll, TypeOK, RowStatus
    <2>3. batches' \in [SUBSET Variants -> Nat] /\ pushes' \in Nat
      BY <1>2 DEF SyncAll, TypeOK
    <2> QED
      BY <1>2, <2>1, <2>2, <2>3 DEF SyncAll, TypeOK, given, ghosts
  <1>3. CASE PullEnds \/ Switch
    <2>1. missed' \in [Actors -> SUBSET (Variants \cup {Config})]
      BY <1>3, CommitTyped DEF PullEnds, Switch, ConfigWritten
    <2>2. enabled' \in BOOLEAN
      <3>1. enabled \in BOOLEAN
        BY DEF TypeOK
      <3>2. enabled' = enabled \/ enabled' = ~enabled
        BY <1>3, Zenon DEF PullEnds, Switch
      <3> QED
        BY <3>1, <3>2
    <2>3. pushes' \in Nat
      BY <1>3 DEF PullEnds, Switch, ConfigWritten, TypeOK
    <2> QED
      BY <1>3, <2>1, <2>2, <2>3 DEF PullEnds, Switch, ConfigWritten, TypeOK, ghosts
  <1>4. CASE JobSkip
    <2>1. \/ /\ \E v \in Variants, f \in Field :
                  /\ queue[v][f] > 0
                  /\ queue'  = [queue EXCEPT ![v][f] = @ - 1]
                  /\ unsent' = unsent \cup {<<v, f>>}
             /\ UNCHANGED batches
          \/ /\ \E b \in Batches :
                  /\ batches[b] > 0
                  /\ batches' = [batches EXCEPT ![b] = @ - 1]
                  /\ unsent'  = unsent \cup (b \X Field)
             /\ UNCHANGED queue
      BY <1>4 DEF JobSkip
    <2>2. queue' \in [Variants -> [Field -> Nat]]
      BY <2>1 DEF TypeOK
    <2>3. batches' \in [SUBSET Variants -> Nat]
      <3>1. batches \in [SUBSET Variants -> Nat]
        BY DEF TypeOK
      <3>2. ASSUME NEW b \in Batches, batches[b] > 0, batches' = [batches EXCEPT ![b] = @ - 1]
            PROVE  batches' \in [SUBSET Variants -> Nat]
        <4>1. b \in SUBSET Variants
          BY SetsTyped
        <4>2. batches[b] - 1 \in Nat
          BY <3>1, <3>2, <4>1
        <4> QED
          BY <3>1, <3>2, <4>1, <4>2
      <3> QED
        BY <2>1, <3>1, <3>2
    <2>4. unsent' \in SUBSET (Variants \X Field)
      <3>1. \A b \in Batches : b \X Field \subseteq Variants \X Field
        BY SetsTyped
      <3>2. \A v \in Variants, f \in Field : {<<v, f>>} \subseteq Variants \X Field
        OBVIOUS
      <3>3. unsent \subseteq Variants \X Field
        BY DEF TypeOK
      <3>4. \E new \in SUBSET (Variants \X Field) : unsent' = unsent \cup new
        BY <2>1, <3>1, <3>2
      <3> QED
        BY <3>3, <3>4
    <2> QED
      BY <1>4, <2>2, <2>3, <2>4 DEF JobSkip, TypeOK, given, push, budgets
  <1> QED
    BY <1>1, <1>2, <1>3, <1>4

\* How a push begins.
Begins(a, vs, fs, isBatch) ==
  /\ Begin(a, vs, fs, isBatch)
  /\ \A v \in Variants, f \in Field :
       \/ v \in vs /\ f \in fs
       \/ /\ queue'[v][f] = queue[v][f]
          /\ \A b \in Batches : v \in b => batches'[b] = batches[b]
  /\ isBatch /\ a \in Workers => vs \in Batches
  /\ queue' \in [Variants -> [Field -> Nat]]
  /\ batches' \in [SUBSET Variants -> Nat]
  /\ changes' \in Nat /\ pushes' \in Nat /\ failures' \in Nat

\* It takes at most one job, of the fields it will push.
LEMMA BeginCases ==
  ASSUME TypeOK,
         \/ \E w \in Workers : \/ \E v \in Variants, f \in Field : JobBegin(w, v, f)
                               \/ \E b \in Batches : BatchBegin(w, b)
         \/ CronBegin
         \/ \E u \in Users, v \in Variants : UserBegin(u, v)
  PROVE  \E a \in Actors, vs \in SUBSET Variants, fs \in SUBSET Field, isBatch \in BOOLEAN :
           Begins(a, vs, fs, isBatch)
PROOF
  <1>1. ASSUME NEW w \in Workers, NEW v \in Variants, NEW f \in Field, JobBegin(w, v, f)
        PROVE  Begins(w, {v}, {f}, FALSE)
    <2>1. /\ queue[v][f] \in Nat /\ queue[v][f] > 0
          /\ queue' = [queue EXCEPT ![v][f] = @ - 1]
          /\ UNCHANGED <<batches, changes, pushes, failures>>
          /\ Begin(w, {v}, {f}, FALSE)
      <3>1. queue[v][f] \in Nat
        BY DEF TypeOK
      <3> QED
        BY <1>1, <3>1 DEF JobBegin
    <2>2. queue' \in [Variants -> [Field -> Nat]]
      BY <2>1 DEF TypeOK
    <2>3. \A u \in Variants, g \in Field : (u # v \/ g # f) => queue'[u][g] = queue[u][g]
      BY <2>1 DEF TypeOK
    <2> QED
      BY <2>1, <2>2, <2>3 DEF Begins, TypeOK
  <1>2. ASSUME NEW w \in Workers, NEW b \in Batches, BatchBegin(w, b)
        PROVE  Begins(w, b, Field, TRUE)
    <2>1. b \in SUBSET Variants
      BY SetsTyped
    <2>2. /\ batches[b] \in Nat /\ batches[b] > 0
          /\ batches' = [batches EXCEPT ![b] = @ - 1]
          /\ UNCHANGED <<queue, changes, pushes, failures>>
          /\ Begin(w, b, Field, TRUE)
      BY <1>2, <2>1 DEF BatchBegin, TypeOK
    <2>3. batches' \in [SUBSET Variants -> Nat]
      BY <2>1, <2>2 DEF TypeOK
    <2>4. \A c \in Batches : c # b => batches'[c] = batches[c]
      BY <2>2, SetsTyped DEF TypeOK
    <2> QED
      BY <2>2, <2>3, <2>4 DEF Begins, TypeOK
  <1>3. CASE CronBegin
    <2>1. Cron \in Actors /\ Cron \notin Workers
      BY ProductAssumption DEF Actors
    <2>2. Begins(Cron, Collected(row), Field, TRUE)
      BY <1>3, <2>1 DEF CronBegin, Begins, TypeOK
    <2> QED
      BY <2>1, <2>2, SetsTyped
  <1>4. ASSUME NEW u \in Users, NEW v \in Variants, UserBegin(u, v)
        PROVE  Begins(u, {v}, Field, FALSE)
    <2>1. Begin(u, {v}, Field, FALSE) /\ UNCHANGED <<queue, batches, changes, failures>>
      BY <1>4 DEF UserBegin
    <2>2. pushes' \in Nat
      BY <1>4 DEF UserBegin, TypeOK
    <2> QED
      BY <2>1, <2>2 DEF Begins, TypeOK
  <1>5. \A w \in Workers \cup Users : w \in Actors
    BY DEF Actors
  <1>6. \A v \in Variants : {v} \in SUBSET Variants
    OBVIOUS
  <1>7. \A f \in Field : {f} \in SUBSET Field
    OBVIOUS
  <1> QED
    BY <1>1, <1>2, <1>3, <1>4, <1>5, <1>6, <1>7, SetsTyped

\* Every step keeps the types.
LEMMA TypeStep ==
  ASSUME TypeOK, [Next]_vars
  PROVE  TypeOK'
PROOF
  <1>1. CASE UNCHANGED vars
    BY <1>1 DEF TypeOK, vars, push, given, budgets, ghosts
  <1>2. ASSUME NEW a \in Actors, NEW vs \in SUBSET Variants, NEW fs \in SUBSET Field,
               NEW isBatch \in BOOLEAN, Begins(a, vs, fs, isBatch)
        PROVE  TypeOK'
    BY <1>2, TypeStepBegin DEF Begins
  <1>3. \A u \in Users : u \in Actors
    BY DEF Actors
  <1> QED
    BY <1>1, <1>2, <1>3, BeginCases, TypeStepPush, TypeStepRerun, TypeStepOthers DEF Next

-----------------------------------------------------------------------------
(* Goals *)

\* A push that begins has a goal of the kind,
LEMMA GoalsBegin ==
  ASSUME TypeOK, GoalsOK, NEW a \in Actors, NEW vs \in SUBSET Variants, NEW fs \in SUBSET Field,
         NEW isBatch \in BOOLEAN, Begins(a, vs, fs, isBatch)
  PROVE  GoalsOK'
PROOF
  <1>1. /\ pc'[a] = "open"
        /\ goal'[a] = [variants |-> vs, fields |-> fs, batch |-> isBatch]
        /\ todo' = todo /\ todo[a] = {}
        /\ \A b \in Actors \ {a} : pc'[b] = pc[b] /\ goal'[b] = goal[b]
    BY DEF Begins, Begin, TypeOK, GoalsOK
  <1>2. goal'[a].variants = vs /\ goal'[a].batch = isBatch
    BY <1>1
  <1>3. isBatch /\ a \in Workers => vs \in Batches
    BY DEF Begins
  <1>4. /\ pc'[a] = "idle" => goal'[a].variants = {}
        /\ todo'[a] \subseteq goal'[a].variants
        /\ a \in Workers /\ goal'[a].batch => goal'[a].variants \in Batches
    BY <1>1, <1>2, <1>3
  <1> QED
    BY <1>1, <1>4 DEF GoalsOK

\* one that ends has none,
LEMMA GoalsEnd ==
  ASSUME TypeOK, GoalsOK, NEW a \in Actors, End(a)
  PROVE  GoalsOK'
PROOF
  <1>1. /\ pc'[a] = "idle" /\ goal'[a] = Nothing /\ todo'[a] = {}
        /\ \A b \in Actors \ {a} : pc'[b] = pc[b] /\ goal'[b] = goal[b] /\ todo'[b] = todo[b]
    BY DEF End, TypeOK
  <1> QED
    BY <1>1 DEF GoalsOK, Nothing

\* and one under way keeps it.
LEMMA GoalsKept ==
  ASSUME TypeOK, GoalsOK, NEW a \in Actors, goal' = goal,
         pc[a] # "idle", pc'[a] # "idle", todo'[a] \subseteq goal[a].variants,
         \A b \in Actors \ {a} : pc'[b] = pc[b] /\ todo'[b] = todo[b]
  PROVE  GoalsOK'
PROOF BY DEF GoalsOK

\* Every step keeps the goals.
LEMMA GoalsStep ==
  ASSUME TypeOK, GoalsOK, [Next]_vars
  PROVE  GoalsOK'
PROOF
  <1>1. ASSUME UNCHANGED <<pc, goal, todo>>
        PROVE  GoalsOK'
    BY <1>1 DEF GoalsOK
  <1>2. CASE UNCHANGED vars
    BY <1>1, <1>2 DEF vars, push
  <1>3. ASSUME NEW a \in Actors, Push(a)
        PROVE  GoalsOK'
    <2>1. CASE PushPrepare(a)
      <3>1. pc[a] # "idle" /\ pc'[a] # "idle" /\ todo'[a] = goal[a].variants /\ goal' = goal
        BY <2>1 DEF PushPrepare, TypeOK
      <3>2. \A b \in Actors \ {a} : pc'[b] = pc[b] /\ todo'[b] = todo[b]
        BY <2>1 DEF PushPrepare, TypeOK
      <3> QED
        BY <3>1, <3>2, GoalsKept
    <2>2. CASE PushSend(a)
      <3>1. /\ pc[a] = "sending" /\ pc' = pc /\ goal' = goal
            /\ \E b \in SUBSET todo[a] : todo' = [todo EXCEPT ![a] = @ \ b]
        BY <2>2 DEF PushSend
      <3>2. /\ todo'[a] \subseteq todo[a]
            /\ \A b \in Actors \ {a} : todo'[b] = todo[b]
        BY <3>1 DEF TypeOK
      <3>3. todo'[a] \subseteq goal[a].variants
        BY <3>2 DEF GoalsOK
      <3> QED
        BY <3>1, <3>2, <3>3, GoalsKept
    <2>3. CASE PushCommit(a)
      BY <2>3, GoalsEnd DEF PushCommit
    <2>4. CASE PushRefused(a) \/ PushCrash(a)
      BY <2>4, GoalsEnd DEF PushRefused, PushCrash, Abandon
    <2> QED
      BY <1>3, <2>1, <2>2, <2>3, <2>4 DEF Push
  <1>4. ASSUME NEW u \in Users, PushRerun(u)
        PROVE  GoalsOK'
    <2>1. u \in Actors
      BY DEF Actors
    <2>2. pc[u] # "idle" /\ pc'[u] # "idle" /\ todo'[u] = {} /\ goal' = goal
      BY <1>4, <2>1 DEF PushRerun, Overtaken, TypeOK
    <2>3. \A b \in Actors \ {u} : pc'[b] = pc[b] /\ todo'[b] = todo[b]
      BY <1>4, <2>1 DEF PushRerun, TypeOK
    <2> QED
      BY <2>1, <2>2, <2>3, GoalsKept
  <1>5. ASSUME \/ \E v \in Variants, f \in Field : Change(v, f)
               \/ SyncAll \/ PullEnds \/ JobSkip \/ Switch
        PROVE  GoalsOK'
    BY <1>1, <1>5 DEF Change, SyncAll, PullEnds, JobSkip, Switch, ConfigWritten, push
  <1> QED
    BY <1>2, <1>3, <1>4, <1>5, BeginCases, GoalsBegin DEF Next

-----------------------------------------------------------------------------
(* Fields *)

\* A step that leaves a field and its pushes alone, but for further jobs and
\* further commits they miss, keeps what is known of it.
LEMMA FieldKept ==
  ASSUME NEW v \in Variants, NEW f \in Field,
         Coming(v, f) \/ RightSoFar(v, f),
         Acting(v, f)' = Acting(v, f),
         queue[v][f] > 0 => queue'[v][f] > 0,
         \A b \in Batches : v \in b /\ batches[b] > 0 => batches'[b] > 0,
         remote'[v][f] = remote[v][f], current'[v][f] = current[v][f],
         \A a \in Acting(v, f) :
           /\ v \in missed[a] => v \in missed'[a]
           /\ seen'[a] = seen[a]
           /\ v \in (Sent(a) \ refused[a])' => v \in Sent(a) \ refused[a]
  PROVE  Coming(v, f)' \/ RightSoFar(v, f)'
PROOF
  <1>1. CASE Coming(v, f)
    BY <1>1 DEF Coming
  <1>2. CASE Acting(v, f) = {} /\ Right(v, f)
    BY <1>2 DEF RightSoFar, Right
  <1>3. ASSUME NEW a \in Actors, Acting(v, f) = {a},
               seen[a].current[v][f] = current[v][f],
               v \in Sent(a) \ refused[a] => Right(v, f)
        PROVE  RightSoFar(v, f)'
    <2>1. a \in Acting(v, f)
      BY <1>3
    <2>2. Acting(v, f)' = {a} /\ seen'[a].current[v][f] = current'[v][f]
      BY <1>3, <2>1
    <2>3. v \in (Sent(a) \ refused[a])' => Right(v, f)'
      BY <1>3, <2>1 DEF Right
    <2> QED
      BY <2>2, <2>3 DEF RightSoFar
  <1> QED
    BY <1>1, <1>2, <1>3 DEF RightSoFar

\* What pushes under way see of a commit of others: the rows are missed.
LEMMA CommitMissed ==
  ASSUME TypeOK, GoalsOK, NEW a, NEW rows, Commit(a, rows),
         NEW v \in Variants, NEW f \in Field, NEW b \in Acting(v, f), b # a
  PROVE  missed'[b] = missed[b] \cup rows
PROOF
  <1>1. b \in Actors /\ pc[b] # "idle"
    BY DEF Acting, GoalsOK
  <1> QED
    BY <1>1 DEF Commit

\* A push that has nothing sent: it is right when it has seen the present
\* values, or there is another.
LEMMA FreshPush ==
  ASSUME NEW v \in Variants, NEW f \in Field, NEW a \in Acting(v, f)',
         seen'[a].current = current', pc'[a] = "open"
  PROVE  Coming(v, f)' \/ RightSoFar(v, f)'
PROOF
  <1>1. a \in Actors
    BY DEF Acting
  <1>2. CASE \E b \in Acting(v, f)' : b # a
    BY <1>2 DEF Coming
  <1>3. CASE Acting(v, f)' = {a}
    <2>1. Sent(a)' = {}
      BY DEF Sent
    <2> QED
      BY <1>1, <1>3, <2>1 DEF RightSoFar
  <1> QED
    BY <1>2, <1>3

\* A push begins.
LEMMA FieldsBegin ==
  ASSUME TypeOK, GoalsOK, FieldsPushed, NEW a \in Actors, NEW vs \in SUBSET Variants,
         NEW fs \in SUBSET Field, NEW isBatch \in BOOLEAN, Begins(a, vs, fs, isBatch)
  PROVE  FieldsPushed'
PROOF
  <1> SUFFICES ASSUME NEW v \in Variants, NEW f \in Field, <<v, f>> \notin (unsent \cup stray)'
               PROVE  Coming(v, f)' \/ RightSoFar(v, f)'
    BY DEF FieldsPushed, Pushed
  <1>1. /\ pc[a] = "idle" /\ pc'[a] = "open" /\ seen'[a].current = current'
        /\ goal'[a] = [variants |-> vs, fields |-> fs, batch |-> isBatch]
        /\ \A b \in Actors \ {a} :
             pc'[b] = pc[b] /\ goal'[b] = goal[b] /\ seen'[b] = seen[b]
        /\ UNCHANGED <<current, remote, todo, refused, missed, stray>>
        /\ unsent' = unsent \ (vs \X fs)
    BY DEF Begins, Begin, TypeOK
  <1>2. goal'[a].variants = vs /\ goal'[a].fields = fs
    BY <1>1
  <1>3. CASE v \in vs /\ f \in fs
    <2>1. a \in Acting(v, f)'
      BY <1>2, <1>3 DEF Acting
    <2> QED
      BY <1>1, <2>1, FreshPush
  <1>4. CASE ~(v \in vs /\ f \in fs)
    <2>1. a \notin Acting(v, f) /\ Acting(v, f)' = Acting(v, f)
      BY <1>1, <1>2, <1>4 DEF Acting, GoalsOK
    <2>2. Coming(v, f) \/ RightSoFar(v, f)
      BY <1>1, <1>4 DEF FieldsPushed, Pushed
    <2>3. /\ queue'[v][f] = queue[v][f]
          /\ \A b \in Batches : v \in b => batches'[b] = batches[b]
      BY <1>4 DEF Begins
    <2>4. \A b \in Acting(v, f) : seen'[b] = seen[b] /\ Sent(b)' = Sent(b)
      <3> TAKE b \in Acting(v, f)
      <3>1. b \in Actors \ {a}
        BY <2>1 DEF Acting
      <3> QED
        BY <1>1, <3>1 DEF Sent
    <2> QED
      BY <1>1, <2>1, <2>2, <2>3, <2>4, FieldKept
  <1> QED
    BY <1>3, <1>4

\* It inserts its rows: nothing is sent yet.
LEMMA FieldsPrepare ==
  ASSUME TypeOK, GoalsOK, FieldsPushed, NEW a \in Actors, PushPrepare(a)
  PROVE  FieldsPushed'
PROOF
  <1> SUFFICES ASSUME NEW v \in Variants, NEW f \in Field, <<v, f>> \notin (unsent \cup stray)'
               PROVE  Coming(v, f)' \/ RightSoFar(v, f)'
    BY DEF FieldsPushed, Pushed
  <1>1. UNCHANGED <<remote, current, queue, batches, goal, seen, refused, missed, unsent, stray>>
    BY DEF PushPrepare, ghosts
  <1>2. Acting(v, f)' = Acting(v, f) /\ (Coming(v, f) \/ RightSoFar(v, f))
    BY <1>1 DEF Acting, FieldsPushed, Pushed
  <1>3. Sent(a)' = {}
    BY <1>1 DEF PushPrepare, Sent, TypeOK
  <1>4. \A b \in Actors \ {a} : Sent(b)' = Sent(b)
    BY DEF PushPrepare, Sent, TypeOK
  <1>5. \A b \in Acting(v, f) : v \in (Sent(b) \ refused[b])' => v \in Sent(b) \ refused[b]
    BY <1>1, <1>3, <1>4 DEF Acting
  <1> QED
    BY <1>1, <1>2, <1>5, FieldKept

\* It sends a batch: the only push of a field sends the present value, or has
\* the answer that it was refused.
LEMMA FieldsSend ==
  ASSUME TypeOK, GoalsOK, FieldsPushed, NEW a \in Actors, PushSend(a)
  PROVE  FieldsPushed'
PROOF
  <1> SUFFICES ASSUME NEW v \in Variants, NEW f \in Field, <<v, f>> \notin (unsent \cup stray)'
               PROVE  Coming(v, f)' \/ RightSoFar(v, f)'
    BY DEF FieldsPushed, Pushed
  <1>1. PICK b \in SUBSET todo[a] :
          /\ pc[a] = "sending"
          /\ todo' = [todo EXCEPT ![a] = @ \ b]
          /\ UNCHANGED <<current, queue, batches, pc, goal, seen, missed, unsent, stray>>
          /\ \/ Refuse(a, b) /\ (Send(a, b) \/ UNCHANGED remote)
             \/ Send(a, b) /\ UNCHANGED refused
    BY DEF PushSend, ghosts
  <1>2. Acting(v, f)' = Acting(v, f) /\ (Coming(v, f) \/ RightSoFar(v, f))
    BY <1>1 DEF Acting, FieldsPushed, Pushed
  <1>3. \A c \in Actors \ {a} : Sent(c)' = Sent(c) /\ refused'[c] = refused[c]
    BY <1>1 DEF Sent, Refuse, TypeOK
  <1>4. b \subseteq goal[a].variants
    BY <1>1 DEF GoalsOK
  <1>5. CASE a \in Acting(v, f) /\ v \in b
    <2>1. CASE Coming(v, f)
      BY <1>1, <1>2, <2>1 DEF Coming
    <2>2. CASE ~Coming(v, f)
      <3>1. Acting(v, f) = {a} /\ seen[a].current[v][f] = current[v][f]
        BY <1>2, <1>5, <2>2 DEF RightSoFar
      <3>2. CASE Refuse(a, b)
        <4>1. v \in refused'[a]
          BY <1>5, <3>2 DEF Refuse, TypeOK
        <4> QED
          BY <1>1, <1>2, <3>1, <4>1 DEF RightSoFar
      <3>3. CASE Send(a, b)
        <4>1. <<v, f>> \in Pairs(a, b)
          BY <1>5 DEF Acting, Pairs
        <4>2. remote'[v][f] = seen[a].current[v][f]
          BY <3>3, <4>1 DEF Send
        <4> QED
          BY <1>1, <1>2, <3>1, <4>2 DEF RightSoFar, Right
      <3> QED
        BY <1>1, <3>2, <3>3
    <2> QED
      BY <2>1, <2>2
  <1>6. CASE a \notin Acting(v, f) \/ v \notin b
    <2>1. <<v, f>> \notin Pairs(a, b)
      BY <1>4, <1>6 DEF Acting, Pairs
    <2>2. remote'[v][f] = remote[v][f]
      BY <1>1, <2>1 DEF Send
    <2>3. v \notin b => (v \in (Sent(a) \ refused[a])' => v \in Sent(a) \ refused[a])
      BY <1>1 DEF Sent, Refuse, TypeOK
    <2>4. \A c \in Acting(v, f) : v \in (Sent(c) \ refused[c])' => v \in Sent(c) \ refused[c]
      BY <1>3, <1>6, <2>3 DEF Acting
    <2> QED
      BY <1>1, <1>2, <2>2, <2>4, FieldKept
  <1> QED
    BY <1>5, <1>6

\* What a push that ends leaves of the others.
LEMMA EndFacts ==
  ASSUME TypeOK, NEW a \in Actors, End(a), NEW v \in Variants, NEW f \in Field
  PROVE  /\ Acting(v, f)' = Acting(v, f) \ {a}
         /\ \A b \in Actors \ {a} :
              seen'[b] = seen[b] /\ Sent(b)' = Sent(b) /\ refused'[b] = refused[b]
PROOF
  <1>1. goal'[a] = Nothing /\ \A b \in Actors \ {a} : goal'[b] = goal[b]
    BY DEF End, TypeOK
  <1>2. Acting(v, f)' = Acting(v, f) \ {a}
    BY <1>1 DEF Acting, Nothing
  <1>3. \A b \in Actors \ {a} :
          seen'[b] = seen[b] /\ Sent(b)' = Sent(b) /\ refused'[b] = refused[b]
    BY <1>1 DEF End, TypeOK, Sent
  <1> QED
    BY <1>2, <1>3

\* It commits: any other push of its fields has missed that and will be
\* refused, and if there is none, it sent the present value or was refused.
LEMMA FieldsCommit ==
  ASSUME TypeOK, GoalsOK, FieldsPushed, NEW a \in Actors, PushCommit(a)
  PROVE  FieldsPushed'
PROOF
  <1> SUFFICES ASSUME NEW v \in Variants, NEW f \in Field, <<v, f>> \notin (unsent \cup stray)'
               PROVE  Coming(v, f)' \/ RightSoFar(v, f)'
    BY DEF FieldsPushed, Pushed
  <1>1. /\ pc[a] = "sending" /\ todo[a] = {}
        /\ Claimed(a) \cap missed[a] = {}
        /\ UNCHANGED <<current, remote, queue, batches, stray>>
        /\ unsent' = unsent \cup Pairs(a, refused[a])
        /\ Commit(a, Claimed(a)) /\ End(a)
    BY DEF PushCommit
  <1>2. Coming(v, f) \/ RightSoFar(v, f)
    BY <1>1 DEF FieldsPushed, Pushed
  <1>3. /\ Acting(v, f)' = Acting(v, f) \ {a}
        /\ \A b \in Actors \ {a} :
             seen'[b] = seen[b] /\ Sent(b)' = Sent(b) /\ refused'[b] = refused[b]
    BY <1>1, EndFacts
  <1>4. \A b \in Acting(v, f) \ {a} : missed'[b] = missed[b] \cup Claimed(a)
    BY <1>1, CommitMissed
  <1>5. CASE a \notin Acting(v, f)
    <2>1. \A b \in Acting(v, f) :
            /\ v \in missed[b] => v \in missed'[b]
            /\ seen'[b] = seen[b]
            /\ v \in (Sent(b) \ refused[b])' => v \in Sent(b) \ refused[b]
      BY <1>3, <1>4, <1>5 DEF Acting
    <2> QED
      BY <1>1, <1>2, <1>3, <1>5, <2>1, FieldKept
  <1>6. CASE a \in Acting(v, f)
    <2>1. v \in Sent(a) /\ v \in Claimed(a) /\ v \notin missed[a]
      BY <1>1, <1>6 DEF Acting, Sent, Claimed
    <2>2. CASE \E b \in Acting(v, f) : b # a
      <3>1. PICK b \in Acting(v, f) : b # a
        BY <2>2
      <3>2. v \in missed'[b] /\ b \in Acting(v, f)'
        BY <1>3, <1>4, <2>1, <3>1
      <3> QED
        BY <3>2 DEF Coming
    <2>3. CASE Acting(v, f) = {a}
      <3>1. CASE queue[v][f] > 0 \/ \E b \in Batches : v \in b /\ batches[b] > 0
        BY <1>1, <3>1 DEF Coming
      <3>2. CASE ~(queue[v][f] > 0 \/ \E b \in Batches : v \in b /\ batches[b] > 0)
        <4>1. ~Coming(v, f)
          BY <2>1, <2>3, <3>2 DEF Coming
        <4>2. <<v, f>> \notin Pairs(a, refused[a])
          BY <1>1
        <4>3. v \notin refused[a]
          BY <1>6, <4>2 DEF Acting, Pairs
        <4>4. Right(v, f)
          BY <1>2, <2>1, <2>3, <4>1, <4>3 DEF RightSoFar
        <4>5. Right(v, f)' /\ Acting(v, f)' = {}
          BY <1>1, <1>3, <2>3, <4>4 DEF Right
        <4> QED
          BY <4>5 DEF RightSoFar
      <3> QED
        BY <3>1, <3>2
    <2> QED
      BY <1>6, <2>2, <2>3
  <1> QED
    BY <1>5, <1>6

\* It is rolled back: a job waits again, the fields of others are stray.
LEMMA FieldsAbandon ==
  ASSUME TypeOK, GoalsOK, FieldsPushed, NEW a \in Actors, Abandon(a)
  PROVE  FieldsPushed'
PROOF
  <1> SUFFICES ASSUME NEW v \in Variants, NEW f \in Field, <<v, f>> \notin (unsent \cup stray)'
               PROVE  Coming(v, f)' \/ RightSoFar(v, f)'
    BY DEF FieldsPushed, Pushed
  <1>1. /\ Commit(a, {}) /\ End(a)
        /\ UNCHANGED <<remote, current, unsent>>
        /\ stray \subseteq stray'
        /\ a \notin Workers => stray' = stray \cup Pairs(a, goal[a].variants)
        /\ a \notin Workers => UNCHANGED <<queue, batches>>
    BY DEF Abandon
  <1>2. Coming(v, f) \/ RightSoFar(v, f)
    BY <1>1 DEF FieldsPushed, Pushed
  <1>3. ASSUME a \in Workers
        PROVE  /\ batches' = IF goal[a].batch THEN [batches EXCEPT ![goal[a].variants] = @ + 1]
                                              ELSE batches
               /\ queue'[v][f] =
                    IF ~goal[a].batch /\ <<v, f>> \in Pairs(a, goal[a].variants)
                      THEN queue[v][f] + 1 ELSE queue[v][f]
    BY <1>3 DEF Abandon
  <1>4. queue[v][f] \in Nat /\ goal[a].variants \in SUBSET Variants
    BY DEF TypeOK, Goal
  <1>5. \A b \in SUBSET Variants : batches[b] \in Nat
    BY DEF TypeOK
  <1>6. CASE a \in Acting(v, f)
    <2>1. v \in goal[a].variants /\ <<v, f>> \in Pairs(a, goal[a].variants)
      BY <1>6 DEF Acting, Pairs
    <2>2. a \in Workers
      BY <1>1, <2>1
    <2>3. CASE goal[a].batch
      <3>1. goal[a].variants \in Batches
        BY <2>2, <2>3 DEF GoalsOK
      <3>2. batches' = [batches EXCEPT ![goal[a].variants] = @ + 1]
        BY <1>3, <2>2, <2>3
      <3>3. batches'[goal[a].variants] > 0
        <4>1. batches \in [SUBSET Variants -> Nat]
          BY DEF TypeOK
        <4> QED
          BY <1>4, <3>2, <4>1
      <3> QED
        BY <2>1, <3>1, <3>3 DEF Coming
    <2>4. CASE ~goal[a].batch
      <3>1. queue'[v][f] > 0
        BY <1>3, <1>4, <2>1, <2>2, <2>4
      <3> QED
        BY <3>1 DEF Coming
    <2> QED
      BY <2>3, <2>4
  <1>7. CASE a \notin Acting(v, f)
    <2>1. /\ Acting(v, f)' = Acting(v, f)
          /\ \A b \in Actors \ {a} :
               seen'[b] = seen[b] /\ Sent(b)' = Sent(b) /\ refused'[b] = refused[b]
      BY <1>1, <1>7, EndFacts
    <2>2. \A b \in Acting(v, f) : missed'[b] = missed[b]
      <3> TAKE b \in Acting(v, f)
      <3>1. b # a /\ Commit(a, {})
        BY <1>1, <1>7
      <3>2. missed'[b] = missed[b] \cup {}
        BY <3>1 DEF Commit, GoalsOK, Acting
      <3> QED
        BY <3>2
    <2>3. queue[v][f] > 0 => queue'[v][f] > 0
      BY <1>1, <1>3, <1>4
    <2>4. \A b \in Batches : batches[b] > 0 => batches'[b] > 0
      <3>1. CASE a \notin Workers \/ ~goal[a].batch
        BY <1>1, <1>3, <3>1
      <3>2. CASE a \in Workers /\ goal[a].batch
        <4>1. batches' = [batches EXCEPT ![goal[a].variants] = @ + 1]
          BY <1>3, <3>2
        <4> QED
          BY <1>4, <1>5, <4>1, SetsTyped DEF TypeOK
      <3> QED
        BY <3>1, <3>2
    <2>5. \A b \in Acting(v, f) :
            /\ v \in missed[b] => v \in missed'[b]
            /\ seen'[b] = seen[b]
            /\ v \in (Sent(b) \ refused[b])' => v \in Sent(b) \ refused[b]
      BY <1>7, <2>1, <2>2 DEF Acting
    <2> QED
      BY <1>1, <1>2, <2>1, <2>3, <2>4, <2>5, FieldKept
  <1> QED
    BY <1>6, <1>7

\* It runs again, with a new snapshot.
LEMMA FieldsRerun ==
  ASSUME TypeOK, GoalsOK, FieldsPushed, NEW u \in Actors, PushRerun(u)
  PROVE  FieldsPushed'
PROOF
  <1> SUFFICES ASSUME NEW v \in Variants, NEW f \in Field, <<v, f>> \notin (unsent \cup stray)'
               PROVE  Coming(v, f)' \/ RightSoFar(v, f)'
    BY DEF FieldsPushed, Pushed
  <1>1. /\ pc'[u] = "open" /\ seen'[u].current = current'
        /\ UNCHANGED <<current, remote, queue, batches, goal, stray>>
        /\ unsent' = unsent \ Pairs(u, goal[u].variants)
        /\ Commit(u, {})
        /\ \A b \in Actors \ {u} :
             pc'[b] = pc[b] /\ seen'[b] = seen[b] /\ todo'[b] = todo[b] /\ refused'[b] = refused[b]
    BY DEF PushRerun, TypeOK
  <1>2. Acting(v, f)' = Acting(v, f)
    BY <1>1 DEF Acting
  <1>3. CASE u \in Acting(v, f)
    BY <1>1, <1>2, <1>3, FreshPush
  <1>4. CASE u \notin Acting(v, f)
    <2>1. <<v, f>> \notin Pairs(u, goal[u].variants)
      BY <1>4 DEF Acting, Pairs
    <2>2. Coming(v, f) \/ RightSoFar(v, f)
      BY <1>1, <2>1 DEF FieldsPushed, Pushed
    <2>3. \A b \in Acting(v, f) : b \in Actors \ {u} /\ missed'[b] = missed[b]
      <3> TAKE b \in Acting(v, f)
      <3>1. b \in Actors /\ b # u /\ Commit(u, {})
        BY <1>1, <1>4 DEF Acting
      <3>2. missed'[b] = missed[b] \cup {}
        BY <3>1 DEF Commit, GoalsOK, Acting
      <3> QED
        BY <3>1, <3>2
    <2>4. \A b \in Acting(v, f) : Sent(b)' = Sent(b)
      BY <1>1, <2>3 DEF Sent
    <2> QED
      BY <1>1, <1>2, <2>2, <2>3, <2>4, FieldKept
  <1> QED
    BY <1>3, <1>4

\* Other transactions: a change has a job, or is not pushed.
LEMMA FieldsOthers ==
  ASSUME TypeOK, GoalsOK, FieldsPushed,
         \/ \E v \in Variants, f \in Field : Change(v, f)
         \/ SyncAll \/ PullEnds \/ JobSkip \/ Switch
  PROVE  FieldsPushed'
PROOF
  <1> SUFFICES ASSUME NEW v \in Variants, NEW f \in Field, <<v, f>> \notin (unsent \cup stray)'
               PROVE  Coming(v, f)' \/ RightSoFar(v, f)'
    BY DEF FieldsPushed, Pushed
  <1>1. /\ UNCHANGED <<remote, pc, goal, seen, todo, refused, stray>>
        /\ unsent \subseteq unsent'
    BY DEF Change, SyncAll, PullEnds, JobSkip, Switch, ConfigWritten, push, ghosts
  <1>2. Acting(v, f)' = Acting(v, f) /\ (Coming(v, f) \/ RightSoFar(v, f))
    BY <1>1 DEF Acting, FieldsPushed, Pushed
  <1>3. \A b \in Acting(v, f) : seen'[b] = seen[b] /\ (Sent(b) \ refused[b])' = Sent(b) \ refused[b]
    BY <1>1 DEF Sent
  <1>4. Config \notin Actors
    BY ProductAssumption DEF Actors
  <1>5. /\ queue[v][f] \in Nat
        /\ \A b \in Batches : batches[b] \in Nat
    BY SetsTyped DEF TypeOK
  <1>6. ASSUME UNCHANGED missed \/ \E rows : Commit(Config, rows)
        PROVE  \A b \in Acting(v, f) : v \in missed[b] => v \in missed'[b]
    <2>1. \A b \in Acting(v, f) : b # Config
      BY <1>4 DEF Acting
    <2> QED
      BY <1>6, <2>1, CommitMissed
  <1>7. ASSUME NEW u \in Variants, NEW g \in Field, Change(u, g)
        PROVE  Coming(v, f)' \/ RightSoFar(v, f)'
    <2>1. CASE u = v /\ g = f
      <3>1. queue' = [queue EXCEPT ![u][g] = @ + 1]
        BY <1>7, <2>1 DEF Change
      <3>2. queue'[v][f] > 0
        BY <1>5, <2>1, <3>1 DEF TypeOK
      <3> QED
        BY <3>2 DEF Coming
    <2>2. CASE ~(u = v /\ g = f)
      <3>1. current'[v][f] = current[v][f]
        BY <1>7, <2>2 DEF Change, TypeOK, Versions
      <3>2. queue'[v][f] = queue[v][f]
        BY <1>7, <2>2 DEF Change, TypeOK
      <3>3. UNCHANGED <<batches, missed>>
        BY <1>7 DEF Change, push
      <3> QED
        BY <1>1, <1>2, <1>3, <3>1, <3>2, <3>3, FieldKept
    <2> QED
      BY <2>1, <2>2
  <1>8. CASE SyncAll
    <2>1. UNCHANGED <<current, queue>> /\ \E rows : Commit(Config, rows)
      BY <1>8 DEF SyncAll
    <2>2. \A b \in Batches : batches'[b] = batches[b] + 1
      BY <1>8, SetsTyped DEF SyncAll
    <2>3. \A b \in Batches : batches[b] > 0 => batches'[b] > 0
      BY <1>5, <2>2
    <2> QED
      BY <1>1, <1>2, <1>3, <1>6, <2>1, <2>3, FieldKept
  <1>9. CASE PullEnds \/ Switch
    <2>1. UNCHANGED <<current, queue, batches>> /\ \E rows : Commit(Config, rows)
      BY <1>9 DEF PullEnds, Switch, ConfigWritten
    <2> QED
      BY <1>1, <1>2, <1>3, <1>6, <2>1, FieldKept
  <1>10. CASE JobSkip
    <2>1. UNCHANGED <<current, missed>>
      BY <1>10 DEF JobSkip, push
    <2>2. queue'[v][f] = queue[v][f] /\ \A b \in Batches : v \in b => batches'[b] = batches[b]
      <3>1. ASSUME NEW u \in Variants, NEW g \in Field,
                   queue' = [queue EXCEPT ![u][g] = @ - 1],
                   unsent' = unsent \cup {<<u, g>>}, UNCHANGED batches
            PROVE  <2>2
        <4>1. u # v \/ g # f
          BY <3>1
        <4> QED
          BY <3>1, <4>1 DEF TypeOK
      <3>2. ASSUME NEW b \in Batches, batches' = [batches EXCEPT ![b] = @ - 1],
                   unsent' = unsent \cup (b \X Field), UNCHANGED queue
            PROVE  <2>2
        <4>1. v \notin b
          BY <3>2
        <4> QED
          BY <3>2, <4>1, SetsTyped DEF TypeOK
      <3> QED
        BY <1>10, <3>1, <3>2 DEF JobSkip
    <2> QED
      BY <1>1, <1>2, <1>3, <2>1, <2>2, FieldKept
  <1> QED
    BY <1>7, <1>8, <1>9, <1>10

\* Every step keeps what is known of the fields.
LEMMA FieldsStep ==
  ASSUME TypeOK, GoalsOK, FieldsPushed, [Next]_vars
  PROVE  FieldsPushed'
PROOF
  <1>1. CASE UNCHANGED vars
    BY <1>1 DEF vars, push, given, ghosts, FieldsPushed, Pushed, Coming, RightSoFar, Right,
                Acting, Sent
  <1>2. ASSUME NEW a \in Actors, Push(a)
        PROVE  FieldsPushed'
    BY <1>2, FieldsPrepare, FieldsSend, FieldsCommit, FieldsAbandon
       DEF Push, PushRefused, PushCrash
  <1>3. \A u \in Users : u \in Actors
    BY DEF Actors
  <1> QED
    BY <1>1, <1>2, <1>3, BeginCases, FieldsBegin, FieldsRerun, FieldsOthers DEF Next

-----------------------------------------------------------------------------
(* Theorems *)

\* The invariant holds in every reachable state.
LEMMA IInvAlways == Spec => []IInv
PROOF
  <1>1. Init => IInv
    <2>1. Init => GoalsOK /\ FieldsPushed
      BY DEF Init, GoalsOK, Nothing, FieldsPushed, Pushed
    <2> QED
      BY <2>1, TypeInit DEF IInv
  <1>2. IInv /\ [Next]_vars => IInv'
    BY TypeStep, GoalsStep, FieldsStep DEF IInv
  <1> QED
    BY <1>1, <1>2, PTL DEF Spec

\* Every variable has its type.
THEOREM TypeCorrect == Spec => []TypeOK
PROOF
  <1>1. IInv => TypeOK
    BY DEF IInv
  <1> QED
    BY <1>1, IInvAlways, PTL

\* A variant at rest that is marked as synced has its current values at
\* Cartona, but for fields with a push that failed, was not made or is not
\* repeated: whatever pushes overlapped, the last to commit had missed nothing.
THEOREM SyncedIsRight == Spec => []SyncedIsCurrent
PROOF
  <1>1. IInv => SyncedIsCurrent
    <2> SUFFICES ASSUME IInv, NEW v \in Variants, AtRest(v), NEW f \in Field,
                        <<v, f>> \notin unsent \cup stray
                 PROVE  remote[v][f] = current[v][f]
      BY DEF SyncedIsCurrent
    <2>1. Acting(v, f) = {}
      BY DEF Acting, AtRest
    <2>2. ~Coming(v, f)
      BY <2>1 DEF Coming, AtRest
    <2>3. RightSoFar(v, f)
      BY <2>2 DEF IInv, FieldsPushed, Pushed
    <2> QED
      BY <2>1, <2>3 DEF RightSoFar, Right
  <1> QED
    BY <1>1, IInvAlways, PTL
=============================================================================
