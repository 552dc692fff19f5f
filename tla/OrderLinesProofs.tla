-------------------------- MODULE OrderLinesProofs --------------------------
(***************************************************************************)
(* Proofs about OrderLines, for any lines, workers and pulls: when nothing *)
(* is left to report, Cartona has been told what the order's lines are,    *)
(* and a pull creates lines only for a draft that has none.                *)
(***************************************************************************)
EXTENDS OrderLines, TLAPS

-----------------------------------------------------------------------------
(* The inductive invariant *)

\* Between two commits of the order's row, only the versions of its lines
\* change: a transaction that missed none knows which lines there are.
SeenRight ==
  \A a \in Actors : pc[a] # "idle" /\ ~missed[a] =>
    /\ snap[a].confirmed = confirmed
    /\ \A l \in Line : (snap[a].lines[l] = 0) = (lines[l] = 0)

\* Lines that came from Cartona keep their identifier and stay known to it; a
\* cancellation waits only for a line that is not there, unless a pull has
\* restored it.
Identified ==
  \A l \in Line \ stray :
    /\ l \in Imported => told[l] # 0 /\ (lines[l] # 0 => l \in named)
    /\ l \in Added => l \notin named
    /\ cancels[l] > 0 => lines[l] = 0 /\ l \in Imported

\* A removed line is cancelled, or will be.
RemovedTold ==
  \A l \in Imported \ stray : lines[l] = 0 => cancels[l] > 0 \/ l \in cancelled

\* A report of the lines is to come, because a job waits or because one that
\* runs will be refused: two that run, or one that others have overtaken.
Reporting == {w \in Workers : pc[w] # "idle"}
ReportToCome ==
  \/ details > 0
  \/ \E w \in Reporting : missed[w]
  \/ \E v, w \in Reporting : v # w

\* Otherwise the only report under way has the present lines, and has told
\* them if it was sent; and if there is none, they are told.
LineTold(l) == lines[l] # 0 => told[l] = lines[l] /\ l \notin cancelled
PresentTold ==
  \/ ReportToCome
  \/ Reporting = {} /\ (owed \/ \A l \in Line \ stray : LineTold(l))
  \/ \E w \in Reporting :
       /\ Reporting = {w}
       /\ snap[w].lines = lines
       /\ pc[w] \in {"open", "sent", "refused"}
       /\ pc[w] = "sent" => \A l \in Line \ stray : LineTold(l)

IInv == TypeOK /\ SeenRight /\ Identified /\ RemovedTold /\ PresentTold

-----------------------------------------------------------------------------
(* The steps, one by one *)

\* Every step is one of these.
LEMMA Cases ==
  ASSUME Next
  PROVE  \/ UserConfirm
         \/ \E l \in Line : UserChange(l) \/ UserAdd(l) \/ UserRemove(l) \/ CancelSend(l)
         \/ \E w \in Workers :
              DetailsBegin(w) \/ DetailsSend(w) \/ DetailsCommit(w) \/ DetailsAgain(w)
         \/ \E p \in Pullers :
              \/ PullBegin(p) \/ PullFetch(p)
              \/ PullNothing(p) \/ PullStatus(p) \/ PullRefuse(p) \/ PullRestore(p)
PROOF BY DEF Next, User, Work, Pull

\* A commit of the order's row is missed by every other transaction under way.
LEMMA WriteMisses ==
  ASSUME NEW acts, Write(acts)
  PROVE  \A a \in Actors : missed'[a] = (a \notin acts /\ pc[a] # "idle")
PROOF BY DEF Write

\* The initial states satisfy the invariant.
LEMMA IInvInit ==
  ASSUME Init
  PROVE  IInv
PROOF
  <1>1. TypeOK
    <2>1. lines \in [Line -> Nat] /\ told \in [Line -> Nat]
      BY DEF Init
    <2>2. named \subseteq {l \in Line : lines[l] # 0} /\ stray \subseteq Line
      BY DEF Init, Line
    <2>3. NoSnapshot \in [lines : [Line -> Nat], named : SUBSET Line, confirmed : BOOLEAN]
      BY DEF NoSnapshot, Unlisted
    <2>4. snap \in [Actors -> [lines : [Line -> Nat], named : SUBSET Line, confirmed : BOOLEAN]]
      BY <2>3 DEF Init
    <2>5. Unlisted \in [Line -> Nat]
      BY DEF Unlisted
    <2>6. pc \in [Actors -> {"idle", "open", "sent", "refused", "fetched"}]
      BY DEF Init
    <2>7. missed \in [Actors -> BOOLEAN] /\ got \in [Pullers -> [Line -> Nat]]
      BY <2>5 DEF Init
    <2>8. details \in Nat /\ edits \in Nat /\ failures \in Nat
      BY DEF Init
    <2> QED
      BY <2>1, <2>2, <2>4, <2>5, <2>6, <2>7, <2>8 DEF Init, TypeOK
  <1>2. SeenRight
    BY DEF Init, SeenRight
  <1>3. Identified /\ RemovedTold
    <2>1. \A l \in Line : cancels[l] = 0
      BY DEF Init, Unlisted
    <2>2. \A l \in Imported : lines[l] = 1 /\ told[l] = 1 /\ l \in named
      BY DEF Init, Line
    <2>3. \A l \in Added : l \notin named
      BY LinesAssumption DEF Init
    <2> QED
      BY <2>1, <2>2, <2>3 DEF Identified, RemovedTold
  <1>4. PresentTold
    BY DEF Init, PresentTold, Reporting, LineTold, Actors, Line
  <1> QED
    BY <1>1, <1>2, <1>3, <1>4 DEF IInv

-----------------------------------------------------------------------------
(* Types *)

\* A snapshot has the type of one.
LEMMA SnapshotTyped ==
  ASSUME TypeOK
  PROVE  /\ Snapshot \in [lines : [Line -> Nat], named : SUBSET Line, confirmed : BOOLEAN]
         /\ NoSnapshot \in [lines : [Line -> Nat], named : SUBSET Line, confirmed : BOOLEAN]
PROOF BY DEF TypeOK, Snapshot, NoSnapshot, Unlisted

\* A step of a user keeps the types.
LEMMA TypeStepUser ==
  ASSUME TypeOK, User
  PROVE  TypeOK'
PROOF
  <1> USE LinesAssumption DEF TypeOK, Write, Edit, report, budgets, ghosts
  <1>1. CASE UserConfirm
    BY <1>1 DEF UserConfirm
  <1>2. ASSUME NEW l \in Line, UserChange(l)
        PROVE  TypeOK'
    <2>1. lines' \in [Line -> Nat] /\ \A k \in Line : lines'[k] = 0 <=> lines[k] = 0
      BY <1>2 DEF UserChange
    <2>2. missed' \in [Actors -> BOOLEAN]
      BY <1>2 DEF UserChange
    <2>3. details' \in Nat /\ edits' \in Nat
      BY <1>2 DEF UserChange
    <2> QED
      BY <1>2, <2>1, <2>2, <2>3 DEF UserChange
  <1>3. ASSUME NEW l \in Line, UserAdd(l)
        PROVE  TypeOK'
    BY <1>3 DEF UserAdd
  <1>4. ASSUME NEW l \in Line, UserRemove(l)
        PROVE  TypeOK'
    <2>1. cancels' \in [Line -> Nat]
      BY <1>4 DEF UserRemove, Cancels
    <2>2. /\ lines' \in [Line -> Nat]
          /\ named' \subseteq {k \in Line : lines'[k] # 0}
      BY <1>4 DEF UserRemove
    <2>3. missed' \in [Actors -> BOOLEAN] /\ edits' \in Nat
      BY <1>4 DEF UserRemove
    <2> QED
      BY <1>4, <2>1, <2>2, <2>3 DEF UserRemove
  <1> QED
    BY <1>1, <1>2, <1>3, <1>4 DEF User

\* A step of a job keeps the types.
LEMMA TypeStepWork ==
  ASSUME TypeOK, NEW w \in Workers, Work(w)
  PROVE  TypeOK'
PROOF
  <1> USE LinesAssumption, SnapshotTyped
      DEF TypeOK, Write, NoWrite, Open, Close, Actors, report, budgets, ghosts
  <1>1. CASE DetailsBegin(w)
    BY <1>1 DEF DetailsBegin
  <1>2. CASE DetailsSend(w)
    <2>1. /\ told' \in [Line -> Nat]
          /\ cancelled' \subseteq {l \in Line : told'[l] # 0}
          /\ stray' \subseteq Line
      BY <1>2 DEF DetailsSend, Sent
    <2>2. failures' \in Nat
      BY <1>2 DEF DetailsSend, Fails
    <2>3. pc' \in [Actors -> {"idle", "open", "sent", "refused", "fetched"}]
      BY <1>2 DEF DetailsSend
    <2> QED
      BY <1>2, <2>1, <2>2, <2>3 DEF DetailsSend
  <1>3. CASE DetailsCommit(w)
    BY <1>3 DEF DetailsCommit
  <1>4. CASE DetailsAgain(w)
    BY <1>4 DEF DetailsAgain, Requeued, Fails
  <1> QED
    BY <1>1, <1>2, <1>3, <1>4 DEF Work

\* So does the report of a cancelled line,
LEMMA TypeStepCancel ==
  ASSUME TypeOK, NEW l \in Line, CancelSend(l)
  PROVE  TypeOK'
PROOF BY LinesAssumption DEF TypeOK, CancelSend, Fails

\* and a step of a pull.
LEMMA TypeStepPull ==
  ASSUME TypeOK, NEW p \in Pullers, Pull(p)
  PROVE  TypeOK'
PROOF
  <1> USE LinesAssumption, SnapshotTyped
      DEF TypeOK, Write, NoWrite, Open, Close, Actors, Unlisted, report, budgets, ghosts
  <1>1. CASE PullBegin(p)
    BY <1>1 DEF PullBegin
  <1>2. CASE PullFetch(p)
    BY <1>2 DEF PullFetch, Listed
  <1>3. CASE PullNothing(p)
    BY <1>3 DEF PullNothing, PullEnds
  <1>4. CASE PullStatus(p)
    BY <1>4 DEF PullStatus, PullEnds
  <1>5. CASE PullRefuse(p)
    BY <1>5 DEF PullRefuse, PullEnds
  <1>6. CASE PullRestore(p)
    <2>1. /\ lines' \in [Line -> Nat]
          /\ named' \subseteq {l \in Line : lines'[l] # 0}
          /\ stray' \subseteq Line
      BY <1>6 DEF PullRestore, Restored
    <2> QED
      BY <1>6, <2>1 DEF PullRestore, PullEnds
  <1> QED
    BY <1>1, <1>2, <1>3, <1>4, <1>5, <1>6 DEF Pull

\* Every step keeps the types.
LEMMA TypeStep ==
  ASSUME TypeOK, [Next]_vars
  PROVE  TypeOK'
PROOF
  <1>1. CASE UNCHANGED vars
    BY <1>1 DEF TypeOK, vars, report, budgets, ghosts
  <1> QED
    BY <1>1, TypeStepUser, TypeStepWork, TypeStepCancel, TypeStepPull DEF Next

-----------------------------------------------------------------------------
(* What a transaction knows of the order *)

\* A step of a user leaves every transaction that missed no write with a
\* snapshot that is right.
LEMMA SeenStepUser ==
  ASSUME TypeOK, SeenRight, User
  PROVE  SeenRight'
PROOF
  <1>1. UNCHANGED <<pc, snap>>
    BY DEF User, UserConfirm, UserChange, UserAdd, UserRemove
  <1>2. CASE \A a \in Actors : missed'[a] = (a \notin {} /\ pc[a] # "idle")
    BY <1>1, <1>2 DEF SeenRight
  <1>3. ASSUME NEW l \in Line, UserChange(l), UNCHANGED missed
        PROVE  SeenRight'
    <2>1. \A k \in Line : lines'[k] = 0 <=> lines[k] = 0
      BY <1>3 DEF UserChange, TypeOK
    <2>2. confirmed' = confirmed
      BY <1>3 DEF UserChange
    <2> QED
      BY <1>1, <1>3, <2>1, <2>2 DEF SeenRight
  <1>4. Write({}) => \A a \in Actors : missed'[a] = (a \notin {} /\ pc[a] # "idle")
    BY WriteMisses
  <1> QED
    BY <1>2, <1>3, <1>4 DEF User, UserConfirm, UserChange, UserAdd, UserRemove

\* So does the beginning of a transaction,
LEMMA SeenStepOpen ==
  ASSUME TypeOK, SeenRight, NEW a \in Actors, Open(a), UNCHANGED <<lines, confirmed>>
  PROVE  SeenRight'
PROOF
  <1>1. \A b \in Actors \ {a} :
          pc'[b] = pc[b] /\ missed'[b] = missed[b] /\ snap'[b] = snap[b]
    BY DEF Open, TypeOK
  <1>2. snap'[a].confirmed = confirmed' /\ snap'[a].lines = lines'
    BY DEF Open, TypeOK, Snapshot
  <1> QED
    BY <1>1, <1>2 DEF SeenRight

\* a step within one,
LEMMA SeenStepInside ==
  ASSUME TypeOK, SeenRight, NEW a \in Actors,
         pc[a] # "idle",
         \A b \in Actors \ {a} : pc'[b] = pc[b],
         UNCHANGED <<lines, confirmed, snap, missed>>
  PROVE  SeenRight'
PROOF BY DEF SeenRight

\* its end, when it writes nothing,
LEMMA SeenStepEnd ==
  ASSUME TypeOK, SeenRight, NEW a \in Actors, NoWrite(a), Close(a),
         UNCHANGED <<lines, confirmed>>
  PROVE  SeenRight'
PROOF
  <1>1. \A b \in Actors \ {a} :
          pc'[b] = pc[b] /\ missed'[b] = missed[b] /\ snap'[b] = snap[b]
    BY DEF NoWrite, Close, TypeOK
  <1>2. pc'[a] = "idle"
    BY DEF Close, TypeOK
  <1> QED
    BY <1>1, <1>2 DEF SeenRight

\* and when it does, which all others miss.
LEMMA SeenStepCommit ==
  ASSUME TypeOK, SeenRight, NEW a \in Actors, Write({a}), Close(a)
  PROVE  SeenRight'
PROOF
  <1>1. \A b \in Actors \ {a} : pc'[b] = pc[b] /\ missed'[b] = (pc[b] # "idle")
    BY WriteMisses DEF Close, TypeOK
  <1>2. pc'[a] = "idle"
    BY DEF Close, TypeOK
  <1> QED
    BY <1>1, <1>2 DEF SeenRight

\* Every step keeps what transactions know.
LEMMA SeenStep ==
  ASSUME TypeOK, SeenRight, [Next]_vars
  PROVE  SeenRight'
PROOF
  <1>1. CASE UNCHANGED vars
    BY <1>1 DEF SeenRight, vars
  <1>2. CASE User
    BY <1>2, SeenStepUser
  <1>3. ASSUME NEW l \in Line, CancelSend(l)
        PROVE  SeenRight'
    BY <1>3 DEF SeenRight, CancelSend
  <1>4. ASSUME NEW w \in Workers, Work(w)
        PROVE  SeenRight'
    <2>1. w \in Actors
      BY DEF Actors
    <2>2. CASE DetailsBegin(w)
      BY <2>1, <2>2, SeenStepOpen DEF DetailsBegin
    <2>3. CASE DetailsSend(w)
      <3>1. \A b \in Actors \ {w} : pc'[b] = pc[b]
        BY <2>3 DEF DetailsSend, TypeOK
      <3> QED
        BY <2>1, <2>3, <3>1, SeenStepInside DEF DetailsSend
    <2>4. CASE DetailsCommit(w)
      BY <2>1, <2>4, SeenStepCommit DEF DetailsCommit
    <2>5. CASE DetailsAgain(w)
      BY <2>1, <2>5, SeenStepEnd DEF DetailsAgain
    <2> QED
      BY <1>4, <2>2, <2>3, <2>4, <2>5 DEF Work
  <1>5. ASSUME NEW p \in Pullers, Pull(p)
        PROVE  SeenRight'
    <2>1. p \in Actors
      BY DEF Actors
    <2>2. CASE PullBegin(p)
      BY <2>1, <2>2, SeenStepOpen DEF PullBegin
    <2>3. CASE PullFetch(p)
      <3>1. \A b \in Actors \ {p} : pc'[b] = pc[b]
        BY <2>3 DEF PullFetch, TypeOK
      <3> QED
        BY <2>1, <2>3, <3>1, SeenStepInside DEF PullFetch
    <2>4. CASE PullNothing(p)
      BY <2>1, <2>4, SeenStepEnd DEF PullNothing, PullEnds
    <2>5. CASE PullStatus(p) \/ PullRefuse(p) \/ PullRestore(p)
      BY <2>1, <2>5, SeenStepCommit DEF PullStatus, PullRefuse, PullRestore, PullEnds
    <2> QED
      BY <1>5, <2>2, <2>3, <2>4, <2>5 DEF Pull
  <1> QED
    BY <1>1, <1>2, <1>3, <1>4, <1>5 DEF Next

-----------------------------------------------------------------------------
(* Identifiers and cancellations *)

LinesKnown == Identified /\ RemovedTold

\* A step of a user keeps what is known of the lines: one that is removed and
\* has an identifier gets a cancellation.
LEMMA KnownStepUser ==
  ASSUME TypeOK, LinesKnown, User
  PROVE  LinesKnown'
PROOF
  <1> USE LinesAssumption DEF LinesKnown, Identified, RemovedTold, report, ghosts
  <1>1. CASE UserConfirm
    BY <1>1 DEF UserConfirm
  <1>2. ASSUME NEW l \in Line, UserChange(l)
        PROVE  LinesKnown'
    <2>1. \A k \in Line : lines'[k] = 0 <=> lines[k] = 0
      BY <1>2 DEF UserChange, TypeOK
    <2> QED
      BY <1>2, <2>1 DEF UserChange, Line
  <1>3. ASSUME NEW l \in Line, UserAdd(l)
        PROVE  LinesKnown'
    <2>1. \A k \in Line \ {l} : lines'[k] = lines[k]
      BY <1>3 DEF UserAdd, TypeOK
    <2>2. UNCHANGED <<named, told, cancelled, cancels, stray>>
      BY <1>3 DEF UserAdd
    <2>3. l \in Added /\ l \notin Imported
      BY <1>3 DEF UserAdd
    <2> QED
      BY <2>1, <2>2, <2>3 DEF Line
  <1>4. ASSUME NEW l \in Line, UserRemove(l)
        PROVE  LinesKnown'
    <2>1. /\ \A k \in Line \ {l} : lines'[k] = lines[k] /\ cancels'[k] = cancels[k]
          /\ \A k \in Line \ {l} : k \in named' <=> k \in named
          /\ lines'[l] = 0 /\ l \notin named'
          /\ cancels'[l] = IF l \in named THEN cancels[l] + 1 ELSE cancels[l]
      BY <1>4 DEF UserRemove, Cancels, TypeOK
    <2>2. UNCHANGED <<told, cancelled, stray>> /\ lines[l] # 0 /\ cancels[l] \in Nat
      BY <1>4 DEF UserRemove, TypeOK
    <2> QED
      BY <2>1, <2>2 DEF Line
  <1> QED
    BY <1>1, <1>2, <1>3, <1>4 DEF User

\* A report that mentions a cancelled line revives it, which makes it stray;
\* Cartona forgets no line.
LEMMA KnownStepSend ==
  ASSUME TypeOK, LinesKnown, NEW w \in Workers, DetailsSend(w)
  PROVE  LinesKnown'
PROOF
  <1>1. UNCHANGED <<lines, named, cancels>>
    BY DEF DetailsSend
  <1>2. /\ \A l \in Line : told[l] # 0 => told'[l] # 0
        /\ \A l \in Line \ stray' : l \notin stray /\ (l \in cancelled => l \in cancelled')
    BY DEF DetailsSend, Sent, TypeOK
  <1> QED
    BY <1>1, <1>2 DEF LinesKnown, Identified, RemovedTold, Line

\* A cancellation is sent, to a Cartona that knows the line, or is lost.
LEMMA KnownStepCancel ==
  ASSUME TypeOK, LinesKnown, NEW l \in Line, CancelSend(l)
  PROVE  LinesKnown'
PROOF
  <1>1. UNCHANGED <<lines, named, told>>
    BY DEF CancelSend
  <1>2. /\ \A k \in Line \ {l} : cancels'[k] = cancels[k]
        /\ cancels'[l] \in Nat /\ cancels'[l] <= cancels[l] /\ cancels[l] \in Nat
    BY DEF CancelSend, TypeOK
  <1>3. /\ cancelled \subseteq cancelled' /\ stray \subseteq stray'
        /\ l \in stray' \/ (told[l] # 0 => l \in cancelled')
    BY DEF CancelSend
  <1> QED
    BY <1>1, <1>2, <1>3 DEF LinesKnown, Identified, RemovedTold, Line

\* A pull that creates lines makes them stray.
LEMMA KnownStepRestore ==
  ASSUME TypeOK, LinesKnown, NEW p \in Pullers, PullRestore(p)
  PROVE  LinesKnown'
PROOF
  <1>1. UNCHANGED <<told, cancelled, cancels>> /\ stray' = stray \cup Restored(p)
    BY DEF PullRestore, PullEnds, report
  <1>2. \A l \in Line \ Restored(p) : lines'[l] = lines[l] /\ (l \in named' <=> l \in named)
    BY DEF PullRestore, Restored
  <1> QED
    BY <1>1, <1>2 DEF LinesKnown, Identified, RemovedTold, Line

\* Every step keeps what is known of the lines.
LEMMA KnownStep ==
  ASSUME TypeOK, LinesKnown, [Next]_vars
  PROVE  LinesKnown'
PROOF
  <1>1. ASSUME UNCHANGED <<lines, named, told, cancelled, cancels, stray>>
        PROVE  LinesKnown'
    BY <1>1 DEF LinesKnown, Identified, RemovedTold
  <1>2. CASE UNCHANGED vars
    BY <1>1, <1>2 DEF vars, report, ghosts
  <1>3. ASSUME NEW w \in Workers, Work(w)
        PROVE  LinesKnown'
    BY <1>1, <1>3, KnownStepSend
       DEF Work, DetailsBegin, DetailsCommit, DetailsAgain, report, ghosts
  <1>4. ASSUME NEW p \in Pullers, Pull(p)
        PROVE  LinesKnown'
    BY <1>1, <1>4, KnownStepRestore
       DEF Pull, PullBegin, PullFetch, PullNothing, PullStatus, PullRefuse, PullEnds, report, ghosts
  <1> QED
    BY <1>2, <1>3, <1>4, KnownStepUser, KnownStepCancel DEF Next

-----------------------------------------------------------------------------
(* Reports *)

\* A write that the running reports miss makes sure there is one to come, if
\* any runs.
LEMMA MissedIsRepeated ==
  ASSUME NEW acts, acts \cap Workers = {}, Write(acts), NEW w \in Reporting, pc'[w] = pc[w]
  PROVE  ReportToCome'
PROOF
  <1>1. w \in Workers /\ w \in Actors /\ pc[w] # "idle"
    BY DEF Reporting, Actors
  <1>2. missed'[w] /\ pc'[w] # "idle"
    BY <1>1, WriteMisses
  <1> QED
    BY <1>1, <1>2 DEF ReportToCome, Reporting

\* A step of a user is reported later, or tells of fewer lines.
LEMMA PresentStepUser ==
  ASSUME TypeOK, Identified, PresentTold, User
  PROVE  PresentTold'
PROOF
  <1>1. UNCHANGED <<pc, snap, told, cancelled, owed, stray>> /\ Reporting' = Reporting
    BY DEF User, UserConfirm, UserChange, UserAdd, UserRemove, report, ghosts, Reporting
  <1>2. CASE details' > 0
    BY <1>2 DEF PresentTold, ReportToCome
  <1>3. ASSUME Write({}), details' = details,
               \A l \in Line : lines'[l] # 0 => lines'[l] = lines[l]
        PROVE  PresentTold'
    <2>1. CASE Reporting # {}
      <3>1. PICK w : w \in Reporting
        BY <2>1
      <3> QED
        BY <1>1, <1>3, <3>1, MissedIsRepeated DEF PresentTold
    <2>2. CASE Reporting = {} /\ details > 0
      BY <1>3, <2>2 DEF PresentTold, ReportToCome
    <2>3. CASE Reporting = {} /\ ~(details > 0)
      <3>1. owed \/ \A l \in Line \ stray : LineTold(l)
        BY <2>3 DEF PresentTold, ReportToCome
      <3>2. \A l \in Line \ stray : LineTold(l) => LineTold(l)'
        BY <1>1, <1>3 DEF LineTold
      <3> QED
        BY <1>1, <2>3, <3>1, <3>2 DEF PresentTold
    <2> QED
      BY <2>1, <2>2, <2>3
  <1>4. CASE UserConfirm
    BY <1>3, <1>4 DEF UserConfirm, report
  <1>5. ASSUME NEW l \in Line, UserChange(l) \/ UserAdd(l)
        PROVE  details' > 0
    BY <1>5 DEF UserChange, UserAdd, TypeOK
  <1>6. ASSUME NEW l \in Line, UserRemove(l)
        PROVE  PresentTold'
    <2>1. \A k \in Line : lines'[k] # 0 => lines'[k] = lines[k]
      BY <1>6 DEF UserRemove, TypeOK
    <2> QED
      BY <1>3, <1>6, <2>1 DEF UserRemove
  <1> QED
    BY <1>2, <1>4, <1>5, <1>6 DEF User

\* A report begins with the present lines.
LEMMA PresentStepBegin ==
  ASSUME TypeOK, PresentTold, NEW w \in Workers, DetailsBegin(w)
  PROVE  PresentTold'
PROOF
  <1>1. w \in Actors /\ pc[w] = "idle" /\ pc'[w] = "open" /\ snap'[w].lines = lines'
    BY DEF DetailsBegin, Open, Actors, TypeOK, Snapshot
  <1>2. Reporting' = Reporting \cup {w}
    BY <1>1 DEF DetailsBegin, Open, Actors, TypeOK, Reporting
  <1>3. CASE Reporting = {}
    BY <1>1, <1>2, <1>3 DEF PresentTold
  <1>4. CASE Reporting # {}
    <2>1. PICK v \in Reporting : v # w
      BY <1>1, <1>4 DEF Reporting
    <2> QED
      BY <1>2, <2>1 DEF PresentTold, ReportToCome
  <1> QED
    BY <1>3, <1>4

\* The only report, when it is sent, tells Cartona the present lines.
LEMMA PresentStepSend ==
  ASSUME TypeOK, PresentTold, NEW w \in Workers, DetailsSend(w)
  PROVE  PresentTold'
PROOF
  <1>1. /\ w \in Actors /\ w \in Reporting /\ Reporting' = Reporting
        /\ UNCHANGED <<lines, snap, missed, details, owed>>
    BY DEF DetailsSend, Actors, TypeOK, Reporting
  <1>2. CASE ReportToCome
    BY <1>1, <1>2 DEF ReportToCome, PresentTold
  <1>3. CASE ~ReportToCome
    <2>1. Reporting = {w} /\ snap[w].lines = lines
      BY <1>1, <1>3 DEF PresentTold
    <2>2. CASE pc' = [pc EXCEPT ![w] = "sent"]
      <3>1. /\ told' = [l \in Line |-> IF l \in Sent(w) THEN snap[w].lines[l] ELSE told[l]]
            /\ cancelled' = cancelled \ Sent(w)
        BY <1>1, <2>2 DEF DetailsSend, TypeOK
      <3>2. \A l \in Line : LineTold(l)'
        BY <1>1, <2>1, <3>1 DEF LineTold, Sent
      <3>3. pc'[w] = "sent"
        BY <1>1, <2>2 DEF TypeOK
      <3> QED
        BY <1>1, <2>1, <3>2, <3>3 DEF PresentTold
    <2>3. CASE pc' = [pc EXCEPT ![w] = "refused"]
      <3>1. pc'[w] = "refused"
        BY <1>1, <2>3 DEF TypeOK
      <3> QED
        BY <1>1, <2>1, <3>1 DEF PresentTold
    <2> QED
      BY <2>2, <2>3 DEF DetailsSend
  <1> QED
    BY <1>2, <1>3

\* A report ends: another that runs has missed its commit and is repeated; or
\* it was the only one, and was sent or is owed.
LEMMA PresentStepCommit ==
  ASSUME TypeOK, PresentTold, NEW w \in Workers, DetailsCommit(w)
  PROVE  PresentTold'
PROOF
  <1>1. /\ w \in Actors /\ w \in Reporting /\ ~missed[w]
        /\ pc[w] \in {"sent", "refused"} /\ owed' = (pc[w] = "refused")
        /\ UNCHANGED <<lines, told, cancelled, details, stray>>
    BY DEF DetailsCommit, Overtaken, Actors, Reporting, report
  <1>2. Reporting' = Reporting \ {w} /\ \A v \in Actors \ {w} : pc'[v] = pc[v]
    BY <1>1 DEF DetailsCommit, Close, Actors, TypeOK, Reporting
  <1>3. CASE Reporting # {w}
    <2>1. PICK v \in Reporting : v # w
      BY <1>1, <1>3
    <2>2. v \in Actors /\ pc[v] # "idle"
      BY <2>1 DEF Reporting, Actors
    <2>3. \A a \in Actors : missed'[a] = (a \notin {w} /\ pc[a] # "idle")
      BY WriteMisses DEF DetailsCommit
    <2>4. missed'[v]
      BY <2>1, <2>2, <2>3
    <2> QED
      BY <1>2, <2>1, <2>4 DEF PresentTold, ReportToCome
  <1>4. CASE Reporting = {w}
    <2>1. CASE details > 0
      BY <1>1, <2>1 DEF PresentTold, ReportToCome
    <2>2. CASE ~(details > 0)
      <3>1. ~ReportToCome
        BY <1>1, <1>4, <2>2 DEF ReportToCome
      <3>2. pc[w] = "sent" => \A l \in Line \ stray : LineTold(l)
        BY <1>1, <1>4, <3>1 DEF PresentTold
      <3>3. \A l \in Line \ stray : LineTold(l)' = LineTold(l)
        BY <1>1 DEF LineTold
      <3> QED
        BY <1>1, <1>2, <1>4, <3>2, <3>3 DEF PresentTold
    <2> QED
      BY <2>1, <2>2
  <1> QED
    BY <1>3, <1>4

\* A report that is given up waits again.
LEMMA PresentStepAgain ==
  ASSUME TypeOK, NEW w \in Workers, DetailsAgain(w)
  PROVE  PresentTold'
PROOF BY DEF DetailsAgain, Requeued, TypeOK, PresentTold, ReportToCome

\* A cancellation is sent of a line that is not there, or that is stray.
LEMMA PresentStepCancel ==
  ASSUME TypeOK, Identified, PresentTold, NEW k \in Line, CancelSend(k)
  PROVE  PresentTold'
PROOF
  <1>1. /\ UNCHANGED <<lines, told, details, pc, snap, missed, owed>>
        /\ Reporting' = Reporting /\ ReportToCome' = ReportToCome
    BY DEF CancelSend, Reporting, ReportToCome
  <1>2. /\ stray \subseteq stray'
        /\ k \in stray \/ lines[k] = 0
        /\ \A l \in Line \ {k} : l \in cancelled' <=> l \in cancelled
    BY DEF CancelSend, Identified
  <1>3. \A l \in Line \ stray' : l \notin stray /\ (LineTold(l) => LineTold(l)')
    BY <1>1, <1>2 DEF LineTold
  <1> QED
    BY <1>1, <1>3 DEF PresentTold

\* A step of a pull that writes nothing changes nothing that reports depend on.
LEMMA PresentStepQuiet ==
  ASSUME TypeOK, PresentTold, NEW p \in Pullers,
         \A w \in Workers : pc'[w] = pc[w] /\ snap'[w] = snap[w] /\ missed'[w] = missed[w],
         UNCHANGED <<lines, told, cancelled, details, owed, stray>>
  PROVE  PresentTold'
PROOF
  <1>1. Reporting' = Reporting
    BY DEF Reporting
  <1>2. \A w \in Reporting : pc'[w] = pc[w] /\ snap'[w] = snap[w] /\ missed'[w] = missed[w]
    BY DEF Reporting
  <1>3. ReportToCome' = ReportToCome
    BY <1>1, <1>2 DEF ReportToCome
  <1>4. \A l \in Line : LineTold(l)' = LineTold(l)
    BY DEF LineTold
  <1> QED
    BY <1>1, <1>2, <1>3, <1>4 DEF PresentTold

\* One that writes the order has all running reports repeated.
LEMMA PresentStepWrite ==
  ASSUME TypeOK, PresentTold, NEW p \in Pullers, Write({p}), Close(p),
         stray \subseteq stray',
         \A l \in Line \ stray' : lines'[l] = lines[l],
         UNCHANGED <<told, cancelled, details, owed>>
  PROVE  PresentTold'
PROOF
  <1>1. p \notin Workers /\ {p} \cap Workers = {} /\ \A w \in Workers : pc'[w] = pc[w]
    BY LinesAssumption DEF Close, TypeOK, Actors
  <1>2. Reporting' = Reporting
    BY <1>1 DEF Reporting
  <1>3. CASE Reporting # {}
    <2>1. PICK w : w \in Reporting
      BY <1>3
    <2>2. pc'[w] = pc[w]
      BY <1>1, <2>1 DEF Reporting
    <2>3. ReportToCome'
      BY <1>1, <2>1, <2>2, MissedIsRepeated
    <2> QED
      BY <2>3 DEF PresentTold
  <1>4. CASE Reporting = {} /\ details > 0
    BY <1>4 DEF PresentTold, ReportToCome
  <1>5. CASE Reporting = {} /\ ~(details > 0)
    <2>1. owed \/ \A l \in Line \ stray : LineTold(l)
      BY <1>5 DEF PresentTold, ReportToCome
    <2>2. \A l \in Line \ stray' : l \notin stray /\ (LineTold(l) => LineTold(l)')
      BY DEF LineTold
    <2> QED
      BY <1>2, <1>5, <2>1, <2>2 DEF PresentTold
  <1> QED
    BY <1>3, <1>4, <1>5

\* A step of a pull.
LEMMA PresentStepPull ==
  ASSUME TypeOK, PresentTold, NEW p \in Pullers, Pull(p)
  PROVE  PresentTold'
PROOF
  <1>1. \A w \in Workers : w \in Actors /\ w # p
    BY LinesAssumption DEF Actors
  <1>2. CASE PullBegin(p)
    <2>1. \A w \in Workers : pc'[w] = pc[w] /\ snap'[w] = snap[w] /\ missed'[w] = missed[w]
      BY <1>1, <1>2 DEF PullBegin, Open, TypeOK
    <2> QED
      BY <1>2, <2>1, PresentStepQuiet DEF PullBegin, report, ghosts
  <1>3. CASE PullFetch(p)
    <2>1. \A w \in Workers : pc'[w] = pc[w] /\ snap'[w] = snap[w] /\ missed'[w] = missed[w]
      BY <1>1, <1>3 DEF PullFetch, TypeOK
    <2> QED
      BY <1>3, <2>1, PresentStepQuiet DEF PullFetch, report, ghosts
  <1>4. CASE PullNothing(p)
    <2>1. \A w \in Workers : pc'[w] = pc[w] /\ snap'[w] = snap[w] /\ missed'[w] = missed[w]
      BY <1>1, <1>4 DEF PullNothing, PullEnds, NoWrite, Close, TypeOK
    <2> QED
      BY <1>4, <2>1, PresentStepQuiet DEF PullNothing, PullEnds, report
  <1>5. CASE PullStatus(p) \/ PullRefuse(p)
    BY <1>5, PresentStepWrite DEF PullStatus, PullRefuse, PullEnds, report
  <1>6. CASE PullRestore(p)
    <2>1. stray \subseteq stray' /\ \A l \in Line \ stray' : lines'[l] = lines[l]
      BY <1>6 DEF PullRestore
    <2> QED
      BY <1>6, <2>1, PresentStepWrite DEF PullRestore, PullEnds, report
  <1> QED
    BY <1>2, <1>3, <1>4, <1>5, <1>6 DEF Pull

\* Every step keeps a report to come, or the lines told.
LEMMA PresentStep ==
  ASSUME TypeOK, Identified, PresentTold, [Next]_vars
  PROVE  PresentTold'
PROOF
  <1>1. CASE UNCHANGED vars
    BY <1>1 DEF vars, report, ghosts, PresentTold, ReportToCome, Reporting, LineTold
  <1> QED
    BY <1>1, PresentStepUser, PresentStepBegin, PresentStepSend, PresentStepCommit,
       PresentStepAgain, PresentStepCancel, PresentStepPull DEF Next, Work

-----------------------------------------------------------------------------
(* Theorems *)

\* The invariant holds in every reachable state.
LEMMA IInvAlways == Spec => []IInv
PROOF
  <1>1. Init => IInv
    BY IInvInit
  <1>2. IInv /\ [Next]_vars => IInv'
    BY TypeStep, SeenStep, KnownStep, PresentStep DEF IInv, LinesKnown
  <1> QED
    BY <1>1, <1>2, PTL DEF Spec

\* Every variable has its type.
THEOREM TypeCorrect == Spec => []TypeOK
PROOF
  <1>1. IInv => TypeOK
    BY DEF IInv
  <1> QED
    BY <1>1, IInvAlways, PTL

\* When no job of the order is left, the last thing Cartona was told of a line
\* is its present values, or that it is cancelled: at rest no report is to
\* come, so the lines are told or their report was refused, and a removed line
\* has no cancellation waiting.
THEOREM LinesAreTold == Spec => []ToldAtRest
PROOF
  <1>1. IInv => ToldAtRest
    <2> SUFFICES ASSUME IInv, AtRest, NEW l \in Line \ stray
                 PROVE  IF lines[l] # 0
                          THEN owed \/ (told[l] = lines[l] /\ l \notin cancelled)
                          ELSE l \in Imported => l \in cancelled
      BY DEF ToldAtRest
    <2>1. Reporting = {} /\ ~ReportToCome
      BY DEF AtRest, Reporting, ReportToCome
    <2>2. owed \/ LineTold(l)
      BY <2>1 DEF IInv, PresentTold
    <2>3. l \in Imported /\ lines[l] = 0 => l \in cancelled
      BY DEF IInv, RemovedTold, AtRest
    <2> QED
      BY <2>2, <2>3 DEF LineTold
  <1> QED
    BY <1>1, IInvAlways, PTL

\* A pull creates lines only for an order that is a draft without lines when
\* the pull commits: it is refused if it missed a write of the order's row,
\* and a line that comes or goes writes that row.
THEOREM RestoreIsSafe == Spec => PullRestoresOnlyEmptyDrafts
PROOF
  <1>1. ASSUME IInv, [Next]_vars, NEW p \in Pullers,
               pc[p] = "fetched", pc'[p] = "idle", lines' # lines
        PROVE  ~confirmed /\ \A l \in Line : lines[l] = 0
    <2>1. p \in Actors /\ pc' # pc
      BY <1>1 DEF Actors
    <2>2. PICK q \in Pullers : PullRestore(q)
      BY <1>1, <2>1
         DEF Next, vars, User, UserConfirm, UserChange, UserAdd, UserRemove, Work, DetailsBegin,
             DetailsSend, DetailsCommit, DetailsAgain, CancelSend, Pull, PullBegin, PullFetch,
             PullNothing, PullStatus, PullRefuse
    <2>3. /\ q \in Actors /\ pc[q] = "fetched" /\ ~missed[q]
          /\ ~snap[q].confirmed /\ \A l \in Line : snap[q].lines[l] = 0
      BY <2>2 DEF PullRestore, PullEnds, Overtaken, Actors
    <2> QED
      BY <1>1, <2>3 DEF IInv, SeenRight
  <1>2. IInv /\ [Next]_vars =>
          [\A p \in Pullers :
             pc[p] = "fetched" /\ pc'[p] = "idle" /\ lines' # lines
               => ~confirmed /\ \A l \in Line : lines[l] = 0]_vars
    BY <1>1
  <1> QED
    BY <1>2, IInvAlways, PTL DEF Spec, PullRestoresOnlyEmptyDrafts
=============================================================================
