--------------------------- MODULE ChannelsProofs ---------------------------
(***************************************************************************)
(* Proofs about Channels, for any jobs, any tree of channels and any       *)
(* number of failures, restarts, moves and buttons: no capacity is         *)
(* overrun, the memory follows the rows, and a sequential channel blocks.  *)
(***************************************************************************)
EXTENDS Channels, FiniteSetTheorems, TLAPS

-----------------------------------------------------------------------------
(* The inductive invariant *)

\* What the types say of the rows and of the rest
RowsOK ==
  /\ state \in [Jobs -> JobState]
  /\ home  \in [Jobs -> Channels]
  /\ eta   \in [Jobs -> {"none", "future", "past"}]

SetsOK ==
  /\ queue \in [Channels -> SUBSET Jobs] /\ running \in [Channels -> SUBSET Jobs]
  /\ failed \in [Channels -> SUBSET Jobs]
  /\ notes \in SUBSET Jobs /\ moved \in SUBSET Jobs /\ reassigned \in SUBSET Jobs
  /\ paused \in SUBSET Channels /\ todo \in SUBSET Channels
  /\ events \in Nat /\ buttons \in Nat

\* Where the memory may have a job of channel h: nowhere, queued in one
\* channel and running in those it has left, running in all, or failed.
Absent(j) == InQueues(j) = {} /\ InRunning(j) = {} /\ InFailed(j) = {}
QueuedAt(j, h, c) ==
  /\ c \in Over[h] /\ Over[c] \subseteq Over[h]
  /\ InQueues(j) = {c} /\ InRunning(j) = Over[h] \ Over[c] /\ InFailed(j) = {}
AtWork(j, h) == InQueues(j) = {} /\ InRunning(j) = Over[h] /\ InFailed(j) = {}
HasFailed(j, h) == InQueues(j) = {} /\ InRunning(j) = {} /\ InFailed(j) = {h}

Somewhere(j, h) ==
  Absent(j) \/ (\E c \in Channels : QueuedAt(j, h, c)) \/ AtWork(j, h) \/ HasFailed(j, h)

\* The channel the memory has for a job is the row's, unless an operator has
\* changed that and the runner has not read it.  Whatever the runner has not
\* read, a job at work is known to be, and one that has failed was at work.
Placed(j, h) ==
  /\ j \notin moved \cap notes \cap reassigned => h = home[j]
  /\ Somewhere(j, h)
  /\ state[j] \in Active => AtWork(j, h)
  /\ state[j] = "failed" => AtWork(j, h) \/ HasFailed(j, h)

Shape ==
  /\ \A j \in Jobs : \E h \in Channels : Placed(j, h)
  /\ \A j \in Jobs \ reassigned : home[j] = Home[j]

\* The slots of a channel: jobs that were moved into it take none.
Slots(c) == IF c = Root THEN running[c] ELSE running[c] \ reassigned
SlotsKept == \A c \in Channels : Capacity[c] # 0 => Cardinality(Slots(c)) <= Capacity[c]

\* No job is at work or on its way in a sequential channel that knows of a
\* failed one.
BlockedByFailed ==
  \A c \in Sequential : running[c] \subseteq reassigned \/ failed[c] \subseteq reassigned

IInv == RowsOK /\ SetsOK /\ Shape /\ SlotsKept /\ MemoryFollows /\ BlockedByFailed

-----------------------------------------------------------------------------
(* Facts about the tree, the sets and the memory                           *)

\* Every channel is on its own path, the root is on all of them, and each
\* channel but the root has a parent, one step up.
LEMMA TreeFacts ==
  /\ Over \in [Channels -> SUBSET Channels] /\ Home \in [Jobs -> Channels]
  /\ \A c \in Channels : c \in Over[c] /\ Root \in Over[c] /\ Root \in Channels
  /\ Over[Root] = {Root}
  /\ \A c \in Channels \ {Root} : Parent(c) \in Channels /\ Over[Parent(c)] = Over[c] \ {c}
<1>1. ASSUME NEW c \in Channels \ {Root}
      PROVE  Parent(c) \in Channels /\ Over[Parent(c)] = Over[c] \ {c}
  BY ChannelAssumption DEF Parent
<1>2. \A c \in Channels : c \in Over[c] /\ Root \in Over[c] /\ Root \in Channels
  BY ChannelAssumption
<1> QED
  BY <1>1, <1>2, ChannelAssumption

\* Sets of jobs are finite, and a part of one that fits a capacity fits it too.
LEMMA Fits ==
  ASSUME NEW S \in SUBSET Jobs, NEW T \in SUBSET S, NEW n \in Nat, Cardinality(S) <= n
  PROVE  Cardinality(T) <= n
<1>1. IsFiniteSet(S) /\ IsFiniteSet(T)
  BY FS_Subset, ChannelAssumption
<1>2. Cardinality(T) <= Cardinality(S) /\ Cardinality(T) \in Nat /\ Cardinality(S) \in Nat
  BY <1>1, FS_Subset, FS_CardinalityType
<1> QED
  BY <1>2

\* A set of jobs with room for one more
LEMMA OneMoreFits ==
  ASSUME NEW S \in SUBSET Jobs, NEW j \in Jobs, NEW n \in Nat, Cardinality(S) < n
  PROVE  Cardinality(S \cup {j}) <= n
<1>1. IsFiniteSet(S) /\ Cardinality(S) \in Nat
  BY FS_Subset, FS_CardinalityType, ChannelAssumption
<1>2. Cardinality(S \cup {j}) = Cardinality(S) \/ Cardinality(S \cup {j}) = Cardinality(S) + 1
  BY <1>1, FS_AddElement
<1> QED
  BY <1>1, <1>2

\* Two jobs do not fit where one does.
LEMMA NoTwo ==
  ASSUME NEW S \in SUBSET Jobs, Cardinality(S) <= 1, NEW i \in S, NEW j \in S
  PROVE  i = j
<1>1. IsFiniteSet(S) /\ Cardinality(S) \in Nat
  BY FS_Subset, FS_CardinalityType, ChannelAssumption
<1>2. CASE Cardinality(S) = 0
  BY <1>1, <1>2, FS_EmptySet
<1>3. CASE Cardinality(S) = 1
  BY <1>1, <1>3, FS_Singleton
<1> QED
  BY <1>1, <1>2, <1>3

\* Nothing fits where there is no room.
LEMMA NoOne ==
  ASSUME NEW S \in SUBSET Jobs, Cardinality(S) < 1
  PROVE  S = {}
<1>1. IsFiniteSet(S) /\ Cardinality(S) \in Nat
  BY FS_Subset, FS_CardinalityType, ChannelAssumption
<1> QED
  BY <1>1, FS_EmptySet

\* Put moves one job, and leaves the others where they are.
LEMMA PutMoves ==
  ASSUME NEW f \in [Channels -> SUBSET Jobs], NEW cs \in SUBSET Channels, NEW j \in Jobs
  PROVE  /\ Put(f, cs, j) \in [Channels -> SUBSET Jobs]
         /\ {c \in Channels : j \in Put(f, cs, j)[c]} = cs
         /\ \A i \in Jobs \ {j}, c \in Channels : i \in Put(f, cs, j)[c] <=> i \in f[c]
<1>1. \A c \in Channels : Put(f, cs, j)[c] = IF c \in cs THEN f[c] \cup {j} ELSE f[c] \ {j}
  BY DEF Put
<1>2. \A c \in Channels : Put(f, cs, j)[c] \in SUBSET Jobs
  BY <1>1
<1>3. Put(f, cs, j) \in [Channels -> SUBSET Jobs]
  BY <1>2 DEF Put
<1>4. \A c \in Channels : j \in Put(f, cs, j)[c] <=> c \in cs
  BY <1>1
<1>5. \A i \in Jobs \ {j}, c \in Channels : i \in Put(f, cs, j)[c] <=> i \in f[c]
  BY <1>1
<1> QED
  BY <1>3, <1>4, <1>5

\* What the memory should have of a job the runner has no notification of
Follows(j) ==
  state[j] # "wait_dependencies" =>
    IF state[j] = "pending"
      THEN InFailed(j) = {}
           /\ \E c \in Path(j) : InQueues(j) = {c} /\ InRunning(j) = Path(j) \ Over[c]
      ELSE InQueues(j) = {} /\ InRunning(j) = RunningIn(j) /\ InFailed(j) = FailedIn(j)

LEMMA FollowsEach == MemoryFollows <=> \A j \in Jobs \ notes : Follows(j)
  BY DEF MemoryFollows, Follows

\* A job is in the memory of a channel exactly if the channel has it.
LEMMA Has ==
  ASSUME NEW j \in Jobs, NEW c \in Channels
  PROVE  /\ j \in queue[c] <=> c \in InQueues(j)
         /\ j \in running[c] <=> c \in InRunning(j)
         /\ j \in failed[c] <=> c \in InFailed(j)
  BY DEF InQueues, InRunning, InFailed

-----------------------------------------------------------------------------
(* At first, and the types *)

\* The runner has read nothing: its memory is empty.
LEMMA IInvInit == Init => IInv
<1> SUFFICES ASSUME Init PROVE IInv
  OBVIOUS
<1>1. RowsOK /\ SetsOK
  BY TreeFacts, ChannelAssumption DEF Init, RowsOK, SetsOK, JobState
<1>2. ASSUME NEW j \in Jobs PROVE Placed(j, home[j]) /\ home[j] \in Channels
  BY TreeFacts DEF Init, Placed, Somewhere, Absent, InQueues, InRunning, InFailed, Active
<1>3. Shape
  BY <1>2 DEF Shape, Init
<1>4. \A c \in Channels : Slots(c) = {} /\ running[c] = {}
  BY DEF Init, Slots
<1>5. SlotsKept
  <2>1. Cardinality({}) = 0
    BY FS_EmptySet
  <2> QED
    BY <1>4, <2>1, ChannelAssumption DEF SlotsKept
<1>6. BlockedByFailed
  BY <1>4, ChannelAssumption DEF BlockedByFailed
<1>7. MemoryFollows
  BY DEF MemoryFollows, Init
<1> QED
  BY <1>1, <1>3, <1>5, <1>6, <1>7 DEF IInv

\* Every step keeps the types of the rows.
LEMMA RowsStep ==
  ASSUME RowsOK, [Next]_vars
  PROVE  RowsOK'
<1>1. ASSUME NEW j \in Jobs, Row(j) PROVE RowsOK'
  BY <1>1 DEF Row, Start, End, Postpone, RequeueDead, WakeUp, Press, Reassign, Vacuum, Update,
              RowsOK, JobState
<1>2. ASSUME NEW c \in Channels, NEW j \in Jobs, Yield(c, j) PROVE RowsOK'
  BY <1>2 DEF Yield, RowsOK, JobState
<1>3. ASSUME NEW j \in Jobs, EtaComes(j) PROVE RowsOK'
  BY <1>3 DEF EtaComes, RowsOK
<1>4. ASSUME UNCHANGED row PROVE RowsOK'
  BY <1>4 DEF row, RowsOK
<1> QED
  BY <1>1, <1>2, <1>3, <1>4
  DEF Next, Runner, Clock, Read, RunBegin, Drained, Restart, PauseEnds, vars, row

\* And those of everything else.
LEMMA SetsStep ==
  ASSUME RowsOK, SetsOK, [Next]_vars
  PROVE  SetsOK'
<1>1. ASSUME NEW j \in Jobs, Row(j) PROVE SetsOK'
  <2>1. UNCHANGED <<queue, running, failed, paused, todo>>
    BY <1>1 DEF Row, Start, End, Postpone, RequeueDead, WakeUp, Press, Reassign, Vacuum, Update,
                memory
  <2>2. /\ notes' \in {notes, notes \cup {j}} /\ moved' \in {moved, moved \cup {j}}
        /\ reassigned' \in {reassigned, reassigned \cup {j}}
    BY <1>1 DEF Row, Start, End, Postpone, RequeueDead, WakeUp, Press, Reassign, Vacuum, Update
  <2>3. events' \in {events, events + 1} /\ buttons' \in {buttons, buttons + 1}
    BY <1>1 DEF Row, Start, End, Postpone, RequeueDead, WakeUp, Press, Reassign, Vacuum, budgets
  <2> QED
    BY <2>1, <2>2, <2>3 DEF SetsOK
<1>2. ASSUME NEW c \in Channels, NEW j \in Jobs, Yield(c, j) PROVE SetsOK'
  <2>1. queue' \in [Channels -> SUBSET Jobs] /\ running' \in [Channels -> SUBSET Jobs]
    BY <1>2 DEF Yield, SetsOK
  <2>2. notes' \in SUBSET Jobs /\ moved' \in SUBSET Jobs
    BY <1>2 DEF Yield, SetsOK, Expired
  <2> QED
    BY <1>2, <2>1, <2>2 DEF Yield, SetsOK, budgets
<1>3. ASSUME NEW j \in Jobs, Read(j) PROVE SetsOK'
  <2>1. QueuedIn(j) \in SUBSET Channels /\ RunningIn(j) \in SUBSET Channels
        /\ FailedIn(j) \in SUBSET Channels
    BY TreeFacts DEF RowsOK, QueuedIn, RunningIn, FailedIn, Path
  <2>2. /\ queue' \in [Channels -> SUBSET Jobs] /\ running' \in [Channels -> SUBSET Jobs]
        /\ failed' \in [Channels -> SUBSET Jobs]
    <3>1. CASE Stays(j)
      BY <1>3, <3>1 DEF Read, SetsOK, memory
    <3>2. CASE ~Stays(j)
      <4>1. /\ queue' = Put(queue, QueuedIn(j), j) /\ running' = Put(running, RunningIn(j), j)
            /\ failed' = Put(failed, FailedIn(j), j)
        BY <1>3, <3>2 DEF Read
      <4> QED
        BY <2>1, <4>1, PutMoves DEF SetsOK
    <3> QED
      BY <3>1, <3>2
  <2> QED
    BY <1>3, <2>2 DEF Read, SetsOK, budgets
<1>4. ASSUME Restart PROVE SetsOK'
  BY <1>4 DEF Restart, SetsOK, Loaded
<1>5. ASSUME RunBegin \/ (\E c \in Channels : Drained(c) \/ PauseEnds(c))
             \/ (\E j \in Jobs : EtaComes(j)) \/ UNCHANGED vars
      PROVE  SetsOK'
  <2>1. UNCHANGED <<queue, running, failed, notes, reassigned, events, buttons>>
    BY <1>5 DEF RunBegin, Drained, PauseEnds, EtaComes, memory, budgets, vars
  <2>2. moved' \in SUBSET Jobs /\ paused' \in SUBSET Channels /\ todo' \in SUBSET Channels
    BY <1>5 DEF RunBegin, Drained, PauseEnds, EtaComes, memory, budgets, vars, SetsOK, Expired
  <2> QED
    BY <2>1, <2>2 DEF SetsOK
<1> QED
  BY <1>1, <1>2, <1>3, <1>4, <1>5 DEF Next, Runner, Clock

-----------------------------------------------------------------------------
(* Steps of the rows and of the clock, which leave the memory alone        *)

\* What such a step may do: move a job by its form, end or postpone one that
\* is at work, and notify all of that but the deletion of a row that is done.
RowChange ==
  /\ UNCHANGED memory
  /\ moved \subseteq moved' /\ reassigned \subseteq reassigned'
  /\ \A j \in Jobs :
       /\ home'[j] = home[j] \/ j \in moved' \cap reassigned'
       /\ state'[j] \in Active => state[j] \in Active
       /\ state'[j] = "failed" => state[j] \in Active \cup {"failed"}
       /\ j \notin notes' =>
            /\ j \notin notes /\ home'[j] = home[j]
            /\ state'[j] = state[j] \/ (state[j] = "done" /\ state'[j] = "gone")

\* The places of the jobs fit the rows after such a step.
LEMMA ShapeKept ==
  ASSUME Shape, RowChange
  PROVE  Shape'
<1>1. \A j \in Jobs : UNCHANGED <<InQueues(j), InRunning(j), InFailed(j)>>
  BY DEF RowChange, memory, InQueues, InRunning, InFailed
<1>2. ASSUME NEW j \in Jobs, NEW h \in Channels, Placed(j, h) PROVE Placed(j, h)'
  <2>1. (j \notin moved \cap notes \cap reassigned => h = home[j])'
    BY <1>2 DEF RowChange, Placed
  <2>2. UNCHANGED <<Absent(j), AtWork(j, h), HasFailed(j, h)>>
    BY <1>1 DEF Absent, AtWork, HasFailed
  <2>3. \A c \in Channels : UNCHANGED QueuedAt(j, h, c)
    BY <1>1 DEF QueuedAt
  <2>4. Somewhere(j, h)'
    BY <1>2, <2>2, <2>3 DEF Placed, Somewhere
  <2>5. /\ state'[j] \in Active => state[j] \in Active
        /\ state'[j] = "failed" => state[j] \in Active \/ state[j] = "failed"
    BY DEF RowChange
  <2> QED
    BY <1>2, <2>1, <2>2, <2>4, <2>5 DEF Placed
<1>3. \A j \in Jobs \ reassigned' : home'[j] = Home[j]
  BY DEF Shape, RowChange
<1> QED
  BY <1>2, <1>3 DEF Shape

\* So is the rest of the invariant.
LEMMA RowKept ==
  ASSUME SetsOK, Shape, SlotsKept, MemoryFollows, BlockedByFailed, RowChange
  PROVE  Shape' /\ SlotsKept' /\ MemoryFollows' /\ BlockedByFailed'
<1>1. SlotsKept'
  <2> SUFFICES ASSUME NEW c \in Channels, Capacity[c] # 0
               PROVE  Cardinality(Slots(c)') <= Capacity[c]
    BY DEF SlotsKept
  <2>1. Slots(c)' \in SUBSET Slots(c) /\ Slots(c) \in SUBSET Jobs
    BY DEF Slots, RowChange, memory, SetsOK
  <2>2. Cardinality(Slots(c)) <= Capacity[c] /\ Capacity[c] \in Nat
    BY ChannelAssumption DEF SlotsKept
  <2> QED
    BY <2>1, <2>2, Fits
<1>2. MemoryFollows'
  <2> SUFFICES ASSUME NEW j \in Jobs \ notes' PROVE Follows(j)'
    BY DEF MemoryFollows, Follows
  <2>1. j \notin notes /\ Follows(j)
    BY FollowsEach DEF RowChange
  <2>2. UNCHANGED <<InQueues(j), InRunning(j), InFailed(j)>>
    BY DEF RowChange, memory, InQueues, InRunning, InFailed
  <2>3. home'[j] = home[j]
        /\ (state'[j] = state[j] \/ (state[j] = "done" /\ state'[j] = "gone"))
    BY DEF RowChange
  <2> QED
    BY <2>1, <2>2, <2>3 DEF Follows, Path, RunningIn, FailedIn, Active
<1>3. BlockedByFailed'
  BY DEF BlockedByFailed, RowChange, memory
<1> QED
  BY <1>1, <1>2, <1>3, ShapeKept

\* All these steps are of that kind.
LEMMA RowSteps ==
  ASSUME RowsOK, SetsOK,
         \/ RunBegin \/ (\E c \in Channels : Drained(c) \/ PauseEnds(c))
         \/ (\E j \in Jobs : Row(j) \/ EtaComes(j)) \/ UNCHANGED vars
  PROVE  RowChange
<1>1. ASSUME NEW j \in Jobs, NEW s \in JobState, Update(j, s), moved \subseteq moved',
             s \in Active => state[j] \in Active, s = "failed" => state[j] \in Active
      PROVE  RowChange
  BY <1>1 DEF RowsOK, Update, RowChange
<1>2. ASSUME NEW j \in Jobs, Start(j) \/ End(j) \/ Postpone(j) \/ RequeueDead(j) \/ WakeUp(j)
                             \/ Press(j)
      PROVE  RowChange
  BY <1>1, <1>2 DEF Start, End, Postpone, RequeueDead, WakeUp, Press, JobState, Active
<1>3. ASSUME NEW j \in Jobs, NEW c \in Channels, Reassign(j, c) PROVE RowChange
  BY <1>3 DEF Reassign, RowChange, RowsOK
<1>4. ASSUME NEW j \in Jobs, Vacuum(j) PROVE RowChange
  BY <1>4 DEF Vacuum, RowChange, RowsOK, Active
<1>5. ASSUME UNCHANGED <<state, home, notes, memory, reassigned>>, moved \subseteq moved'
      PROVE  RowChange
  BY <1>5 DEF RowChange
<1>6. ASSUME RunBegin \/ (\E c \in Channels : Drained(c) \/ PauseEnds(c))
             \/ (\E j \in Jobs : EtaComes(j)) \/ UNCHANGED vars
      PROVE  UNCHANGED <<state, home, notes, memory, reassigned>> /\ moved \subseteq moved'
  BY <1>6 DEF RunBegin, Drained, PauseEnds, EtaComes, row, memory, vars
<1> QED
  BY <1>2, <1>3, <1>4, <1>5, <1>6 DEF Row

-----------------------------------------------------------------------------
(* What the memory knows of jobs at work and of failed ones                *)

\* A job at work has its slot in the root, and if it has not been moved, in
\* every channel of its path.
LEMMA HasItsSlot ==
  ASSUME Shape, RowsOK, NEW i \in Jobs, NEW c \in Channels, state[i] \in Active, c \in Path(i),
         c = Root \/ i \notin reassigned
  PROVE  i \in running[c]
<1> PICK h \in Channels : Placed(i, h)
  BY DEF Shape
<1>1. InRunning(i) = Over[h] /\ (i \notin reassigned => h = home[i])
  BY DEF Placed, AtWork
<1>2. c \in InRunning(i)
  BY <1>1, TreeFacts DEF Path
<1> QED
  BY <1>2, Has

\* A job that has failed and another one at work or on its way do not both
\* belong to a sequential channel.
LEMMA NotBoth ==
  ASSUME RowsOK, SetsOK, Shape, SlotsKept, BlockedByFailed, NEW c \in Sequential,
         NEW x \in Jobs \ reassigned, NEW y \in Jobs \ reassigned, x # y,
         x \in running[c], home[y] = c, state[y] \in Active \cup {"failed"}
  PROVE  FALSE
<1>1. c \in Channels /\ Capacity[c] = 1
  BY ChannelAssumption
<1>2. y \notin running[c]
  <2>1. Slots(c) \in SUBSET Jobs /\ Cardinality(Slots(c)) <= 1
    BY <1>1 DEF SlotsKept, Slots, SetsOK
  <2>2. x \in Slots(c) /\ (y \in running[c] => y \in Slots(c))
    BY DEF Slots
  <2> QED
    BY <2>1, <2>2, NoTwo
<1>3. y \notin failed[c]
  BY DEF BlockedByFailed
<1> PICK h \in Channels : Placed(y, h)
  BY DEF Shape
<1>4. h = c /\ c \in Over[c]
  BY <1>1, TreeFacts DEF Placed
<1>5. AtWork(y, c) \/ HasFailed(y, c)
  BY <1>4 DEF Placed
<1> QED
  BY <1>1, <1>2, <1>3, <1>4, <1>5, Has DEF AtWork, HasFailed

\* After a step that gives no slot but to jobs at work, and knows no other
\* failed jobs than before or than the rows show, the slots are kept and
\* sequential channels still block.
LEMMA SlotsFollow ==
  ASSUME RowsOK, SetsOK, Shape, SlotsKept, BlockedByFailed, UNCHANGED reassigned,
         SetsOK',
         \A c \in Channels, i \in Jobs :
           /\ i \in running'[c] => i \in running[c] \/ (state[i] \in Active /\ c \in Path(i))
           /\ i \in failed'[c] =>
                \/ i \in failed[c]
                \/ state[i] = "failed" /\ home[i] = c /\ i \notin running'[c]
  PROVE  SlotsKept' /\ BlockedByFailed'
<1>1. \A c \in Channels : Slots(c)' \subseteq Slots(c)
  BY HasItsSlot DEF Slots, SetsOK
<1>2. SlotsKept'
  <2> SUFFICES ASSUME NEW c \in Channels, Capacity[c] # 0
               PROVE  Cardinality(Slots(c)') <= Capacity[c]
    BY DEF SlotsKept
  <2>1. Slots(c)' \in SUBSET Slots(c) /\ Slots(c) \in SUBSET Jobs
    BY <1>1 DEF Slots, SetsOK
  <2>2. Cardinality(Slots(c)) <= Capacity[c] /\ Capacity[c] \in Nat
    BY ChannelAssumption DEF SlotsKept
  <2> QED
    BY <2>1, <2>2, Fits
<1>3. BlockedByFailed'
  <2> SUFFICES ASSUME NEW c \in Sequential, NEW x \in running'[c] \ reassigned,
                      NEW y \in failed'[c] \ reassigned
               PROVE  FALSE
    BY DEF BlockedByFailed
  <2>1. c \in Channels /\ x \in Jobs /\ y \in Jobs
    BY ChannelAssumption DEF SetsOK
  <2>2. x \in running[c]
    BY <1>1, <2>1 DEF Slots
  <2>3. y \notin failed[c]
    BY <2>2 DEF BlockedByFailed
  <2>4. state[y] = "failed" /\ home[y] = c /\ x # y
    BY <2>1, <2>3
  <2> QED
    BY <2>1, <2>2, <2>4, NotBoth
<1> QED
  BY <1>2, <1>3

-----------------------------------------------------------------------------
(* The runner reads a row *)

\* A reading puts its job where the row says, and leaves the others alone.
LEMMA ReadStep ==
  ASSUME IInv, SetsOK', NEW j \in Jobs, Read(j)
  PROVE  Shape' /\ SlotsKept' /\ MemoryFollows' /\ BlockedByFailed'
<1> USE DEF IInv
<1>1. /\ j \in notes /\ notes' = notes \ {j} /\ moved' = moved \ {j}
      /\ UNCHANGED <<state, home, reassigned>>
  BY DEF Read, row
<1>2. \A i \in Jobs \ {j} : UNCHANGED <<InQueues(i), InRunning(i), InFailed(i)>>
  <2>1. CASE Stays(j)
    BY <2>1 DEF Read, memory, InQueues, InRunning, InFailed
  <2>2. CASE ~Stays(j)
    <3>1. /\ queue' = Put(queue, QueuedIn(j), j) /\ running' = Put(running, RunningIn(j), j)
          /\ failed' = Put(failed, FailedIn(j), j)
      BY <2>2 DEF Read
    <3>2. QueuedIn(j) \in SUBSET Channels /\ RunningIn(j) \in SUBSET Channels
          /\ FailedIn(j) \in SUBSET Channels
      BY TreeFacts DEF RowsOK, QueuedIn, RunningIn, FailedIn, Path
    <3>3. \A i \in Jobs \ {j}, c \in Channels :
            /\ i \in queue'[c] <=> i \in queue[c]
            /\ i \in running'[c] <=> i \in running[c]
            /\ i \in failed'[c] <=> i \in failed[c]
      BY <3>1, <3>2, PutMoves DEF SetsOK
    <3> QED
      BY <3>3 DEF InQueues, InRunning, InFailed
  <2> QED
    BY <2>1, <2>2
<1>3. /\ Placed(j, home[j])' /\ Follows(j)'
      /\ \A c \in Channels : j \in running'[c] =>
           j \in running[c] \/ (state[j] \in Active /\ c \in Path(j))
      /\ \A c \in Channels : j \in failed'[c] =>
           j \in failed[c] \/ (state[j] = "failed" /\ home[j] = c /\ j \notin running'[c])
  <2>0. home[j] \in Channels /\ home[j] \in Over[home[j]] /\ Over[home[j]] \subseteq Channels
    BY TreeFacts DEF RowsOK
  <2>1. CASE Stays(j)
    <3>1. UNCHANGED <<InQueues(j), InRunning(j), InFailed(j), queue, running, failed>>
      BY <2>1 DEF Read, memory, InQueues, InRunning, InFailed
    <3> PICK h \in Channels : Placed(j, h)
      BY DEF Shape
    <3>2. h = home[j]
      BY <2>1 DEF Stays, Placed
    <3>3. Placed(j, home[j])'
      BY <1>1, <3>1, <3>2
      DEF Placed, Somewhere, Absent, QueuedAt, AtWork, HasFailed
    <3>4. Follows(j)
      <4>1. CASE state[j] = "pending"
        <5>1. home[j] \in InQueues(j)
          BY <2>0, <2>1, <4>1, Has DEF Stays, Active
        <5>2. QueuedAt(j, home[j], home[j])
          BY <3>2, <5>1 DEF Placed, Somewhere, Absent, QueuedAt, AtWork, HasFailed
        <5> QED
          BY <2>0, <4>1, <5>2 DEF Follows, QueuedAt, Path
      <4>2. CASE state[j] \in Active
        BY <3>2, <4>2 DEF Placed, AtWork, Follows, RunningIn, FailedIn, Path, Active
      <4>3. CASE state[j] = "failed"
        <5>1. home[j] \in InFailed(j)
          BY <2>0, <2>1, <4>3, Has DEF Stays, Active
        <5>2. HasFailed(j, home[j])
          BY <3>2, <4>3, <5>1 DEF Placed, AtWork
        <5> QED
          BY <4>3, <5>2 DEF Follows, HasFailed, RunningIn, FailedIn, Active
      <4>4. CASE state[j] = "wait_dependencies"
        BY <4>4 DEF Follows
      <4> QED
        BY <2>1, <4>1, <4>2, <4>3, <4>4 DEF Stays
    <3>5. Follows(j)'
      BY <1>1, <3>1, <3>4 DEF Follows, Path, RunningIn, FailedIn
    <3> QED
      BY <3>1, <3>3, <3>5
  <2>2. CASE ~Stays(j)
    <3>1. /\ queue' = Put(queue, QueuedIn(j), j) /\ running' = Put(running, RunningIn(j), j)
          /\ failed' = Put(failed, FailedIn(j), j)
      BY <2>2 DEF Read
    <3>2. QueuedIn(j) \in SUBSET Channels /\ RunningIn(j) \in SUBSET Channels
          /\ FailedIn(j) \in SUBSET Channels
      BY <2>0 DEF QueuedIn, RunningIn, FailedIn, Path
    <3>3. /\ InQueues(j)' = QueuedIn(j) /\ InRunning(j)' = RunningIn(j)
          /\ InFailed(j)' = FailedIn(j)
      BY <3>1, <3>2, PutMoves DEF SetsOK, InQueues, InRunning, InFailed
    <3>4. Placed(j, home[j])'
      BY <1>1, <2>0, <3>3 DEF Placed, Somewhere, Absent, QueuedAt, AtWork, HasFailed,
                              QueuedIn, RunningIn, FailedIn, Path, Active
    <3>5. Follows(j)'
      BY <1>1, <2>0, <3>3 DEF Follows, QueuedIn, RunningIn, FailedIn, Path, Active
    <3>6. \A c \in Channels :
            /\ j \in running'[c] => state[j] \in Active /\ c \in Path(j)
            /\ j \in failed'[c] => state[j] = "failed" /\ home[j] = c /\ j \notin running'[c]
      BY <3>3 DEF InRunning, InFailed, RunningIn, FailedIn, Active
    <3> QED
      BY <3>4, <3>5, <3>6
  <2> QED
    BY <2>1, <2>2
<1>4. Shape'
  <2>1. ASSUME NEW i \in Jobs \ {j}, NEW h \in Channels, Placed(i, h) PROVE Placed(i, h)'
    BY <1>1, <1>2, <2>1 DEF Placed, Somewhere, Absent, QueuedAt, AtWork, HasFailed
  <2>2. \A i \in Jobs \ reassigned' : home'[i] = Home[i]
    BY <1>1 DEF Shape
  <2>3. home'[j] \in Channels
    BY <1>1 DEF RowsOK
  <2> QED
    BY <1>1, <1>3, <2>1, <2>2, <2>3 DEF Shape
<1>5. MemoryFollows'
  <2> SUFFICES ASSUME NEW i \in Jobs \ notes' PROVE Follows(i)'
    BY DEF MemoryFollows, Follows
  <2>1. CASE i = j
    BY <1>3, <2>1
  <2>2. CASE i # j
    <3>1. Follows(i)
      BY <1>1, <2>2, FollowsEach
    <3> QED
      BY <1>1, <1>2, <2>2, <3>1 DEF Follows, Path, RunningIn, FailedIn
  <2> QED
    BY <2>1, <2>2
<1>6. SlotsKept' /\ BlockedByFailed'
  <2>1. \A c \in Channels, i \in Jobs \ {j} :
          (i \in running'[c] <=> i \in running[c]) /\ (i \in failed'[c] <=> i \in failed[c])
    BY <1>2 DEF InRunning, InFailed
  <2> QED
    BY <1>1, <1>3, <2>1, SlotsFollow
<1> QED
  BY <1>4, <1>5, <1>6

-----------------------------------------------------------------------------
(* The runner loads the rows again                                         *)

\* A restart puts every job where its row says.
LEMMA RestartStep ==
  ASSUME IInv, SetsOK', Restart
  PROVE  Shape' /\ SlotsKept' /\ MemoryFollows' /\ BlockedByFailed'
<1> USE DEF IInv
<1>1. UNCHANGED <<state, home, reassigned>> /\ notes' = {}
  BY DEF Restart, row
<1>2. ASSUME NEW i \in Jobs
      PROVE  /\ InQueues(i)' = IF i \in Loaded THEN QueuedIn(i) ELSE {}
             /\ InRunning(i)' = IF i \in Loaded THEN RunningIn(i) ELSE {}
             /\ InFailed(i)' = IF i \in Loaded THEN FailedIn(i) ELSE {}
  <2>1. QueuedIn(i) \in SUBSET Channels /\ RunningIn(i) \in SUBSET Channels
        /\ FailedIn(i) \in SUBSET Channels
    BY TreeFacts DEF RowsOK, QueuedIn, RunningIn, FailedIn, Path
  <2> QED
    BY <2>1 DEF Restart, InQueues, InRunning, InFailed
<1>3. ASSUME NEW i \in Jobs PROVE Placed(i, home[i])' /\ Follows(i)' /\ home'[i] \in Channels
  <2>1. home[i] \in Channels /\ home[i] \in Over[home[i]] /\ Over[home[i]] \subseteq Channels
    BY TreeFacts DEF RowsOK
  <2>2. state[i] \in JobState
    BY DEF RowsOK
  <2>3. Placed(i, home[i])'
    BY <1>1, <1>2, <2>1, <2>2 DEF Placed, Somewhere, Absent, QueuedAt, AtWork, HasFailed,
          Loaded, NotDone, QueuedIn, RunningIn, FailedIn, Path, Active
  <2>4. Follows(i)'
    BY <1>1, <1>2, <2>1, <2>2 DEF Follows, Loaded, NotDone, QueuedIn, RunningIn, FailedIn,
          Path, Active, JobState
  <2> QED
    BY <1>1, <2>1, <2>3, <2>4
<1>4. Shape'
  BY <1>1, <1>3 DEF Shape
<1>5. MemoryFollows'
  BY <1>3 DEF MemoryFollows, Follows
<1>6. \A c \in Channels, i \in Jobs :
        /\ i \in running'[c] => state[i] \in Active /\ c \in Path(i)
        /\ i \in failed'[c] => state[i] = "failed" /\ home[i] = c /\ i \notin running'[c]
  BY DEF Restart, RunningIn, FailedIn, Active
<1>7. SlotsKept' /\ BlockedByFailed'
  BY <1>1, <1>6, SlotsFollow
<1> QED
  BY <1>4, <1>5, <1>7

-----------------------------------------------------------------------------
(* A channel yields a job                                                  *)

\* The job goes one step up its path, or to Odoo.
LEMMA YieldPlaces ==
  ASSUME IInv, NEW c \in Channels, NEW j \in Jobs, NEW h \in Channels, Yield(c, j), Placed(j, h)
  PROVE  /\ QueuedAt(j, h, c) /\ state[j] \notin Active \cup {"failed"}
         /\ c # Root => Parent(c) \in Channels /\ QueuedAt(j, h, Parent(c))'
         /\ c = Root => AtWork(j, h)'
<1> USE DEF IInv
<1>1. j \in queue[c]
  BY DEF Yield, Pops, IsFirst, Due
<1>2. QueuedAt(j, h, c) /\ state[j] \notin Active \cup {"failed"}
  BY <1>1, Has DEF Placed, Somewhere, Absent, QueuedAt, AtWork, HasFailed
<1>3. c \in Over[c] /\ Over[c] \subseteq Over[h]
  BY <1>2, TreeFacts DEF QueuedAt
<1>4. InRunning(j)' = InRunning(j) \cup {c} /\ InFailed(j)' = InFailed(j)
  BY DEF Yield, InRunning, InFailed, SetsOK
<1>5. CASE c # Root
  <2>1. Parent(c) \in Channels /\ Over[Parent(c)] = Over[c] \ {c} /\ Parent(c) \in Over[Parent(c)]
    BY <1>5, TreeFacts
  <2>2. \A d \in Channels : j \in queue'[d] <=> d = Parent(c)
    <3>1. \A d \in Channels : j \in queue[d] <=> d = c
      BY <1>2, Has DEF QueuedAt
    <3>2. \A d \in Channels :
            queue'[d] = IF d = c THEN queue[d] \ {j}
                        ELSE IF d = Parent(c) THEN queue[d] \cup {j} ELSE queue[d]
      BY <1>5 DEF Yield
    <3> QED
      BY <2>1, <3>1, <3>2
  <2>3. InQueues(j)' = {Parent(c)}
    BY <2>1, <2>2 DEF InQueues
  <2>4. InRunning(j)' = Over[h] \ Over[Parent(c)]
    BY <1>2, <1>3, <1>4, <2>1 DEF QueuedAt
  <2>5. QueuedAt(j, h, Parent(c))'
    BY <1>2, <1>3, <1>4, <2>1, <2>3, <2>4 DEF QueuedAt
  <2> QED
    BY <1>2, <1>5, <2>1, <2>5
<1>6. CASE c = Root
  <2>1. Over[c] = {c}
    BY <1>6, TreeFacts
  <2>2. \A d \in Channels : j \notin queue'[d]
    <3>1. \A d \in Channels : j \in queue[d] <=> d = c
      BY <1>2, Has DEF QueuedAt
    <3>2. \A d \in Channels : queue'[d] = IF d = c THEN queue[d] \ {j} ELSE queue[d]
      BY <1>6 DEF Yield
    <3> QED
      BY <3>1, <3>2
  <2>3. InQueues(j)' = {}
    BY <2>2 DEF InQueues
  <2>4. AtWork(j, h)'
    BY <1>2, <1>3, <1>4, <2>1, <2>3 DEF QueuedAt, AtWork
  <2> QED
    BY <1>2, <1>6, <2>4
<1> QED
  BY <1>5, <1>6

\* The channel had room for it, and the memory follows.
LEMMA YieldStep ==
  ASSUME IInv, NEW c \in Channels, NEW j \in Jobs, Yield(c, j)
  PROVE  Shape' /\ SlotsKept' /\ MemoryFollows' /\ BlockedByFailed'
<1> USE DEF IInv
<1>1. /\ UNCHANGED <<home, failed, reassigned>>
      /\ moved \subseteq moved'
      /\ \A i \in Jobs \ {j} : state'[i] = state[i]
      /\ notes \subseteq notes'
  BY DEF Yield, RowsOK
<1>2. \A i \in Jobs \ {j} : UNCHANGED <<InQueues(i), InRunning(i), InFailed(i)>>
  <2>1. \A i \in Jobs \ {j}, d \in Channels :
          (i \in queue'[d] <=> i \in queue[d]) /\ (i \in running'[d] <=> i \in running[d])
    BY DEF Yield, SetsOK
  <2> QED
    BY <1>1, <2>1 DEF InQueues, InRunning, InFailed
<1>3. c # Root \/ state[j] = "gone" => state'[j] = state[j]
  BY DEF Yield
<1>4. c = Root /\ state[j] # "gone" => state'[j] = "enqueued" /\ j \in notes'
  BY DEF Yield, RowsOK
<1> PICK h \in Channels : Placed(j, h)
  BY DEF Shape
<1>5. /\ QueuedAt(j, h, c) /\ state[j] \notin Active \cup {"failed"}
      /\ c # Root => Parent(c) \in Channels /\ QueuedAt(j, h, Parent(c))'
      /\ c = Root => AtWork(j, h)'
  BY YieldPlaces
<1>6. j \notin notes => state[j] \in {"pending", "wait_dependencies"} /\ h = home[j]
  <2>1. j \notin notes => Follows(j)
    BY FollowsEach
  <2> QED
    BY <1>5, <2>1 DEF Follows, QueuedAt, Placed
<1>7. Placed(j, h)'
  <2>1. (j \notin moved \cap notes \cap reassigned => h = home[j])'
    BY <1>1 DEF Placed
  <2>2. Somewhere(j, h)'
    BY <1>5 DEF Somewhere
  <2>3. state'[j] \in Active => AtWork(j, h)'
    BY <1>3, <1>4, <1>5
  <2>4. state'[j] # "failed"
    BY <1>3, <1>4, <1>5
  <2> QED
    BY <2>1, <2>2, <2>3, <2>4 DEF Placed
<1>8. Shape'
  <2>1. ASSUME NEW i \in Jobs \ {j}, NEW g \in Channels, Placed(i, g) PROVE Placed(i, g)'
    <3>1. (i \notin moved \cap notes \cap reassigned => g = home[i])'
      BY <1>1, <2>1 DEF Placed
    <3>2. Somewhere(i, g)'
      BY <1>2, <2>1 DEF Placed, Somewhere, Absent, QueuedAt, AtWork, HasFailed
    <3> QED
      BY <1>1, <1>2, <2>1, <3>1, <3>2 DEF Placed, AtWork, HasFailed
  <2>2. \A i \in Jobs \ reassigned' : home'[i] = Home[i]
    BY <1>1 DEF Shape
  <2> QED
    BY <1>7, <2>1, <2>2 DEF Shape
<1>9. MemoryFollows'
  <2> SUFFICES ASSUME NEW i \in Jobs \ notes' PROVE Follows(i)'
    BY DEF MemoryFollows, Follows
  <2>1. i \notin notes
    BY <1>1
  <2>2. CASE i # j
    <3>1. Follows(i)
      BY <2>1, FollowsEach
    <3> QED
      BY <1>1, <1>2, <2>2, <3>1 DEF Follows, Path, RunningIn, FailedIn
  <2>3. CASE i = j
    <3>1. state[j] \in {"pending", "wait_dependencies"} /\ h = home[j]
      BY <1>6, <2>1, <2>3
    <3>2. c # Root /\ state'[j] = state[j]
      BY <1>3, <1>4, <2>3, <3>1
    <3>3. QueuedAt(j, home[j], Parent(c))'
      BY <1>1, <1>5, <3>1, <3>2
    <3> QED
      BY <1>1, <2>3, <3>1, <3>2, <3>3 DEF Follows, QueuedAt, Path
  <2> QED
    BY <2>2, <2>3
<1>10. SlotsKept'
  <2> SUFFICES ASSUME NEW d \in Channels, Capacity[d] # 0
               PROVE  Cardinality(Slots(d)') <= Capacity[d]
    BY DEF SlotsKept
  <2>1. Capacity[d] \in Nat /\ running[d] \in SUBSET Jobs
    BY ChannelAssumption DEF SetsOK
  <2>2. CASE d # c
    <3>1. Slots(d)' = Slots(d)
      BY <1>1, <2>2 DEF Yield, Slots, SetsOK
    <3> QED
      BY <3>1 DEF SlotsKept
  <2>3. CASE d = c
    <3>1. Cardinality(running[c]) < Capacity[c]
      BY <2>3 DEF Yield, Pops, HasCapacity
    <3>2. Cardinality(running[c] \cup {j}) <= Capacity[c]
      BY <2>1, <2>3, <3>1, OneMoreFits
    <3>3. Slots(c)' \in SUBSET (running[c] \cup {j}) /\ running[c] \cup {j} \in SUBSET Jobs
      BY <2>1, <2>3 DEF Yield, Slots, SetsOK
    <3> QED
      BY <2>1, <2>3, <3>2, <3>3, Fits
  <2> QED
    BY <2>2, <2>3
<1>11. BlockedByFailed'
  <2> SUFFICES ASSUME NEW d \in Sequential
               PROVE  running'[d] \subseteq reassigned \/ failed[d] \subseteq reassigned
    BY <1>1 DEF BlockedByFailed
  <2>1. CASE d = c
    BY <2>1 DEF Yield, Pops, HasCapacity
  <2>2. CASE d # c
    BY <2>2, ChannelAssumption DEF Yield, SetsOK, BlockedByFailed
  <2> QED
    BY <2>1, <2>2
<1> QED
  BY <1>8, <1>9, <1>10, <1>11

-----------------------------------------------------------------------------
(* The theorems *)

\* The invariant is inductive.
LEMMA IInvStep == IInv /\ [Next]_vars => IInv'
<1> SUFFICES ASSUME IInv, [Next]_vars PROVE IInv'
  OBVIOUS
<1>1. RowsOK' /\ SetsOK'
  BY RowsStep, SetsStep DEF IInv
<1>2. ASSUME NEW j \in Jobs, Read(j) PROVE IInv'
  BY <1>1, <1>2, ReadStep DEF IInv
<1>3. ASSUME NEW c \in Channels, NEW j \in Jobs, Yield(c, j) PROVE IInv'
  BY <1>1, <1>3, YieldStep DEF IInv
<1>4. ASSUME Restart PROVE IInv'
  BY <1>1, <1>4, RestartStep DEF IInv
<1>5. ASSUME \/ RunBegin \/ (\E c \in Channels : Drained(c) \/ PauseEnds(c))
             \/ (\E j \in Jobs : Row(j) \/ EtaComes(j)) \/ UNCHANGED vars
      PROVE  IInv'
  <2>1. RowChange
    BY <1>5, RowSteps DEF IInv
  <2> QED
    BY <1>1, <2>1, RowKept DEF IInv
<1> QED
  BY <1>2, <1>3, <1>4, <1>5 DEF Next, Runner, Clock

\* It holds in every reachable state.
LEMMA IInvAlways == Spec => []IInv
  BY IInvInit, IInvStep, PTL DEF Spec

\* Every variable keeps its type, and the memory has a job only in channels of
\* its path, unless the runner has not read that it was moved.
THEOREM TypeCorrect == Spec => []TypeOK
<1>1. IInv => TypeOK
  <2> SUFFICES ASSUME IInv PROVE TypeOK
    OBVIOUS
  <2>1. ASSUME NEW c \in Channels, NEW j \in queue[c] \cup running[c] \cup failed[c]
        PROVE  j \in Under(c) \cup moved
    <3>1. j \in Jobs
      BY DEF IInv, SetsOK
    <3> PICK h \in Channels : Placed(j, h)
      BY <3>1 DEF IInv, Shape
    <3>2. c \in InQueues(j) \cup InRunning(j) \cup InFailed(j)
      BY <3>1, Has
    <3>3. c \in Over[h]
      BY <3>2, TreeFacts DEF Placed, Somewhere, Absent, QueuedAt, AtWork, HasFailed
    <3>4. j \notin moved => h = home[j]
      BY DEF Placed
    <3> QED
      BY <3>1, <3>3, <3>4 DEF Under, Path
  <2>2. \A c \in Channels : queue[c] \cup running[c] \cup failed[c] \subseteq Under(c) \cup moved
    BY <2>1
  <2> QED
    BY <2>2 DEF IInv, RowsOK, SetsOK, TypeOK
<1> QED
  BY <1>1, IInvAlways, PTL

\* No tree of channels, timing of notifications, restart or deletion makes the
\* runner send more jobs of a channel than its capacity.
THEOREM CapacityIsKept == Spec => []CapacityKept
<1>1. IInv => CapacityKept
  <2> SUFFICES ASSUME IInv, NEW c \in Channels, Capacity[c] # 0
               PROVE  Cardinality({j \in Counted(c) : state[j] \in Active}) <= Capacity[c]
    BY DEF CapacityKept
  <2> DEFINE A == {j \in Counted(c) : state[j] \in Active}
  <2>1. A \in SUBSET Slots(c)
    <3> SUFFICES ASSUME NEW j \in A PROVE j \in Slots(c)
      OBVIOUS
    <3>1. /\ j \in Jobs /\ state[j] \in Active /\ c \in Path(j)
          /\ c = Root \/ j \notin reassigned
      BY TreeFacts DEF Counted, Under, Path, IInv, RowsOK
    <3>2. j \in running[c]
      BY <3>1, HasItsSlot DEF IInv
    <3> QED
      BY <3>1, <3>2 DEF Slots
  <2>2. Slots(c) \in SUBSET Jobs /\ Capacity[c] \in Nat /\ Cardinality(Slots(c)) <= Capacity[c]
    BY ChannelAssumption DEF Slots, IInv, SetsOK, SlotsKept
  <2> QED
    BY <2>1, <2>2, Fits
<1> QED
  BY <1>1, IInvAlways, PTL

\* A job without an outstanding notification is where its row says, however
\* many notifications were merged, late or lost in restarts.
THEOREM MemoryIsRight == Spec => []MemoryFollows
<1>1. IInv => MemoryFollows
  BY DEF IInv
<1> QED
  BY <1>1, IInvAlways, PTL

\* A sequential channel sends no job beside one at work or a failed one.
THEOREM SequenceIsKept == Spec => SequentialBlocks
<1>1. IInv /\ [Next]_vars =>
        [\A i, j \in Jobs :
           (/\ i # j /\ {i, j} \cap reassigned = {}
            /\ Home[i] = Home[j] /\ Home[j] \in Sequential
            /\ state[j] = "pending" /\ state'[j] = "enqueued")
           => state[i] \notin Active \cup {"failed"}]_vars
  <2> SUFFICES ASSUME IInv, [Next]_vars, NEW i \in Jobs, NEW j \in Jobs, i # j,
                      {i, j} \cap reassigned = {}, Home[i] = Home[j], Home[j] \in Sequential,
                      state[j] = "pending", state'[j] = "enqueued",
                      state[i] \in Active \cup {"failed"}
               PROVE  FALSE
    OBVIOUS
  <2> DEFINE s == Home[j]
  <2>1. Yield(Root, j)
    <3>1. ASSUME NEW k \in Jobs, Row(k) PROVE FALSE
      BY <3>1 DEF Row, Start, End, Postpone, RequeueDead, WakeUp, Press, Reassign, Vacuum,
                  Update, IInv, RowsOK
    <3>2. ASSUME NEW c \in Channels, NEW k \in Jobs, Yield(c, k) PROVE c = Root /\ k = j
      BY <3>2 DEF Yield, IInv, RowsOK
    <3>3. ~UNCHANGED state
      OBVIOUS
    <3> QED
      BY <3>1, <3>2, <3>3
      DEF Next, Runner, Clock, Read, RunBegin, Drained, Restart, EtaComes, PauseEnds, row, vars
  <2>2. home[i] = s /\ home[j] = s /\ s \in Channels
    BY TreeFacts DEF IInv, Shape
  <2>3. i \in Jobs \ reassigned /\ j \in Jobs \ reassigned
    OBVIOUS
  <2>4. CASE s # Root
    <3> PICK h \in Channels : Placed(j, h)
      BY DEF IInv, Shape
    <3>1. h = s /\ QueuedAt(j, s, Root)
      BY <2>1, <2>2, <2>3, TreeFacts, YieldPlaces DEF Placed
    <3>2. j \in running[s]
      BY <2>2, <2>4, <3>1, TreeFacts, Has DEF QueuedAt
    <3> QED
      BY <2>2, <2>3, <3>2, NotBoth DEF IInv
  <2>5. CASE s = Root
    <3>1. Capacity[Root] = 1 /\ failed[Root] = {} /\ Cardinality(running[Root]) < 1
      BY <2>1, <2>5, ChannelAssumption DEF Yield, Pops, HasCapacity
    <3>2. running[Root] = {}
      BY <2>2, <2>5, <3>1, NoOne DEF IInv, SetsOK
    <3> PICK h \in Channels : Placed(i, h)
      BY DEF IInv, Shape
    <3>3. h = Root /\ (AtWork(i, Root) \/ HasFailed(i, Root))
      BY <2>2, <2>3, <2>5 DEF Placed
    <3> QED
      BY <3>1, <3>2, <3>3, TreeFacts, Has DEF AtWork, HasFailed
  <2> QED
    BY <2>4, <2>5
<1> QED
  BY <1>1, IInvAlways, PTL DEF Spec, SequentialBlocks
=============================================================================
