-------------------------- MODULE DelayGraphProofs --------------------------
(***************************************************************************)
(* Proofs about DelayGraph, for any number of delayables, chains, groups   *)
(* and links, nested and shared at any depth: what is stored is what was   *)
(* composed.  Objects are composed of objects made before, so that what    *)
(* recurs over them is defined, and proved, by the least object for which  *)
(* it fails.                                                               *)
(***************************************************************************)
EXTENDS DelayGraph, FiniteSetTheorems, SequenceTheorems,
        WellFoundedInduction, TLAPS

-----------------------------------------------------------------------------
(* Least elements *)

\* A nonempty set of natural numbers has a least one.
LEMMA LeastNumber ==
  ASSUME NEW S, S \subseteq Nat, S # {}
  PROVE  \E n \in S : \A m \in S : n <= m
PROOF
  <1> DEFINE F == {0..n : n \in S}
             R == StrictSubsetOrdering(Nat)
  <1>1. F \subseteq FiniteSubsetsOf(Nat) /\ F # {}
    <2>1. ASSUME NEW n \in S
          PROVE  IsFiniteSet(0..n) /\ 0..n \in SUBSET Nat
      <3>1. n \in Int /\ 0 \in Int
        OBVIOUS
      <3>2. IsFiniteSet(0..n)
        BY <3>1, FS_Interval
      <3> QED
        BY <3>2
    <2> QED
      BY <2>1 DEF FiniteSubsetsOf
  <1>2. IsWellFoundedOn(R, FiniteSubsetsOf(Nat))
    BY FS_StrictSubsetOrderingWellFounded
  <1>3. PICK x \in F : \A y \in F : ~(<<y, x>> \in R)
    <2> HIDE DEF F, R
    <2> QED
      BY <1>1, <1>2, WFMin
  <1>4. PICK n \in S : x = 0..n
    BY <1>3
  <1>5. ASSUME NEW m \in S, m < n
        PROVE  FALSE
    <2>1. 0..m \in F /\ 0..m \subseteq x /\ 0..m # x
      BY <1>4, <1>5
    <2>2. <<0..m, x>> \in R
      BY <1>3, <1>4, <2>1 DEF StrictSubsetOrdering
    <2> QED
      BY <1>3, <2>1, <2>2
  <1> QED
    BY <1>5

\* What holds of 0, and of n + 1 when of n, holds of the numbers up to N.
LEMMA Induction ==
  ASSUME NEW N \in Nat, NEW S, 0 \in S, \A n \in 0..(N - 1) : n \in S => n + 1 \in S
  PROVE  \A n \in 0..N : n \in S
PROOF
  <1> DEFINE Bad == (0..N) \ S
  <1> SUFFICES ASSUME Bad # {}
               PROVE  FALSE
    OBVIOUS
  <1>1. Bad \subseteq Nat
    OBVIOUS
  <1>2. PICK n \in Bad : \A m \in Bad : n <= m
    <2> HIDE DEF Bad
    <2> QED
      BY <1>1, LeastNumber
  <1>3. n \in 1..N /\ n - 1 \in 0..(N - 1) /\ n - 1 \notin Bad
    BY <1>2
  <1>4. n - 1 \in S /\ (n - 1) + 1 = n
    BY <1>3
  <1> QED
    BY <1>2, <1>3, <1>4

\* What holds of a number when it holds of the positive ones before it holds up to N.
LEMMA StrongInduction ==
  ASSUME NEW N \in Nat, NEW S,
         \A n \in 1..N : (\A m \in 1..(n - 1) : m \in S) => n \in S
  PROVE  \A n \in 1..N : n \in S
PROOF
  <1> DEFINE Bad == (1..N) \ S
  <1> SUFFICES ASSUME Bad # {}
               PROVE  FALSE
    OBVIOUS
  <1>1. Bad \subseteq Nat
    OBVIOUS
  <1>2. PICK n \in Bad : \A m \in Bad : n <= m
    <2> HIDE DEF Bad
    <2> QED
      BY <1>1, LeastNumber
  <1>3. \A m \in 1..(n - 1) : m \in S
    BY <1>2
  <1> QED
    BY <1>2, <1>3

IsIterated(f, N, T, c, D) ==
  f \in [0..N -> T] /\ f[0] = c /\ \A n \in 1..N : f[n] = D[n][f[n - 1]]

\* A step can be iterated N times from c.
LEMMA Iteration ==
  ASSUME NEW N \in Nat, NEW T, NEW c \in T, NEW D \in [1..N -> [T -> T]]
  PROVE  \E f : IsIterated(f, N, T, c, D)
PROOF
  <1> DEFINE Step(f, n) == IF n = 0 THEN c ELSE D[n][f[n - 1]]
             Good(n) == \E f \in [0..n -> T] : \A i \in 0..n : f[i] = Step(f, i)
             S == {n \in 0..N : Good(n)}
  <1>1. 0 \in S
    <2> DEFINE f == [i \in 0..0 |-> c]
    <2>1. f \in [0..0 -> T] /\ \A i \in 0..0 : f[i] = Step(f, i)
      OBVIOUS
    <2> HIDE DEF f
    <2>2. Good(0)
      BY <2>1
    <2> HIDE DEF Good
    <2> QED
      BY <2>2
  <1>2. ASSUME NEW n \in 0..(N - 1), n \in S
        PROVE  n + 1 \in S
    <2>1. PICK f \in [0..n -> T] : \A i \in 0..n : f[i] = Step(f, i)
      BY <1>2
    <2> DEFINE g == [i \in 0..(n + 1) |-> IF i \in 0..n THEN f[i] ELSE D[n + 1][f[n]]]
    <2>2. f[n] \in T /\ n + 1 \in 1..N /\ D[n + 1][f[n]] \in T
      OBVIOUS
    <2>3. g \in [0..(n + 1) -> T]
      BY <2>2
    <2>4. \A i \in 0..(n + 1) : g[i] = Step(g, i)
      <3> TAKE i \in 0..(n + 1)
      <3>1. CASE i = 0
        BY <2>1, <3>1
      <3>2. CASE i \in 1..n
        <4>1. g[i] = f[i] /\ g[i - 1] = f[i - 1] /\ i # 0 /\ i \in 0..n
          BY <3>2
        <4> HIDE DEF g
        <4> QED
          BY <2>1, <4>1
      <3>3. CASE i = n + 1
        <4>1. g[i] = D[n + 1][f[n]] /\ g[i - 1] = f[n] /\ i # 0
          BY <3>3
        <4> HIDE DEF g
        <4> QED
          BY <3>3, <4>1
      <3> QED
        BY <3>1, <3>2, <3>3
    <2> HIDE DEF g, Step
    <2>5. Good(n + 1)
      BY <2>3, <2>4
    <2> HIDE DEF Good
    <2> QED
      BY <2>5
  <1>3. \A n \in 0..N : n \in S
    <2> HIDE DEF S
    <2> QED
      BY <1>1, <1>2, Induction
  <1>4. PICK f \in [0..N -> T] : \A i \in 0..N : f[i] = Step(f, i)
    BY <1>3
  <1>5. \A n \in 1..N : n \in 0..N /\ n # 0
    OBVIOUS
  <1> QED
    BY <1>4, <1>5 DEF IsIterated

-----------------------------------------------------------------------------
(* The objects *)

\* How objects are composed: of objects made before; delayables come first.
ObjectsOK ==
  /\ kind \in Seq({"delayable", "chain", "group"}) /\ Len(kind) \in Nat
  /\ Delayables \subseteq Objects
  /\ \A o \in Objects : kind[o] = "delayable" <=> o \in Delayables
  /\ DOMAIN parts = Objects
  /\ \A o \in Objects :
       /\ parts[o] \in Seq(1..(o - 1))
       /\ Len(parts[o]) <= MaxParts
       /\ kind[o] = "chain" => parts[o] # <<>>

\* The parts of an object.
LEMMA PartFacts ==
  ASSUME ObjectsOK, NEW o \in Objects
  PROVE  /\ o \in Nat /\ Len(parts[o]) \in Nat
         /\ DOMAIN parts[o] = 1..Len(parts[o])
         /\ \A i \in 1..Len(parts[o]) :
              /\ parts[o][i] \in ToSet(parts[o])
              /\ parts[o][i] \in Objects /\ parts[o][i] \in Nat /\ parts[o][i] < o
         /\ \A p \in ToSet(parts[o]) : p \in Objects /\ p < o
         /\ kind[o] = "chain" =>
              /\ 1 \in 1..Len(parts[o]) /\ Len(parts[o]) \in 1..Len(parts[o])
              /\ Last(parts[o]) = parts[o][Len(parts[o])]
PROOF
  <1>1. o \in Nat /\ o <= Len(kind) /\ 1 <= o /\ Len(kind) \in Nat
    BY DEF ObjectsOK, Objects
  <1>2. parts[o] \in Seq(1..(o - 1))
    BY DEF ObjectsOK
  <1>3. Len(parts[o]) \in Nat /\ DOMAIN parts[o] = 1..Len(parts[o])
    BY <1>2, LenProperties
  <1>4. \A i \in 1..Len(parts[o]) : parts[o][i] \in 1..(o - 1)
    BY <1>2, LenProperties
  <1>5. \A q \in 1..(o - 1) : q \in Objects /\ q \in Nat /\ q < o
    BY <1>1 DEF Objects
  <1>6. ToSet(parts[o]) = {parts[o][i] : i \in 1..Len(parts[o])}
    BY <1>3 DEF ToSet
  <1>7. kind[o] = "chain" => Len(parts[o]) # 0
    BY <1>2 DEF ObjectsOK
  <1> QED
    BY <1>1, <1>3, <1>4, <1>5, <1>6, <1>7 DEF Last

-----------------------------------------------------------------------------
(* Heads and tails *)

EndsOf(f, o) ==
  IF kind[o] = "delayable" THEN [head |-> {o}, tail |-> {o}]
  ELSE IF kind[o] = "chain"
    THEN [head |-> f[parts[o][1]].tail, tail |-> f[Last(parts[o])].head]
    ELSE [head |-> UNION {f[p].head : p \in ToSet(parts[o])},
          tail |-> UNION {f[p].tail : p \in ToSet(parts[o])}]

\* The ends of an object depend on those of its parts only.
LEMMA EndsOfParts ==
  ASSUME ObjectsOK, NEW o \in Objects, NEW f, NEW g,
         \A p \in Objects : p < o => f[p] = g[p]
  PROVE  EndsOf(f, o) = EndsOf(g, o)
PROOF
  <1>1. CASE kind[o] = "delayable"
    BY <1>1 DEF EndsOf
  <1>2. CASE kind[o] = "chain"
    BY <1>2, PartFacts DEF EndsOf
  <1>3. CASE kind[o] = "group"
    <2>1. \A p \in ToSet(parts[o]) : f[p] = g[p]
      BY PartFacts
    <2> QED
      BY <1>3, <2>1 DEF EndsOf
  <1> QED
    BY <1>1, <1>2, <1>3 DEF ObjectsOK, Objects

\* Hence they are defined for every object.
LEMMA EndsDefined ==
  ASSUME ObjectsOK
  PROVE  Ends = [o \in Objects |-> EndsOf(Ends, o)]
PROOF
  <1> DEFINE N == Len(kind)
             Good(n) == \E f : f = [o \in 1..n |-> EndsOf(f, o)]
             S == {n \in 0..N : Good(n)}
  <1>0. N \in Nat
    BY DEF ObjectsOK
  <1>1. 0 \in S
    <2> DEFINE f == [o \in 1..0 |-> 0]
    <2>1. f = [o \in 1..0 |-> EndsOf(f, o)]
      OBVIOUS
    <2> HIDE DEF f
    <2>2. Good(0)
      BY Zenon, <2>1
    <2> HIDE DEF Good
    <2> QED
      BY <1>0, <2>2
  <1>2. ASSUME NEW n \in 0..(N - 1), n \in S
        PROVE  n + 1 \in S
    <2>1. PICK f : f = [o \in 1..n |-> EndsOf(f, o)]
      BY <1>2
    <2> DEFINE g == [o \in 1..(n + 1) |-> EndsOf(f, o)]
    <2>2. \A o \in 1..n : g[o] = f[o]
      <3> TAKE o \in 1..n
      <3>1. f[o] = EndsOf(f, o)
        BY <2>1
      <3>2. g[o] = EndsOf(f, o)
        OBVIOUS
      <3> QED
        BY <3>1, <3>2
    <2>3. ASSUME NEW o \in 1..(n + 1)
          PROVE  EndsOf(f, o) = EndsOf(g, o)
      <3>1. o \in Objects
        BY <1>0 DEF Objects
      <3>2. \A p \in Objects : p < o => f[p] = g[p]
        BY <1>0, <2>2 DEF Objects
      <3> HIDE DEF g
      <3> QED
        BY <3>1, <3>2, EndsOfParts
    <2>4. g = [o \in 1..(n + 1) |-> EndsOf(g, o)]
      BY <2>3
    <2> HIDE DEF g
    <2> QED
      BY <1>0, <2>4
  <1>3. \A n \in 0..N : n \in S
    <2> HIDE DEF S, N
    <2> QED
      BY <1>0, <1>1, <1>2, Induction
  <1>4. \E f : f = [o \in Objects |-> EndsOf(f, o)]
    BY <1>0, <1>3 DEF Objects
  <1>5. Ends = CHOOSE f : f = [o \in Objects |-> EndsOf(f, o)]
    BY DEF Ends, EndsOf
  <1> QED
    BY <1>4, <1>5

-----------------------------------------------------------------------------
(* What an object is composed of *)

LeavesOf(f, o) ==
  IF kind[o] = "delayable" THEN {o} ELSE UNION {f[p] : p \in ToSet(parts[o])}

\* The leaves of an object depend on those of its parts only.
LEMMA LeavesOfParts ==
  ASSUME ObjectsOK, NEW o \in Objects, NEW f, NEW g,
         \A p \in Objects : p < o => f[p] = g[p]
  PROVE  LeavesOf(f, o) = LeavesOf(g, o)
PROOF
  <1>1. \A p \in ToSet(parts[o]) : f[p] = g[p]
    BY PartFacts
  <1> QED
    BY <1>1 DEF LeavesOf

\* So they are defined for every object.
LEMMA LeavesDefined ==
  ASSUME ObjectsOK
  PROVE  Leaves = [o \in Objects |-> LeavesOf(Leaves, o)]
PROOF
  <1> DEFINE N == Len(kind)
             Good(n) == \E f : f = [o \in 1..n |-> LeavesOf(f, o)]
             S == {n \in 0..N : Good(n)}
  <1>0. N \in Nat
    BY DEF ObjectsOK
  <1>1. 0 \in S
    <2> DEFINE f == [o \in 1..0 |-> 0]
    <2>1. f = [o \in 1..0 |-> LeavesOf(f, o)]
      OBVIOUS
    <2> HIDE DEF f
    <2>2. Good(0)
      BY Zenon, <2>1
    <2> HIDE DEF Good
    <2> QED
      BY <1>0, <2>2
  <1>2. ASSUME NEW n \in 0..(N - 1), n \in S
        PROVE  n + 1 \in S
    <2>1. PICK f : f = [o \in 1..n |-> LeavesOf(f, o)]
      BY <1>2
    <2> DEFINE g == [o \in 1..(n + 1) |-> LeavesOf(f, o)]
    <2>2. \A o \in 1..n : g[o] = f[o]
      <3> TAKE o \in 1..n
      <3>1. f[o] = LeavesOf(f, o)
        BY <2>1
      <3>2. g[o] = LeavesOf(f, o)
        OBVIOUS
      <3> QED
        BY <3>1, <3>2
    <2>3. ASSUME NEW o \in 1..(n + 1)
          PROVE  LeavesOf(f, o) = LeavesOf(g, o)
      <3>1. o \in Objects
        BY <1>0 DEF Objects
      <3>2. \A p \in Objects : p < o => f[p] = g[p]
        BY <1>0, <2>2 DEF Objects
      <3> HIDE DEF g
      <3> QED
        BY <3>1, <3>2, LeavesOfParts
    <2>4. g = [o \in 1..(n + 1) |-> LeavesOf(g, o)]
      BY <2>3
    <2> HIDE DEF g
    <2> QED
      BY <1>0, <2>4
  <1>3. \A n \in 0..N : n \in S
    <2> HIDE DEF S, N
    <2> QED
      BY <1>0, <1>1, <1>2, Induction
  <1>4. \E f : f = [o \in Objects |-> LeavesOf(f, o)]
    BY <1>0, <1>3 DEF Objects
  <1>5. Leaves = CHOOSE f : f = [o \in Objects |-> LeavesOf(f, o)]
    BY DEF Leaves, LeavesOf
  <1> QED
    BY <1>4, <1>5

-----------------------------------------------------------------------------
(* Heads and tails are leaves, leaves are delayables *)

\* The leaves of an object are its parts' leaves.
LEMMA LeavesFacts ==
  ASSUME ObjectsOK, NEW o \in Objects
  PROVE  /\ kind[o] = "delayable" => Leaves[o] = {o}
         /\ kind[o] # "delayable" => Leaves[o] = UNION {Leaves[p] : p \in ToSet(parts[o])}
PROOF
  <1>1. Leaves[o] = LeavesOf(Leaves, o)
    BY LeavesDefined
  <1> QED
    BY <1>1 DEF LeavesOf

\* The ends of an object are its parts' ends; a chain swaps them.
LEMMA EndsFacts ==
  ASSUME ObjectsOK, NEW o \in Objects
  PROVE  /\ kind[o] = "delayable" => Ends[o].head = {o} /\ Ends[o].tail = {o}
         /\ kind[o] = "chain" => /\ Ends[o].head = Ends[parts[o][1]].tail
                                 /\ Ends[o].tail = Ends[Last(parts[o])].head
         /\ kind[o] = "group" =>
              /\ Ends[o].head = UNION {Ends[p].head : p \in ToSet(parts[o])}
              /\ Ends[o].tail = UNION {Ends[p].tail : p \in ToSet(parts[o])}
PROOF
  <1>1. Ends[o] = EndsOf(Ends, o)
    BY EndsDefined
  <1> QED
    BY <1>1 DEF EndsOf

\* Only delayables have jobs.
LEMMA LeavesAreDelayables ==
  ASSUME ObjectsOK
  PROVE  \A o \in Objects : Leaves[o] \subseteq Delayables
PROOF
  <1> DEFINE S == {o \in Objects : Leaves[o] \subseteq Delayables}
  <1>0. Len(kind) \in Nat
    BY DEF ObjectsOK
  <1>1. ASSUME NEW n \in 1..Len(kind), \A m \in 1..(n - 1) : m \in S
        PROVE  n \in S
    <2>1. n \in Objects
      BY DEF Objects
    <2>2. CASE kind[n] = "delayable"
      BY <2>1, <2>2, LeavesFacts DEF ObjectsOK
    <2>3. CASE kind[n] # "delayable"
      <3>1. \A p \in ToSet(parts[n]) : p \in Objects /\ p < n
        BY <2>1, PartFacts
      <3>2. \A p \in ToSet(parts[n]) : Leaves[p] \subseteq Delayables
        BY <1>0, <1>1, <3>1 DEF Objects
      <3>3. Leaves[n] = UNION {Leaves[p] : p \in ToSet(parts[n])}
        BY <2>1, <2>3, LeavesFacts
      <3> QED
        BY <2>1, <3>2, <3>3
    <2> QED
      BY <2>2, <2>3
  <1>2. \A n \in 1..Len(kind) : n \in S
    <2> HIDE DEF S
    <2> QED
      BY <1>0, <1>1, StrongInduction
  <1> QED
    BY <1>2 DEF Objects

\* Links through the heads and the tails of objects are links of their leaves.
LEMMA EndsAreLeaves ==
  ASSUME ObjectsOK
  PROVE  \A o \in Objects : /\ Ends[o].head \subseteq Leaves[o]
                            /\ Ends[o].tail \subseteq Leaves[o]
PROOF
  <1> DEFINE Good(o) == Ends[o].head \subseteq Leaves[o] /\ Ends[o].tail \subseteq Leaves[o]
             S == {o \in Objects : Good(o)}
  <1>0. Len(kind) \in Nat
    BY DEF ObjectsOK
  <1>1. ASSUME NEW n \in 1..Len(kind), \A m \in 1..(n - 1) : m \in S
        PROVE  n \in S
    <2>1. n \in Objects
      BY DEF Objects
    <2>2. \A p \in ToSet(parts[n]) : Good(p)
      <3>1. \A p \in ToSet(parts[n]) : p \in Objects /\ p < n
        BY <2>1, PartFacts
      <3> QED
        BY <1>0, <1>1, <3>1 DEF Objects
    <2>3. CASE kind[n] = "delayable"
      BY <2>1, <2>3, EndsFacts, LeavesFacts
    <2>4. CASE kind[n] = "chain"
      <3>1. parts[n][1] \in ToSet(parts[n]) /\ Last(parts[n]) \in ToSet(parts[n])
        BY <2>1, <2>4, PartFacts
      <3>2. Leaves[n] = UNION {Leaves[p] : p \in ToSet(parts[n])}
        BY <2>1, <2>4, LeavesFacts
      <3>3. Ends[n].head = Ends[parts[n][1]].tail /\ Ends[n].tail = Ends[Last(parts[n])].head
        BY <2>1, <2>4, EndsFacts
      <3> QED
        BY <2>1, <2>2, <3>1, <3>2, <3>3
    <2>5. CASE kind[n] = "group"
      <3>1. Leaves[n] = UNION {Leaves[p] : p \in ToSet(parts[n])}
        BY <2>1, <2>5, LeavesFacts
      <3>2. /\ Ends[n].head = UNION {Ends[p].head : p \in ToSet(parts[n])}
            /\ Ends[n].tail = UNION {Ends[p].tail : p \in ToSet(parts[n])}
        BY <2>1, <2>5, EndsFacts
      <3> QED
        BY <2>1, <2>2, <3>1, <3>2
    <2> QED
      BY <2>1, <2>3, <2>4, <2>5 DEF ObjectsOK, Objects
  <1>2. \A n \in 1..Len(kind) : n \in S
    <2> HIDE DEF S
    <2> QED
      BY <1>0, <1>1, StrongInduction
  <1> QED
    BY <1>2 DEF Objects

-----------------------------------------------------------------------------
(* The links between objects *)

Composed(o) == IF kind[o] = "chain" THEN Successive(parts[o]) ELSE {}

\* A graph holds what its chain, and the calls of on_done, have put in it.
LinksOK ==
  /\ links \subseteq Objects \X Objects
  /\ DOMAIN edges = Objects
  /\ \A o \in Objects :
       edges[o] = Composed(o) \cup (Linked(o) \X {p \in Objects : <<o, p>> \in links})

\* Successive parts are linked in a chain.
LEMMA ComposedFacts ==
  ASSUME ObjectsOK, NEW o \in Objects, kind[o] = "chain"
  PROVE  /\ \A e \in Composed(o) : \E i \in 1..Len(parts[o]) :
              /\ i + 1 \in 1..Len(parts[o])
              /\ e = <<parts[o][i], parts[o][i + 1]>>
         /\ \A i \in 1..Len(parts[o]) :
              i + 1 \in 1..Len(parts[o]) => <<parts[o][i], parts[o][i + 1]>> \in Composed(o)
PROOF
  <1>1. Len(parts[o]) \in Nat
    BY PartFacts
  <1>2. Composed(o) = {<<parts[o][i], parts[o][i + 1]>> : i \in 1..(Len(parts[o]) - 1)}
    BY DEF Composed, Successive
  <1> QED
    BY <1>1, <1>2

\* on_done links objects that the object is made of, or the object.
LEMMA LinkedFacts ==
  ASSUME ObjectsOK, NEW o \in Objects
  PROVE  /\ Linked(o) \subseteq Objects
         /\ kind[o] = "delayable" => Linked(o) = {o}
         /\ kind[o] = "chain" => Linked(o) = {Last(parts[o])}
         /\ kind[o] = "group" => Linked(o) = ToSet(parts[o])
         /\ \A a \in Linked(o) : Leaves[a] \subseteq Leaves[o]
PROOF
  <1>1. kind[o] = "delayable" => Linked(o) = {o}
    BY DEF Linked
  <1>2. kind[o] = "chain" => Linked(o) = {Last(parts[o])}
    BY DEF Linked
  <1>3. kind[o] = "group" => Linked(o) = ToSet(parts[o])
    BY DEF Linked
  <1>4. kind[o] \in {"delayable", "chain", "group"}
    BY DEF ObjectsOK, Objects
  <1>5. kind[o] # "delayable" => Linked(o) \subseteq ToSet(parts[o])
    <2>1. kind[o] = "chain" => Last(parts[o]) \in ToSet(parts[o])
      BY PartFacts
    <2> QED
      BY <1>2, <1>3, <1>4, <2>1
  <1>6. ToSet(parts[o]) \subseteq Objects
    BY PartFacts
  <1>7. kind[o] # "delayable" => \A p \in ToSet(parts[o]) : Leaves[p] \subseteq Leaves[o]
    BY LeavesFacts
  <1> QED
    BY <1>1, <1>2, <1>3, <1>5, <1>6, <1>7

\* A graph links the vertices it knows, and these are objects.
LEMMA VerticesFacts ==
  ASSUME ObjectsOK, LinksOK, NEW o \in Objects
  PROVE  /\ Vertices(o) \subseteq Objects
         /\ kind[o] = "delayable" => o \in Vertices(o)
         /\ kind[o] # "delayable" => ToSet(parts[o]) \subseteq Vertices(o)
         /\ \A e \in edges[o] : e[1] \in Vertices(o) /\ e[2] \in Vertices(o)
         /\ edges[o] \subseteq Objects \X Objects
PROOF
  <1>1. ToSet(parts[o]) \subseteq Objects
    BY PartFacts
  <1>2. Composed(o) \subseteq Objects \X Objects
    <2>1. CASE kind[o] = "chain"
      <3> SUFFICES ASSUME NEW e \in Composed(o)
                   PROVE  e \in Objects \X Objects
        OBVIOUS
      <3>1. PICK i \in 1..Len(parts[o]) : /\ i + 1 \in 1..Len(parts[o])
                                          /\ e = <<parts[o][i], parts[o][i + 1]>>
        BY <2>1, ComposedFacts
      <3> QED
        BY <3>1, PartFacts
    <2> QED
      BY <2>1 DEF Composed
  <1>3. Linked(o) \subseteq Objects
    BY LinkedFacts
  <1>4. edges[o] = Composed(o) \cup (Linked(o) \X {p \in Objects : <<o, p>> \in links})
    BY DEF LinksOK
  <1>5. edges[o] \subseteq Objects \X Objects
    BY <1>2, <1>3, <1>4
  <1> QED
    BY <1>1, <1>5 DEF Vertices

-----------------------------------------------------------------------------
(* The objects that delay() visits *)

\* The walk: what is seen after each round.
LEMMA Walk ==
  ASSUME ObjectsOK, LinksOK, NEW o \in Objects
  PROVE  \E f \in [0..Len(kind) -> SUBSET Objects] :
           /\ Within(o) = f[Len(kind)]
           /\ f[0] = {o}
           /\ \A n \in 1..Len(kind) :
                f[n] = f[n - 1] \cup UNION {Vertices(p) : p \in f[n - 1]}
PROOF
  <1> DEFINE N == Len(kind)
             T == SUBSET Objects
             D == [n \in 1..N |-> [s \in T |-> s \cup UNION {Vertices(p) : p \in s}]]
             Round(f, n) == IF n = 0 THEN {o} ELSE
                            f[n - 1] \cup UNION {Vertices(p) : p \in f[n - 1]}
  <1>0. N \in Nat
    BY DEF ObjectsOK
  <1>1. \A p \in Objects : Vertices(p) \subseteq Objects
    BY VerticesFacts
  <1>2. D \in [1..N -> [T -> T]] /\ {o} \in T
    <2>1. ASSUME NEW s \in T
          PROVE  s \cup UNION {Vertices(p) : p \in s} \in T
      BY <1>1
    <2> QED
      BY <2>1
  <1>3. PICK f \in [0..N -> T] : f[0] = {o} /\ \A n \in 1..N : f[n] = D[n][f[n - 1]]
    <2>1. \E f : IsIterated(f, N, T, {o}, D)
      <3> HIDE DEF N, T, D
      <3> QED
        BY <1>0, <1>2, Iteration
    <2> QED
      BY <2>1 DEF IsIterated
  <1>4. \A n \in 1..N : D[n][f[n - 1]] = f[n - 1] \cup UNION {Vertices(p) : p \in f[n - 1]}
    <2> TAKE n \in 1..N
    <2>1. f[n - 1] \in T
      BY <1>0
    <2> QED
      BY <2>1
  <1>5. f = [n \in 0..N |-> Round(f, n)]
    <2>1. ASSUME NEW n \in 0..N
          PROVE  f[n] = Round(f, n)
      <3>1. n # 0 => n \in 1..N
        BY <1>0
      <3> HIDE DEF D
      <3> QED
        BY <1>3, <1>4, <3>1
    <2> HIDE DEF D, Round
    <2> QED
      BY <2>1
  <1> DEFINE g == CHOOSE h : h = [n \in 0..N |-> Round(h, n)]
  <1>6. g = [n \in 0..N |-> Round(g, n)]
    <2> HIDE DEF Round
    <2> QED
      BY <1>5
  <1>7. Within(o) = g[N]
    BY DEF Within
  <1> HIDE DEF g
  <1>8. g[0] = {o} /\ \A n \in 1..N : g[n] = g[n - 1] \cup UNION {Vertices(p) : p \in g[n - 1]}
    <2>1. \A n \in 0..N : g[n] = Round(g, n)
      <3> HIDE DEF Round
      <3> QED
        BY <1>6
    <2>2. 0 \in 0..N /\ \A n \in 1..N : n \in 0..N /\ n # 0
      BY <1>0
    <2>3. g[0] = Round(g, 0)
      BY <2>1, <2>2
    <2>4. ASSUME NEW n \in 1..N
          PROVE  g[n] = Round(g, n) /\ n # 0
      BY <2>1, <2>2
    <2> QED
      BY <2>3, <2>4
  <1>9. \A n \in 0..N : g[n] \in T
    <2> DEFINE S == {n \in 0..N : g[n] \in T}
    <2>1. 0 \in S
      <3>1. 0 \in 0..N
        BY <1>0
      <3> QED
        BY <1>2, <1>8, <3>1
    <2>2. ASSUME NEW n \in 0..(N - 1), n \in S
          PROVE  n + 1 \in S
      <3>1. n + 1 \in 1..N /\ n + 1 \in 0..N /\ (n + 1) - 1 = n
        BY <1>0
      <3>2. g[n + 1] = g[n] \cup UNION {Vertices(p) : p \in g[n]}
        BY <1>8, <3>1
      <3> QED
        BY <1>1, <2>2, <3>1, <3>2
    <2> HIDE DEF S
    <2>3. \A n \in 0..N : n \in S
      BY <1>0, <2>1, <2>2, Induction
    <2> QED
      BY <2>3 DEF S
  <1>10. g \in [0..N -> T]
    <2> HIDE DEF Round, T
    <2> QED
      BY <1>6, <1>9
  <1> WITNESS g \in [0..N -> T]
  <1> QED
    BY <1>0, <1>7, <1>8, <1>10

\* delay() visits all there is to visit: it goes from the graphs it visits to no
\* other.  A round that finds nothing new is the last to; there are as many rounds
\* as objects, and each one but that finds a new one.
LEMMA WithinIsClosed ==
  ASSUME ObjectsOK, LinksOK, NEW o \in Objects
  PROVE  /\ o \in Within(o) /\ Within(o) \subseteq Objects
         /\ \A p \in Within(o) : Vertices(p) \subseteq Within(o)
PROOF
  <1> DEFINE N == Len(kind)
  <1>0. N \in Nat /\ Objects = 1..N
    BY DEF ObjectsOK, Objects
  <1>1. PICK f \in [0..N -> SUBSET Objects] :
          /\ Within(o) = f[N]
          /\ f[0] = {o}
          /\ \A n \in 1..N : f[n] = f[n - 1] \cup UNION {Vertices(p) : p \in f[n - 1]}
    BY Walk
  <1> DEFINE Done(n) == \A p \in f[n] : Vertices(p) \subseteq f[n]
             S == {n \in 0..N : o \in f[n] /\ (Done(n) \/ Cardinality(f[n]) >= n + 1)}
  <1>2. IsFiniteSet(Objects) /\ Cardinality(Objects) <= N
    <2>1. 1 \in Int /\ N \in Int
      BY <1>0
    <2>2. IsFiniteSet(1..N) /\ Cardinality(1..N) = IF 1 > N THEN 0 ELSE N - 1 + 1
      BY <2>1, FS_Interval
    <2> QED
      BY <1>0, <2>2
  <1>3. \A n \in 0..N : IsFiniteSet(f[n]) /\ Cardinality(f[n]) \in Nat /\ Cardinality(f[n]) <= N
    <2> TAKE n \in 0..N
    <2>1. f[n] \in SUBSET Objects
      OBVIOUS
    <2>2. IsFiniteSet(f[n]) /\ Cardinality(f[n]) <= Cardinality(Objects)
      BY <1>2, <2>1, FS_Subset
    <2>3. Cardinality(f[n]) \in Nat /\ Cardinality(Objects) \in Nat
      BY <1>2, <2>2, FS_CardinalityType
    <2> QED
      BY <1>0, <1>2, <2>2, <2>3
  <1>4. 0 \in S
    <2>1. 0 \in 0..N /\ Cardinality({o}) = 1
      BY <1>0, FS_Singleton
    <2>2. o \in f[0] /\ Cardinality(f[0]) >= 0 + 1
      BY <1>1, <2>1
    <2> QED
      BY <2>1, <2>2
  <1>5. ASSUME NEW n \in 0..(N - 1), n \in S
        PROVE  n + 1 \in S
    <2>1. n + 1 \in 1..N /\ (n + 1) - 1 = n /\ n + 1 \in 0..N /\ n \in 0..N /\ n \in Nat
      BY <1>0
    <2>2. f[n + 1] = f[n] \cup UNION {Vertices(p) : p \in f[n]}
      BY <1>1, <2>1
    <2>3. o \in f[n] /\ o \in f[n + 1]
      BY <1>5, <2>2
    <2>4. CASE Done(n)
      <3>1. f[n + 1] = f[n]
        BY <2>2, <2>4
      <3> QED
        BY <2>1, <2>3, <2>4, <3>1
    <2>5. CASE ~Done(n)
      <3>1. f[n] \subseteq f[n + 1] /\ f[n] # f[n + 1]
        BY <2>2, <2>5
      <3>2. Cardinality(f[n]) >= n + 1
        BY <1>5, <2>5
      <3>3. Cardinality(f[n]) < Cardinality(f[n + 1])
        <4>1. IsFiniteSet(f[n + 1]) /\ f[n] \in SUBSET f[n + 1]
          BY <1>3, <2>1, <3>1
        <4>2. /\ Cardinality(f[n]) <= Cardinality(f[n + 1])
              /\ Cardinality(f[n + 1]) # Cardinality(f[n])
          BY <3>1, <4>1, FS_Subset
        <4> QED
          BY <1>3, <2>1, <4>2
      <3>4. Cardinality(f[n + 1]) >= (n + 1) + 1
        BY <1>3, <2>1, <3>2, <3>3
      <3> QED
        BY <2>1, <2>3, <3>4
    <2> QED
      BY <2>4, <2>5
  <1>6. \A n \in 0..N : n \in S
    <2> HIDE DEF S, N
    <2> QED
      BY <1>0, <1>4, <1>5, Induction
  <1>7. N \in 0..N /\ N \in S
    BY <1>0, <1>6
  <1>8. Done(N)
    <2>1. Cardinality(f[N]) \in Nat /\ Cardinality(f[N]) <= N
      BY <1>3, <1>7
    <2>2. ~(Cardinality(f[N]) >= N + 1)
      BY <1>0, <2>1
    <2>3. Done(N) \/ Cardinality(f[N]) >= N + 1
      BY <1>7
    <2> HIDE DEF Done
    <2> QED
      BY <2>2, <2>3
  <1>9. f[N] \in SUBSET Objects
    BY <1>7
  <1> QED
    BY <1>1, <1>7, <1>8, <1>9

\* Hence it visits what an object it visits is made of,
LEMMA LeavesAreVisited ==
  ASSUME ObjectsOK, LinksOK, NEW o \in Objects
  PROVE  \A x \in Within(o) : Leaves[x] \subseteq Within(o)
PROOF
  <1> DEFINE S == {x \in Objects : x \in Within(o) => Leaves[x] \subseteq Within(o)}
  <1>0. Len(kind) \in Nat /\ Objects = 1..Len(kind)
    BY DEF ObjectsOK, Objects
  <1>1. ASSUME NEW n \in 1..Len(kind), \A m \in 1..(n - 1) : m \in S
        PROVE  n \in S
    <2>1. n \in Objects
      BY <1>0
    <2> SUFFICES ASSUME n \in Within(o)
                 PROVE  Leaves[n] \subseteq Within(o)
      BY <2>1
    <2>2. CASE kind[n] = "delayable"
      BY <2>1, <2>2, LeavesFacts
    <2>3. CASE kind[n] # "delayable"
      <3>1. \A p \in ToSet(parts[n]) : p \in Objects /\ p < n
        BY <2>1, PartFacts
      <3>2. \A p \in ToSet(parts[n]) : p \in Within(o)
        BY <2>1, <2>3, VerticesFacts, WithinIsClosed
      <3>3. \A p \in ToSet(parts[n]) : Leaves[p] \subseteq Within(o)
        BY <1>0, <1>1, <3>1, <3>2
      <3>4. Leaves[n] = UNION {Leaves[p] : p \in ToSet(parts[n])}
        BY <2>1, <2>3, LeavesFacts
      <3> QED
        BY <3>3, <3>4
    <2> QED
      BY <2>2, <2>3
  <1>2. \A n \in 1..Len(kind) : n \in S
    <2> HIDE DEF S
    <2> QED
      BY <1>0, <1>1, StrongInduction
  <1> QED
    BY <1>0, <1>2, WithinIsClosed

\* and makes a job of each delayable that an object it visits is composed of.
LEMMA BuiltIsComposed ==
  ASSUME ObjectsOK, LinksOK, NEW o \in Objects
  PROVE  BuiltVertices(o) = UNION {Leaves[x] : x \in Within(o)}
PROOF
  <1>1. Within(o) \subseteq Objects /\ \A p \in Within(o) : Vertices(p) \subseteq Within(o)
    BY WithinIsClosed
  <1>2. ASSUME NEW p \in Within(o), NEW v \in Vertices(p), NEW d \in Ends[v].tail
        PROVE  d \in UNION {Leaves[x] : x \in Within(o)}
    <2>1. v \in Within(o) /\ v \in Objects
      BY <1>1
    <2>2. d \in Leaves[v]
      BY <2>1, EndsAreLeaves
    <2> QED
      BY <2>1, <2>2
  <1>3. ASSUME NEW x \in Within(o), NEW d \in Leaves[x]
        PROVE  d \in BuiltVertices(o)
    <2>1. d \in Within(o) /\ d \in Objects
      BY <1>1, LeavesAreVisited
    <2>2. d \in Delayables
      BY <1>1, LeavesAreDelayables
    <2>3. kind[d] = "delayable"
      BY <2>1, <2>2 DEF ObjectsOK
    <2>4. d \in Vertices(d) /\ d \in Ends[d].tail
      BY <2>1, <2>3, VerticesFacts, EndsFacts
    <2>5. d \in MergedVertices(d)
      BY <2>4 DEF MergedVertices
    <2> QED
      BY <2>1, <2>5 DEF BuiltVertices
  <1>4. BuiltVertices(o) = UNION {UNION {Ends[v].tail : v \in Vertices(p)} : p \in Within(o)}
    BY DEF BuiltVertices, MergedVertices
  <1> QED
    BY <1>2, <1>3, <1>4

-----------------------------------------------------------------------------
(* The transitive closure of a relation *)

Transitive(R) == \A a, b, c : <<a, b>> \in R /\ <<b, c>> \in R => <<a, c>> \in R

\* The relation through the first k delayables.
LEMMA Paths ==
  ASSUME Size \in Nat, NEW G \in SUBSET (Delayables \X Delayables)
  PROVE  \E f \in [0..Size -> SUBSET (Delayables \X Delayables)] :
           /\ Closed(G) = f[Size]
           /\ f[0] = G
           /\ \A k \in 1..Size :
                f[k] = f[k - 1] \cup {e \in Delayables \X Delayables :
                                       <<e[1], k>> \in f[k - 1] /\ <<k, e[2]>> \in f[k - 1]}
PROOF
  <1> DEFINE T == SUBSET (Delayables \X Delayables)
             Through(s, k) == {e \in Delayables \X Delayables :
                                 <<e[1], k>> \in s /\ <<k, e[2]>> \in s}
             D == [k \in 1..Size |-> [s \in T |-> s \cup Through(s, k)]]
             Via(f, k) == IF k = 0 THEN G ELSE f[k - 1] \cup Through(f[k - 1], k)
  <1>1. \A s \in T, k \in 1..Size : s \cup Through(s, k) \in T
    OBVIOUS
  <1>2. D \in [1..Size -> [T -> T]]
    <2> HIDE DEF T, Through
    <2> QED
      BY <1>1
  <1>3. PICK f \in [0..Size -> T] : f[0] = G /\ \A k \in 1..Size : f[k] = D[k][f[k - 1]]
    <2>1. \E f : IsIterated(f, Size, T, G, D)
      <3>1. G \in T
        OBVIOUS
      <3> HIDE DEF T, D
      <3> QED
        BY <1>2, <3>1, Iteration
    <2> HIDE DEF T, D
    <2> QED
      BY <2>1 DEF IsIterated
  <1>4. \A k \in 1..Size : D[k][f[k - 1]] = f[k - 1] \cup Through(f[k - 1], k)
    <2> TAKE k \in 1..Size
    <2>1. f[k - 1] \in T
      OBVIOUS
    <2> HIDE DEF T, Through
    <2> QED
      BY <2>1
  <1>5. f = [k \in 0..Size |-> Via(f, k)]
    <2>1. ASSUME NEW k \in 0..Size
          PROVE  f[k] = Via(f, k)
      <3>1. k # 0 => k \in 1..Size
        OBVIOUS
      <3> HIDE DEF D, Through
      <3> QED
        BY <1>3, <1>4, <3>1
    <2> HIDE DEF D, Via, T
    <2> QED
      BY <2>1
  <1> DEFINE g == CHOOSE h : h = [k \in 0..Size |-> Via(h, k)]
  <1>6. g = [k \in 0..Size |-> Via(g, k)]
    <2> HIDE DEF Via
    <2> QED
      BY <1>5
  <1>7. Closed(G) = g[Size]
    BY DEF Closed
  <1> HIDE DEF g
  <1>8. g[0] = G /\ \A k \in 1..Size : g[k] = g[k - 1] \cup Through(g[k - 1], k)
    <2>1. \A k \in 0..Size : g[k] = Via(g, k)
      <3> HIDE DEF Via
      <3> QED
        BY <1>6
    <2>2. 0 \in 0..Size /\ \A k \in 1..Size : k \in 0..Size /\ k # 0
      OBVIOUS
    <2>3. g[0] = Via(g, 0)
      BY <2>1, <2>2
    <2>4. ASSUME NEW k \in 1..Size
          PROVE  g[k] = Via(g, k) /\ k # 0
      BY <2>1, <2>2
    <2> HIDE DEF Through
    <2> QED
      BY <2>3, <2>4
  <1>9. \A k \in 0..Size : g[k] \in T
    <2> DEFINE S == {k \in 0..Size : g[k] \in T}
    <2>1. 0 \in S
      BY <1>8
    <2>2. ASSUME NEW k \in 0..(Size - 1), k \in S
          PROVE  k + 1 \in S
      <3>1. k + 1 \in 1..Size /\ k + 1 \in 0..Size /\ (k + 1) - 1 = k
        OBVIOUS
      <3>2. g[k + 1] = g[k] \cup Through(g[k], k + 1)
        BY <1>8, <3>1
      <3>3. g[k] \in T
        BY <2>2
      <3> HIDE DEF T, Through
      <3> QED
        BY <1>1, <3>1, <3>2, <3>3
    <2> HIDE DEF S
    <2>3. \A k \in 0..Size : k \in S
      BY <2>1, <2>2, Induction
    <2> QED
      BY <2>3 DEF S
  <1>10. g \in [0..Size -> T]
    <2> HIDE DEF Via, T
    <2> QED
      BY <1>6, <1>9
  <1> WITNESS g \in [0..Size -> T]
  <1> QED
    BY <1>7, <1>8, <1>10

\* Closed is what it says: it extends the relation, and is transitive.
LEMMA ClosureFacts ==
  ASSUME Size \in Nat, NEW G \in SUBSET (Delayables \X Delayables)
  PROVE  /\ G \subseteq Closed(G) /\ Closed(G) \subseteq Delayables \X Delayables
         /\ \A a, b, c : <<a, b>> \in Closed(G) /\ <<b, c>> \in Closed(G) => <<a, c>> \in Closed(G)
         /\ G = {} => Closed(G) = {}
PROOF
  <1> DEFINE T == SUBSET (Delayables \X Delayables)
  <1>1. PICK f \in [0..Size -> T] :
          /\ Closed(G) = f[Size]
          /\ f[0] = G
          /\ \A k \in 1..Size :
               f[k] = f[k - 1] \cup {e \in Delayables \X Delayables :
                                      <<e[1], k>> \in f[k - 1] /\ <<k, e[2]>> \in f[k - 1]}
    BY Paths
  <1> DEFINE Trans(k) == \A a, c, j \in Delayables :
                           j <= k /\ <<a, j>> \in f[k] /\ <<j, c>> \in f[k] => <<a, c>> \in f[k]
             S == {k \in 0..Size : G \subseteq f[k] /\ Trans(k) /\ (G = {} => f[k] = {})}
  <1>2. 0 \in S
    BY <1>1 DEF Delayables
  <1>3. ASSUME NEW n \in 0..(Size - 1), n \in S
        PROVE  n + 1 \in S
    <2> DEFINE k == n + 1
    <2>1. k \in 1..Size /\ k \in 0..Size /\ k - 1 = n /\ k \in Delayables /\ n \in 0..Size
      BY DEF Delayables
    <2>2. f[k] = f[n] \cup {e \in Delayables \X Delayables :
                              <<e[1], k>> \in f[n] /\ <<k, e[2]>> \in f[n]}
      BY <1>1, <2>1
    <2>3. \A a, c \in Delayables :
            <<a, c>> \in f[k] <=> <<a, c>> \in f[n] \/ (<<a, k>> \in f[n] /\ <<k, c>> \in f[n])
      BY <2>2
    <2>4. ASSUME NEW a \in Delayables, NEW c \in Delayables, NEW j \in Delayables,
                 j <= k, <<a, j>> \in f[k], <<j, c>> \in f[k]
          PROVE  <<a, c>> \in f[k]
      <3>1. CASE j = k
        <4>1. <<a, k>> \in f[n] /\ <<k, c>> \in f[n]
          BY <2>1, <2>3, <2>4, <3>1
        <4> QED
          BY <2>3, <4>1
      <3>2. CASE j # k
        <4>1. j <= n
          BY <2>1, <2>4, <3>2 DEF Delayables
        <4>2. \A x, y \in Delayables : <<x, j>> \in f[n] /\ <<j, y>> \in f[n] => <<x, y>> \in f[n]
          BY <1>3, <4>1
        <4>3. <<a, j>> \in f[n] \/ (<<a, k>> \in f[n] /\ <<k, j>> \in f[n])
          BY <2>3, <2>4
        <4>4. <<j, c>> \in f[n] \/ (<<j, k>> \in f[n] /\ <<k, c>> \in f[n])
          BY <2>3, <2>4
        <4> HIDE DEF k
        <4> QED
          BY <2>1, <2>3, <4>2, <4>3, <4>4
      <3> QED
        BY <3>1, <3>2
    <2>5. G \subseteq f[k]
      BY <1>3, <2>2
    <2>6. G = {} => f[k] = {}
      BY <1>3, <2>2
    <2> HIDE DEF k
    <2>7. k \in S
      BY <2>1, <2>4, <2>5, <2>6
    <2> QED
      BY <2>7 DEF k
  <1>4. \A n \in 0..Size : n \in S
    <2> HIDE DEF S
    <2> QED
      BY <1>2, <1>3, Induction
  <1>5. Size \in S /\ f[Size] \in T
    BY <1>4
  <1>6. \A j \in Delayables : j <= Size
    BY DEF Delayables
  <1> QED
    BY <1>1, <1>5, <1>6

\* No transitive relation that extends it is smaller.
LEMMA ClosureIsLeast ==
  ASSUME Size \in Nat, NEW G \in SUBSET (Delayables \X Delayables),
         NEW R, Transitive(R), G \subseteq R
  PROVE  Closed(G) \subseteq R
PROOF
  <1>1. PICK f \in [0..Size -> SUBSET (Delayables \X Delayables)] :
          /\ Closed(G) = f[Size]
          /\ f[0] = G
          /\ \A k \in 1..Size :
               f[k] = f[k - 1] \cup {e \in Delayables \X Delayables :
                                      <<e[1], k>> \in f[k - 1] /\ <<k, e[2]>> \in f[k - 1]}
    BY Paths
  <1> DEFINE S == {k \in 0..Size : f[k] \subseteq R}
  <1>2. 0 \in S
    BY <1>1
  <1>3. ASSUME NEW n \in 0..(Size - 1), n \in S
        PROVE  n + 1 \in S
    <2> DEFINE k == n + 1
    <2>1. k \in 1..Size /\ k \in 0..Size /\ k - 1 = n /\ n \in 0..Size
      OBVIOUS
    <2>2. ASSUME NEW e \in f[k]
          PROVE  e \in R
      <3>1. CASE e \in f[n]
        BY <1>3, <3>1
      <3>2. CASE e \notin f[n]
        <4>1. /\ e \in Delayables \X Delayables
              /\ <<e[1], k>> \in f[n] /\ <<k, e[2]>> \in f[n]
          BY <1>1, <2>1, <2>2, <3>2
        <4>2. <<e[1], e[2]>> \in R
          BY <1>3, <4>1 DEF Transitive
        <4> QED
          BY <4>1, <4>2
      <3> QED
        BY <3>1, <3>2
    <2> HIDE DEF k
    <2>3. k \in S
      BY <2>1, <2>2
    <2> QED
      BY <2>3 DEF k
  <1>4. \A n \in 0..Size : n \in S
    <2> HIDE DEF S
    <2> QED
      BY <1>2, <1>3, Induction
  <1> QED
    BY <1>1, <1>4

-----------------------------------------------------------------------------
(* The links between jobs *)

\* What is promised of the objects of S: by their chains, and by on_done.
LEMMA PromisedFacts ==
  ASSUME ObjectsOK, MaxParts \in Nat, NEW S \in SUBSET Objects
  PROVE  /\ \A x \in S : \A i, j \in 1..Len(parts[x]) : kind[x] = "chain" /\ i < j =>
              Leaves[parts[x][i]] \X Leaves[parts[x][j]] \subseteq PromisedIn(S)
         /\ \A x \in S : \A y : <<x, y>> \in links => Leaves[x] \X Leaves[y] \subseteq PromisedIn(S)
         /\ \A d \in PromisedIn(S) :
              \/ \E x \in S : \E i, j \in 1..Len(parts[x]) :
                   /\ kind[x] = "chain" /\ i < j
                   /\ d \in Leaves[parts[x][i]] \X Leaves[parts[x][j]]
              \/ \E l \in links : l[1] \in S /\ d \in Leaves[l[1]] \X Leaves[l[2]]
PROOF
  <1>1. PromisedIn(S) = ChainPromises(S) \cup LinkPromises(S)
    BY DEF PromisedIn
  <1>2. ASSUME NEW x \in S, NEW i \in 1..Len(parts[x]), NEW j \in 1..Len(parts[x]),
               kind[x] = "chain", i < j
        PROVE  Leaves[parts[x][i]] \X Leaves[parts[x][j]] \subseteq ChainPromises(S)
    <2>1. Len(parts[x]) \in Nat /\ Len(parts[x]) <= MaxParts
      BY PartFacts DEF ObjectsOK
    <2> DEFINE T == {u \in S \X (1..MaxParts) \X (1..MaxParts) :
                       kind[u[1]] = "chain" /\ u[2] < u[3] /\ u[3] <= Len(parts[u[1]])}
               t == <<x, i, j>>
    <2>2. t \in T /\ t[1] = x /\ t[2] = i /\ t[3] = j
      BY <1>2, <2>1
    <2> HIDE DEF t
    <2> QED
      BY <2>2 DEF ChainPromises
  <1>3. ASSUME NEW x \in S, NEW y, <<x, y>> \in links
        PROVE  Leaves[x] \X Leaves[y] \subseteq LinkPromises(S)
    <2> DEFINE l == <<x, y>>
    <2>1. l \in {m \in links : m[1] \in S} /\ l[1] = x /\ l[2] = y
      BY <1>3
    <2> HIDE DEF l
    <2> QED
      BY <2>1 DEF LinkPromises
  <1>4. ASSUME NEW d \in ChainPromises(S)
        PROVE  \E x \in S : \E i, j \in 1..Len(parts[x]) :
                   /\ kind[x] = "chain" /\ i < j
                   /\ d \in Leaves[parts[x][i]] \X Leaves[parts[x][j]]
    <2>1. PICK t \in {u \in S \X (1..MaxParts) \X (1..MaxParts) :
                       kind[u[1]] = "chain" /\ u[2] < u[3] /\ u[3] <= Len(parts[u[1]])} :
            d \in Leaves[parts[t[1]][t[2]]] \X Leaves[parts[t[1]][t[3]]]
      BY <1>4 DEF ChainPromises
    <2>2. /\ t[1] \in S /\ t[2] \in 1..MaxParts /\ t[3] \in 1..MaxParts
          /\ kind[t[1]] = "chain" /\ t[2] < t[3] /\ t[3] <= Len(parts[t[1]])
      OBVIOUS
    <2>3. Len(parts[t[1]]) \in Nat
      BY <2>2, PartFacts
    <2>4. t[2] \in 1..Len(parts[t[1]]) /\ t[3] \in 1..Len(parts[t[1]])
      BY <2>2, <2>3
    <2> QED
      BY <2>1, <2>2, <2>4
  <1>5. ASSUME NEW d \in LinkPromises(S)
        PROVE  \E l \in links : l[1] \in S /\ d \in Leaves[l[1]] \X Leaves[l[2]]
    BY <1>5 DEF LinkPromises
  <1> QED
    BY <1>1, <1>2, <1>3, <1>4, <1>5

\* A link between jobs comes from a link between objects that delay() visits.
LEMMA BuiltEdgesFacts ==
  ASSUME ObjectsOK, LinksOK, NEW o \in Objects
  PROVE  /\ \A d \in BuiltEdges(o) : \E p \in Within(o), a, b \in Objects :
              <<a, b>> \in edges[p] /\ d \in Ends[a].tail \X Ends[b].head
         /\ \A p \in Within(o), a, b \in Objects :
              <<a, b>> \in edges[p] => Ends[a].tail \X Ends[b].head \subseteq BuiltEdges(o)
PROOF
  <1>1. BuiltEdges(o) = UNION {UNION {Ends[e[1]].tail \X Ends[e[2]].head : e \in edges[p]} :
                                 p \in Within(o)}
    BY DEF BuiltEdges, MergedEdges
  <1>2. Within(o) \subseteq Objects
    BY WithinIsClosed
  <1>3. ASSUME NEW d \in BuiltEdges(o)
        PROVE  \E p \in Within(o), a, b \in Objects :
                 <<a, b>> \in edges[p] /\ d \in Ends[a].tail \X Ends[b].head
    <2>0. PICK p \in Within(o) : d \in MergedEdges(p)
      BY DEF BuiltEdges
    <2>1. PICK e \in edges[p] : d \in Ends[e[1]].tail \X Ends[e[2]].head
      BY <2>0 DEF MergedEdges
    <2>2. e \in Objects \X Objects
      BY <1>2, VerticesFacts
    <2>3. e = <<e[1], e[2]>> /\ e[1] \in Objects /\ e[2] \in Objects
      BY <2>2
    <2> QED
      BY <2>1, <2>3
  <1>4. ASSUME NEW p \in Within(o), NEW a \in Objects, NEW b \in Objects, <<a, b>> \in edges[p]
        PROVE  Ends[a].tail \X Ends[b].head \subseteq BuiltEdges(o)
    <2>1. <<a, b>>[1] = a /\ <<a, b>>[2] = b
      OBVIOUS
    <2> QED
      BY <1>1, <1>4, <2>1
  <1> QED
    BY <1>3, <1>4

\* No job waits in vain: for jobs only that a chain or on_done puts before it.
LEMMA BuiltIsPromised ==
  ASSUME ObjectsOK, LinksOK, MaxParts \in Nat, NEW o \in Objects
  PROVE  BuiltEdges(o) \subseteq Promised(o)
PROOF
  <1> SUFFICES ASSUME NEW d \in BuiltEdges(o)
               PROVE  d \in Promised(o)
    OBVIOUS
  <1>1. PICK p \in Within(o), a \in Objects, b \in Objects :
          <<a, b>> \in edges[p] /\ d \in Ends[a].tail \X Ends[b].head
    BY BuiltEdgesFacts
  <1>2. p \in Objects
    BY WithinIsClosed
  <1>6. Within(o) \subseteq Objects
    BY WithinIsClosed
  <1>3. d \in Leaves[a] \X Leaves[b]
    BY <1>1, EndsAreLeaves
  <1>4. CASE <<a, b>> \in Composed(p)
    <2>1. kind[p] = "chain"
      BY <1>4 DEF Composed
    <2>2. PICK i \in 1..Len(parts[p]) : /\ i + 1 \in 1..Len(parts[p])
                                        /\ <<a, b>> = <<parts[p][i], parts[p][i + 1]>>
      BY <1>2, <1>4, <2>1, ComposedFacts
    <2>3. i < i + 1 /\ d \in Leaves[parts[p][i]] \X Leaves[parts[p][i + 1]]
      BY <1>3, <2>2
    <2>4. Leaves[parts[p][i]] \X Leaves[parts[p][i + 1]] \subseteq PromisedIn(Within(o))
      BY <1>6, <2>1, <2>2, <2>3, PromisedFacts
    <2> QED
      BY <2>3, <2>4 DEF Promised
  <1>5. CASE a \in Linked(p) /\ <<p, b>> \in links
    <2>1. Leaves[a] \subseteq Leaves[p]
      BY <1>2, <1>5, LinkedFacts
    <2>2. d \in Leaves[p] \X Leaves[b]
      BY <1>3, <2>1
    <2>3. Leaves[p] \X Leaves[b] \subseteq PromisedIn(Within(o))
      BY <1>5, <1>6, PromisedFacts
    <2> QED
      BY <2>2, <2>3 DEF Promised
  <1> QED
    BY <1>1, <1>2, <1>4, <1>5 DEF LinksOK

-----------------------------------------------------------------------------
(* Every promise is kept *)

Reaches(R, a, b) == a = b \/ <<a, b>> \in R

\* Each leaf of an object waits for a head of it, and a tail of it for each leaf.
Spanned(R, x) ==
  \A d \in Leaves[x] : /\ \E h \in Ends[x].head : Reaches(R, h, d)
                       /\ \E t \in Ends[x].tail : Reaches(R, d, t)

\* From a leaf to a tail, from the tail to a head, from the head to a leaf.
LEMMA LinkIsKept ==
  ASSUME NEW R, Transitive(R), NEW x, NEW y, NEW a, NEW t, NEW h, NEW b,
         Reaches(R, a, t), <<t, h>> \in R, Reaches(R, h, b)
  PROVE  <<a, b>> \in R
PROOF
  <1>1. <<a, h>> \in R
    BY DEF Transitive, Reaches
  <1> QED
    BY <1>1 DEF Transitive, Reaches

\* In a chain of spanned parts, each leaf of a part waits for all of the parts before.
LEMMA ChainIsKept ==
  ASSUME ObjectsOK, LinksOK, NEW o \in Objects,
         NEW R, Transitive(R), BuiltEdges(o) \subseteq R,
         \A x \in Within(o) : Leaves[x] # {},
         NEW c \in Within(o), kind[c] = "chain",
         \A p \in ToSet(parts[c]) : Spanned(R, p)
  PROVE  \A i, j \in 1..Len(parts[c]) :
           i < j => Leaves[parts[c][i]] \X Leaves[parts[c][j]] \subseteq R
PROOF
  <1> DEFINE N == Len(parts[c])
             P(i) == parts[c][i]
             Kept(n) == \A i, j \in 1..N :
                          i < j /\ j <= i + n => Leaves[P(i)] \X Leaves[P(j)] \subseteq R
             S == {n \in 0..N : Kept(n)}
  <1>1. c \in Objects /\ Within(o) \subseteq Objects
    BY WithinIsClosed
  <1>2. N \in Nat /\ \A i \in 1..N : P(i) \in ToSet(parts[c]) /\ P(i) \in Objects
    BY <1>1, PartFacts
  <1>3. \A i \in 1..N : P(i) \in Within(o) /\ Leaves[P(i)] # {} /\ Spanned(R, P(i))
    <2>1. ToSet(parts[c]) \subseteq Within(o)
      BY <1>1, VerticesFacts, WithinIsClosed
    <2> QED
      BY <1>2, <2>1
  <1>4. \A i \in 1..N : i + 1 \in 1..N => Leaves[P(i)] \X Leaves[P(i + 1)] \subseteq R
    <2> SUFFICES ASSUME NEW i \in 1..N, i + 1 \in 1..N,
                        NEW a \in Leaves[P(i)], NEW b \in Leaves[P(i + 1)]
                 PROVE  <<a, b>> \in R
      OBVIOUS
    <2>1. <<P(i), P(i + 1)>> \in edges[c]
      <3>1. <<P(i), P(i + 1)>> \in Composed(c)
        BY <1>1, ComposedFacts
      <3> QED
        BY <1>1, <3>1 DEF LinksOK
    <2> HIDE DEF P, N
    <2>2. PICK t \in Ends[P(i)].tail : Reaches(R, a, t)
      BY <1>3 DEF Spanned
    <2>3. PICK h \in Ends[P(i + 1)].head : Reaches(R, h, b)
      BY <1>3 DEF Spanned
    <2>4. Ends[P(i)].tail \X Ends[P(i + 1)].head \subseteq BuiltEdges(o)
      BY <1>2, <2>1, BuiltEdgesFacts
    <2>5. <<t, h>> \in R
      BY <2>4
    <2> QED
      BY <2>2, <2>3, <2>5, LinkIsKept
  <1>5. 0 \in S
    BY <1>2
  <1>6. ASSUME NEW n \in 0..(N - 1), n \in S
        PROVE  n + 1 \in S
    <2>1. n \in Nat /\ n + 1 \in 0..N /\ Kept(n)
      BY <1>2, <1>6
    <2>2. ASSUME NEW i \in 1..N, NEW j \in 1..N, i < j, j <= i + (n + 1)
          PROVE  Leaves[P(i)] \X Leaves[P(j)] \subseteq R
      <3>1. CASE j <= i + n
        BY <2>1, <2>2, <3>1
      <3>2. CASE j = i + 1
        BY <1>4, <3>2
      <3>3. CASE j > i + n /\ j # i + 1
        <4>1. j - 1 \in 1..N /\ i < j - 1 /\ j - 1 <= i + n /\ (j - 1) + 1 = j
          BY <1>2, <2>1, <2>2, <3>3
        <4>2. Leaves[P(i)] \X Leaves[P(j - 1)] \subseteq R
          BY <2>1, <4>1
        <4>3. Leaves[P(j - 1)] \X Leaves[P(j)] \subseteq R
          BY <1>4, <4>1
        <4>4. PICK m : m \in Leaves[P(j - 1)]
          BY <1>3, <4>1
        <4> HIDE DEF P
        <4>5. ASSUME NEW a \in Leaves[P(i)], NEW b \in Leaves[P(j)]
              PROVE  <<a, b>> \in R
          <5>1. <<a, m>> \in R /\ <<m, b>> \in R
            BY <4>2, <4>3, <4>4
          <5> QED
            BY <5>1 DEF Transitive
        <4> QED
          BY <4>5
      <3> QED
        BY <1>2, <2>1, <3>1, <3>2, <3>3
    <2>3. Kept(n + 1)
      BY <2>2
    <2> HIDE DEF Kept
    <2> QED
      BY <2>1, <2>3
  <1>7. \A n \in 0..N : n \in S
    <2> HIDE DEF S, N
    <2> QED
      BY <1>2, <1>5, <1>6, Induction
  <1>8. N \in 0..N /\ Kept(N)
    BY <1>2, <1>7
  <1>9. \A i, j \in 1..N : j <= i + N
    BY <1>2
  <1> QED
    BY <1>8, <1>9

\* Every object that delay() visits is spanned, when none is hollow or bent.
LEMMA AllAreSpanned ==
  ASSUME ObjectsOK, LinksOK, NEW o \in Objects,
         NEW R, Transitive(R), BuiltEdges(o) \subseteq R,
         \A x \in Within(o) : Leaves[x] # {},
         \A x \in Within(o) : kind[x] = "chain" =>
           \A p \in {parts[x][1], Last(parts[x])} : Ends[p].head = Ends[p].tail
  PROVE  \A x \in Within(o) : Spanned(R, x)
PROOF
  <1> DEFINE S == {x \in Objects : x \in Within(o) => Spanned(R, x)}
  <1>0. Len(kind) \in Nat /\ Objects = 1..Len(kind)
    BY DEF ObjectsOK, Objects
  <1>1. ASSUME NEW x \in 1..Len(kind), \A m \in 1..(x - 1) : m \in S
        PROVE  x \in S
    <2>1. x \in Objects
      BY <1>0
    <2> SUFFICES ASSUME x \in Within(o)
                 PROVE  Spanned(R, x)
      BY <2>1
    <2>2. CASE kind[x] = "delayable"
      BY <2>1, <2>2, LeavesFacts, EndsFacts DEF Spanned, Reaches
    <2>3. ASSUME kind[x] # "delayable"
          PROVE  \A p \in ToSet(parts[x]) : Spanned(R, p)
      <3>1. \A p \in ToSet(parts[x]) : p \in Objects /\ p < x
        BY <2>1, PartFacts
      <3>2. \A p \in ToSet(parts[x]) : p \in Within(o)
        BY <2>1, <2>3, VerticesFacts, WithinIsClosed
      <3> QED
        BY <1>0, <1>1, <3>1, <3>2
    <2>4. CASE kind[x] = "chain"
      <3> DEFINE N == Len(parts[x])
                 first == parts[x][1]
                 last == Last(parts[x])
      <3>1. /\ N \in Nat /\ 1 \in 1..N /\ N \in 1..N /\ last = parts[x][N]
            /\ first \in ToSet(parts[x]) /\ last \in ToSet(parts[x])
        BY <2>1, <2>4, PartFacts
      <3>2. Spanned(R, first) /\ Spanned(R, last)
        BY <2>3, <2>4, <3>1
      <3>3. Ends[x].head = Ends[first].head /\ Ends[x].tail = Ends[last].tail
        BY <2>1, <2>4, EndsFacts
      <3>4. first \in Objects /\ last \in Objects /\ Leaves[first] # {} /\ Leaves[last] # {}
        <4>1. first \in Within(o) /\ last \in Within(o)
          BY <2>1, <2>4, <3>1, VerticesFacts, WithinIsClosed
        <4> QED
          BY <4>1, WithinIsClosed
      <3>5. PICK h \in Ends[first].head : h \in Leaves[first]
        <4>1. PICK d : d \in Leaves[first]
          BY <3>4
        <4>2. PICK h \in Ends[first].head : Reaches(R, h, d)
          BY <3>2, <4>1 DEF Spanned
        <4> QED
          BY <3>4, <4>2, EndsAreLeaves
      <3>6. PICK t \in Ends[last].tail : t \in Leaves[last]
        <4>1. PICK d : d \in Leaves[last]
          BY <3>4
        <4>2. PICK t \in Ends[last].tail : Reaches(R, d, t)
          BY <3>2, <4>1 DEF Spanned
        <4> QED
          BY <3>4, <4>2, EndsAreLeaves
      <3>7. \A i, j \in 1..N : i < j => Leaves[parts[x][i]] \X Leaves[parts[x][j]] \subseteq R
        BY <2>3, <2>4, ChainIsKept
      <3> SUFFICES ASSUME NEW d \in Leaves[x]
                   PROVE  /\ \E u \in Ends[first].head : Reaches(R, u, d)
                          /\ \E u \in Ends[last].tail : Reaches(R, d, u)
        BY <3>3 DEF Spanned
      <3>8. PICK i \in 1..N : d \in Leaves[parts[x][i]]
        <4>1. PICK p \in ToSet(parts[x]) : d \in Leaves[p]
          BY <2>1, <2>4, LeavesFacts
        <4>2. PICK i \in 1..N : p = parts[x][i]
          <5>1. DOMAIN parts[x] = 1..N
            BY <2>1, PartFacts
          <5> QED
            BY <5>1 DEF ToSet
        <4> QED
          BY <4>1, <4>2
      <3>9. \E u \in Ends[first].head : Reaches(R, u, d)
        <4>1. CASE i = 1
          BY <3>2, <3>8, <4>1 DEF Spanned
        <4>2. CASE i # 1
          <5>1. Leaves[parts[x][1]] \X Leaves[parts[x][i]] \subseteq R
            BY <3>1, <3>7, <4>2
          <5>2. <<h, d>> \in R
            BY <3>5, <3>8, <5>1
          <5> QED
            BY <3>5, <5>2 DEF Reaches
        <4> QED
          BY <4>1, <4>2
      <3>10. \E u \in Ends[last].tail : Reaches(R, d, u)
        <4>1. CASE i = N
          BY <3>1, <3>2, <3>8, <4>1 DEF Spanned
        <4>2. CASE i # N
          <5>1. Leaves[parts[x][i]] \X Leaves[parts[x][N]] \subseteq R
            BY <3>1, <3>7, <4>2
          <5>2. <<d, t>> \in R
            BY <3>1, <3>6, <3>8, <5>1
          <5> QED
            BY <3>6, <5>2 DEF Reaches
        <4> QED
          BY <4>1, <4>2
      <3> QED
        BY <3>9, <3>10
    <2>5. CASE kind[x] = "group"
      <3>1. /\ Leaves[x] = UNION {Leaves[p] : p \in ToSet(parts[x])}
            /\ Ends[x].head = UNION {Ends[p].head : p \in ToSet(parts[x])}
            /\ Ends[x].tail = UNION {Ends[p].tail : p \in ToSet(parts[x])}
        BY <2>1, <2>5, LeavesFacts, EndsFacts
      <3> SUFFICES ASSUME NEW d \in Leaves[x]
                   PROVE  /\ \E u \in Ends[x].head : Reaches(R, u, d)
                          /\ \E u \in Ends[x].tail : Reaches(R, d, u)
        BY DEF Spanned
      <3>2. PICK p \in ToSet(parts[x]) : d \in Leaves[p]
        BY <3>1
      <3>3. Spanned(R, p)
        BY <2>3, <2>5
      <3>4. Ends[p].head \subseteq Ends[x].head /\ Ends[p].tail \subseteq Ends[x].tail
        BY <3>1
      <3> QED
        BY <3>2, <3>3, <3>4 DEF Spanned
    <2> QED
      BY <2>1, <2>2, <2>4, <2>5 DEF ObjectsOK, Objects
  <1>2. \A n \in 1..Len(kind) : n \in S
    <2> HIDE DEF S
    <2> QED
      BY <1>0, <1>1, StrongInduction
  <1> QED
    BY <1>0, <1>2, WithinIsClosed

\* Then every job waits for the jobs that chains and on_done put before it.
LEMMA PromiseIsKept ==
  ASSUME ObjectsOK, LinksOK, MaxParts \in Nat, NEW o \in Objects,
         NEW R, Transitive(R), BuiltEdges(o) \subseteq R,
         \A x \in Within(o) : Leaves[x] # {},
         \A x \in Within(o) : kind[x] = "chain" =>
           \A p \in {parts[x][1], Last(parts[x])} : Ends[p].head = Ends[p].tail
  PROVE  Promised(o) \subseteq R
PROOF
  <1> SUFFICES ASSUME NEW d \in Promised(o)
               PROVE  d \in R
    OBVIOUS
  <1>1. Within(o) \in SUBSET Objects
    BY WithinIsClosed
  <1>2. \A x \in Within(o) : Spanned(R, x)
    BY AllAreSpanned
  <1>3. \/ \E x \in Within(o) : \E i, j \in 1..Len(parts[x]) :
             /\ kind[x] = "chain" /\ i < j
             /\ d \in Leaves[parts[x][i]] \X Leaves[parts[x][j]]
        \/ \E l \in links : l[1] \in Within(o) /\ d \in Leaves[l[1]] \X Leaves[l[2]]
    BY <1>1, PromisedFacts DEF Promised
  <1>4. ASSUME NEW x \in Within(o), NEW i \in 1..Len(parts[x]), NEW j \in 1..Len(parts[x]),
               kind[x] = "chain", i < j, d \in Leaves[parts[x][i]] \X Leaves[parts[x][j]]
        PROVE  d \in R
    <2>1. \A p \in ToSet(parts[x]) : p \in Within(o)
      BY <1>1, <1>4, VerticesFacts, WithinIsClosed
    <2>2. \A p \in ToSet(parts[x]) : Spanned(R, p)
      BY <1>2, <2>1
    <2>3. Leaves[parts[x][i]] \X Leaves[parts[x][j]] \subseteq R
      BY <1>4, <2>2, ChainIsKept
    <2> QED
      BY <1>4, <2>3
  <1>5. ASSUME NEW l \in links, l[1] \in Within(o), d \in Leaves[l[1]] \X Leaves[l[2]]
        PROVE  d \in R
    <2> DEFINE x == l[1]
               y == l[2]
    <2>1. x \in Within(o) /\ x \in Objects /\ y \in Objects /\ <<x, y>> \in links
      BY <1>1, <1>5 DEF LinksOK
    <2>2. PICK a \in Leaves[x], b \in Leaves[y] : d = <<a, b>>
      BY <1>5
    <2> HIDE DEF x, y
    <2>3. PICK u \in Linked(x) : \E t \in Ends[u].tail : Reaches(R, a, t)
      <3>1. CASE kind[x] = "delayable"
        <4>1. Linked(x) = {x}
          BY <2>1, <3>1, LinkedFacts
        <4> QED
          BY <1>2, <2>1, <2>2, <4>1 DEF Spanned
      <3>2. CASE kind[x] = "chain"
        <4>1. Linked(x) = {Last(parts[x])}
          BY <2>1, <3>2, LinkedFacts
        <4>2. Ends[x].tail = Ends[Last(parts[x])].tail
          BY <2>1, <3>2, EndsFacts
        <4> QED
          BY <1>2, <2>1, <2>2, <4>1, <4>2 DEF Spanned
      <3>3. CASE kind[x] = "group"
        <4>1. Linked(x) = ToSet(parts[x])
          BY <2>1, <3>3, LinkedFacts
        <4>2. Leaves[x] = UNION {Leaves[p] : p \in ToSet(parts[x])}
          BY <2>1, <3>3, LeavesFacts
        <4>3. PICK p \in ToSet(parts[x]) : a \in Leaves[p]
          BY <2>2, <4>2
        <4>4. p \in Within(o)
          BY <2>1, <3>3, VerticesFacts, WithinIsClosed
        <4> QED
          BY <1>2, <4>1, <4>3, <4>4 DEF Spanned
      <3> QED
        BY <2>1, <3>1, <3>2, <3>3 DEF ObjectsOK, Objects
    <2>4. PICK t \in Ends[u].tail : Reaches(R, a, t)
      BY <2>3
    <2>5. <<u, y>> \in edges[x] /\ u \in Objects
      BY <2>1, <2>3, LinkedFacts DEF LinksOK
    <2>6. y \in Within(o)
      <3>1. \A e \in edges[x] : e[2] \in Vertices(x)
        BY <2>1, VerticesFacts
      <3>2. <<u, y>>[2] = y
        OBVIOUS
      <3>3. y \in Vertices(x)
        BY <2>5, <3>1, <3>2
      <3> QED
        BY <2>1, <3>3, WithinIsClosed
    <2>7. PICK h \in Ends[y].head : Reaches(R, h, b)
      BY <1>2, <2>2, <2>6 DEF Spanned
    <2>8. <<t, h>> \in R
      <3>1. Ends[u].tail \X Ends[y].head \subseteq BuiltEdges(o)
        BY <2>1, <2>5, BuiltEdgesFacts
      <3> QED
        BY <3>1
    <2> QED
      BY <2>2, <2>4, <2>7, <2>8, LinkIsKept
  <1> QED
    BY <1>3, <1>4, <1>5

-----------------------------------------------------------------------------
(* The inductive invariant *)

\* What is stored, or run at once, is what was built; nothing before delay().
BuiltOK ==
  /\ top \in Objects \cup {0}
  /\ given \subseteq Keyed
  /\ \/ jobs = {} /\ deps = {}
     \/ top # 0 /\ jobs = BuiltVertices(top) /\ deps = BuiltEdges(top)

\* topological_sort: the count of a job is that of the jobs it waits for that
\* have not run; the jobs that wait for none are in the queue or have run.
SortOK ==
  \/ line = <<>> /\ ran = <<>> /\ left = <<>>
  \/ /\ top # 0
     /\ line \in Seq(jobs) /\ ran \in Seq(jobs) /\ DOMAIN left = jobs
     /\ IsInjective(line) /\ IsInjective(ran)
     /\ ToSet(line) \cap ToSet(ran) = {}
     /\ \A c \in jobs : left[c] = Cardinality(Parents(deps, c) \ ToSet(ran))
     /\ \A c \in jobs : left[c] = 0 <=> c \in ToSet(line) \cup ToSet(ran)
     /\ \A i \in DOMAIN ran : Parents(deps, ran[i]) \subseteq {ran[k] : k \in 1..(i - 1)}

Inv == ObjectsOK /\ LinksOK /\ Acyclic /\ BuiltOK /\ SortOK

\* The dependencies are between jobs.
LEMMA BuiltFacts ==
  ASSUME ObjectsOK, LinksOK, NEW o \in Objects
  PROVE  /\ BuiltVertices(o) \subseteq Delayables
         /\ BuiltEdges(o) \subseteq BuiltVertices(o) \X BuiltVertices(o)
PROOF
  <1>1. BuiltVertices(o) = UNION {Leaves[x] : x \in Within(o)}
    BY BuiltIsComposed
  <1>2. Within(o) \subseteq Objects /\ \A p \in Within(o) : Vertices(p) \subseteq Within(o)
    BY WithinIsClosed
  <1>3. BuiltVertices(o) \subseteq Delayables
    BY <1>1, <1>2, LeavesAreDelayables
  <1>4. ASSUME NEW d \in BuiltEdges(o)
        PROVE  d \in BuiltVertices(o) \X BuiltVertices(o)
    <2>1. PICK p \in Within(o), a \in Objects, b \in Objects :
            <<a, b>> \in edges[p] /\ d \in Ends[a].tail \X Ends[b].head
      BY BuiltEdgesFacts
    <2>2. <<a, b>>[1] = a /\ <<a, b>>[2] = b
      OBVIOUS
    <2>3. a \in Vertices(p) /\ b \in Vertices(p)
      BY <1>2, <2>1, <2>2, VerticesFacts
    <2>4. a \in Within(o) /\ b \in Within(o)
      BY <1>2, <2>3
    <2>5. d \in Leaves[a] \X Leaves[b]
      BY <2>1, EndsAreLeaves
    <2>6. Leaves[a] \subseteq BuiltVertices(o) /\ Leaves[b] \subseteq BuiltVertices(o)
      BY <1>1, <2>4
    <2> QED
      BY <2>5, <2>6
  <1> QED
    BY <1>3, <1>4

\* What the invariant says of what is stored.
LEMMA StoredFacts ==
  ASSUME Inv
  PROVE  /\ jobs \subseteq Delayables /\ deps \subseteq jobs \X jobs
         /\ IsFiniteSet(jobs)
         /\ jobs # {} => top \in Objects
PROOF
  <1>1. ObjectsOK /\ LinksOK /\ BuiltOK
    BY DEF Inv
  <1>2. jobs \subseteq Delayables /\ deps \subseteq jobs \X jobs /\ (jobs # {} => top \in Objects)
    BY <1>1, BuiltFacts DEF BuiltOK
  <1>3. IsFiniteSet(Delayables)
    <2>1. 1 \in Int /\ Size \in Int
      BY DelayAssumption
    <2> QED
      BY <2>1, FS_Interval DEF Delayables
  <1> QED
    BY <1>2, <1>3, FS_Subset

\* The sizes are numbers.
LEMMA Sizes == Size \in Nat /\ MaxParts \in Nat
PROOF
  BY DelayAssumption

-----------------------------------------------------------------------------
(* What the invariant implies *)

\* The invariant implies type correctness.
LEMMA InvTyped ==
  ASSUME Inv
  PROVE  TypeOK
PROOF
  <1>1. ObjectsOK /\ LinksOK /\ BuiltOK /\ SortOK
    BY DEF Inv
  <1>2. \A o \in Objects : parts[o] \in Seq(1..(o - 1)) /\ edges[o] \subseteq Objects \X Objects
    BY <1>1, VerticesFacts DEF ObjectsOK
  <1>3. jobs \subseteq Delayables /\ deps \subseteq jobs \X jobs
    BY StoredFacts
  <1>4. line \in Seq(jobs) /\ ran \in Seq(jobs) /\ DOMAIN left \subseteq jobs
    <2>1. CASE line = <<>> /\ ran = <<>> /\ left = <<>>
      <3>1. <<>> \in Seq(jobs) /\ DOMAIN <<>> \subseteq jobs
        OBVIOUS
      <3> QED
        BY <2>1, <3>1
    <2>2. CASE line \in Seq(jobs) /\ ran \in Seq(jobs) /\ DOMAIN left = jobs
      BY <2>2
    <2> QED
      BY <1>1, <2>1, <2>2 DEF SortOK
  <1>5. \A j \in DOMAIN left : left[j] \in Nat
    <2>1. CASE left = <<>>
      <3>1. DOMAIN <<>> = {}
        OBVIOUS
      <3> QED
        BY <2>1, <3>1
    <2>2. CASE /\ DOMAIN left = jobs
               /\ \A c \in jobs : left[c] = Cardinality(Parents(deps, c) \ ToSet(ran))
      <3> SUFFICES ASSUME NEW c \in jobs
                   PROVE  Cardinality(Parents(deps, c) \ ToSet(ran)) \in Nat
        BY <2>2
      <3>1. Parents(deps, c) \ ToSet(ran) \in SUBSET jobs
        BY <1>3 DEF Parents
      <3>2. IsFiniteSet(Parents(deps, c) \ ToSet(ran))
        BY <3>1, StoredFacts, FS_Subset
      <3> QED
        BY <3>2, FS_CardinalityType
    <2> QED
      BY <1>1, <2>1, <2>2 DEF SortOK
  <1> QED
    BY <1>1, <1>2, <1>3, <1>4, <1>5 DEF TypeOK, ObjectsOK, LinksOK, BuiltOK

\* The invariant implies that no delayable is forgotten,
LEMMA InvComposed ==
  ASSUME Inv
  PROVE  NoneForgotten
PROOF
  <1> SUFFICES ASSUME jobs # {}
               PROVE  jobs = UNION {Leaves[o] : o \in Within(top)}
    BY DEF NoneForgotten
  <1>1. ObjectsOK /\ LinksOK /\ BuiltOK /\ top \in Objects
    BY StoredFacts DEF Inv
  <1>2. jobs = BuiltVertices(top)
    BY <1>1 DEF BuiltOK
  <1> QED
    BY <1>1, <1>2, BuiltIsComposed

\* that no job waits in vain,
LEMMA InvPromised ==
  ASSUME Inv
  PROVE  NoVainWait
PROOF
  <1> SUFFICES ASSUME jobs # {}
               PROVE  deps \subseteq Promised(top)
    BY DEF NoVainWait
  <1>1. ObjectsOK /\ LinksOK /\ BuiltOK /\ top \in Objects
    BY StoredFacts DEF Inv
  <1>2. deps = BuiltEdges(top)
    BY <1>1 DEF BuiltOK
  <1> QED
    BY <1>1, <1>2, Sizes, BuiltIsPromised

\* and that the order is kept.
LEMMA InvKept ==
  ASSUME Inv
  PROVE  OrderKept
PROOF
  <1> SUFFICES ASSUME jobs # {}, ~Hollow, ~Bent
               PROVE  Promised(top) \subseteq Closed(deps)
    BY DEF OrderKept
  <1>1. ObjectsOK /\ LinksOK /\ BuiltOK /\ top \in Objects
    BY StoredFacts DEF Inv
  <1>2. deps = BuiltEdges(top)
    BY <1>1 DEF BuiltOK
  <1>3. deps \in SUBSET (Delayables \X Delayables)
    BY StoredFacts
  <1>4. Transitive(Closed(deps)) /\ deps \subseteq Closed(deps)
    BY <1>3, Sizes, ClosureFacts DEF Transitive
  <1>5. BuiltEdges(top) \subseteq Closed(deps)
    BY <1>2, <1>4
  <1>6. \A x \in Within(top) : Leaves[x] # {}
    BY DEF Hollow
  <1>7. \A x \in Within(top) : kind[x] = "chain" =>
          \A p \in {parts[x][1], Last(parts[x])} : Ends[p].head = Ends[p].tail
    BY DEF Bent
  <1> QED
    BY <1>1, <1>4, <1>5, <1>6, <1>7, Sizes, PromiseIsKept

\* The promises are about delayables,
LEMMA PromisedIsTyped ==
  ASSUME ObjectsOK, LinksOK
  PROVE  PromisedIn(Objects) \in SUBSET (Delayables \X Delayables)
PROOF
  <1> SUFFICES ASSUME NEW d \in PromisedIn(Objects)
               PROVE  d \in Delayables \X Delayables
    OBVIOUS
  <1>1. Objects \in SUBSET Objects
    OBVIOUS
  <1>2. \/ \E x \in Objects : \E i, j \in 1..Len(parts[x]) :
             /\ kind[x] = "chain" /\ i < j
             /\ d \in Leaves[parts[x][i]] \X Leaves[parts[x][j]]
        \/ \E l \in links : l[1] \in Objects /\ d \in Leaves[l[1]] \X Leaves[l[2]]
    BY <1>1, Sizes, PromisedFacts
  <1>3. ASSUME NEW x \in Objects, NEW i \in 1..Len(parts[x]), NEW j \in 1..Len(parts[x]),
               d \in Leaves[parts[x][i]] \X Leaves[parts[x][j]]
        PROVE  d \in Delayables \X Delayables
    <2>1. parts[x][i] \in Objects /\ parts[x][j] \in Objects
      BY PartFacts
    <2>2. Leaves[parts[x][i]] \subseteq Delayables /\ Leaves[parts[x][j]] \subseteq Delayables
      BY <2>1, LeavesAreDelayables
    <2> QED
      BY <1>3, <2>2
  <1>4. ASSUME NEW l \in links, d \in Leaves[l[1]] \X Leaves[l[2]]
        PROVE  d \in Delayables \X Delayables
    <2>1. l[1] \in Objects /\ l[2] \in Objects
      BY DEF LinksOK
    <2>2. Leaves[l[1]] \subseteq Delayables /\ Leaves[l[2]] \subseteq Delayables
      BY <2>1, LeavesAreDelayables
    <2> QED
      BY <1>4, <2>2
  <1> QED
    BY <1>2, <1>3, <1>4

\* and what is promised of some objects is promised of all.
LEMMA PromisedGrows ==
  ASSUME ObjectsOK, LinksOK, NEW S \in SUBSET Objects
  PROVE  PromisedIn(S) \subseteq PromisedIn(Objects)
PROOF
  <1> SUFFICES ASSUME NEW d \in PromisedIn(S)
               PROVE  d \in PromisedIn(Objects)
    OBVIOUS
  <1>1. Objects \in SUBSET Objects
    OBVIOUS
  <1>2. \/ \E x \in S : \E i, j \in 1..Len(parts[x]) :
             /\ kind[x] = "chain" /\ i < j
             /\ d \in Leaves[parts[x][i]] \X Leaves[parts[x][j]]
        \/ \E l \in links : l[1] \in S /\ d \in Leaves[l[1]] \X Leaves[l[2]]
    BY Sizes, PromisedFacts
  <1>3. /\ \A x \in Objects : \A i, j \in 1..Len(parts[x]) : kind[x] = "chain" /\ i < j =>
             Leaves[parts[x][i]] \X Leaves[parts[x][j]] \subseteq PromisedIn(Objects)
        /\ \A x \in Objects : \A y : <<x, y>> \in links =>
             Leaves[x] \X Leaves[y] \subseteq PromisedIn(Objects)
    BY <1>1, Sizes, PromisedFacts
  <1>4. ASSUME NEW l \in links, d \in Leaves[l[1]] \X Leaves[l[2]]
        PROVE  d \in PromisedIn(Objects)
    <2>1. l = <<l[1], l[2]>> /\ l[1] \in Objects
      BY DEF LinksOK
    <2>2. Leaves[l[1]] \X Leaves[l[2]] \subseteq PromisedIn(Objects)
      BY <1>3, <2>1
    <2> QED
      BY <1>4, <2>2
  <1> QED
    BY <1>2, <1>3, <1>4

\* A relation without cycles leaves some member of a set waiting for no other.
LEMMA SomeIsFirst ==
  ASSUME NEW U, IsFiniteSet(U), U # {}, NEW R, Transitive(R), \A u \in U : <<u, u>> \notin R
  PROVE  \E u \in U : \A p \in U : <<p, u>> \notin R
PROOF
  <1> DEFINE Before(u) == {p \in U : <<p, u>> \in R}
             S == {Cardinality(Before(u)) : u \in U}
  <1>1. \A u \in U : IsFiniteSet(Before(u)) /\ Cardinality(Before(u)) \in Nat
    <2> TAKE u \in U
    <2>1. Before(u) \in SUBSET U
      OBVIOUS
    <2>2. IsFiniteSet(Before(u))
      BY <2>1, FS_Subset
    <2> QED
      BY <2>2, FS_CardinalityType
  <1>2. PICK n \in S : \A m \in S : n <= m
    <2>1. S \subseteq Nat /\ S # {}
      BY <1>1
    <2> HIDE DEF S
    <2> QED
      BY <2>1, LeastNumber
  <1>3. PICK u \in U : n = Cardinality(Before(u))
    BY <1>2
  <1>4. ASSUME NEW p \in U, <<p, u>> \in R
        PROVE  FALSE
    <2>1. Before(p) \in SUBSET Before(u) /\ p \in Before(u) /\ p \notin Before(p)
      BY <1>4 DEF Transitive
    <2>2. Before(p) # Before(u)
      BY <2>1
    <2> HIDE DEF Before
    <2>3. /\ Cardinality(Before(p)) <= Cardinality(Before(u))
          /\ Cardinality(Before(p)) # Cardinality(Before(u))
      BY <1>1, <2>1, <2>2, FS_Subset
    <2>4. Cardinality(Before(p)) \in S
      OBVIOUS
    <2> QED
      BY <1>1, <1>2, <1>3, <2>3, <2>4
  <1> QED
    BY <1>4

\* The invariant implies that jobs run at once run in order, once, and all.
LEMMA InvOrdered ==
  ASSUME Inv
  PROVE  DirectOrder
PROOF
  <1>1. ObjectsOK /\ LinksOK /\ BuiltOK /\ SortOK /\ Acyclic
    BY DEF Inv
  <1>2. CASE ran = <<>>
    BY <1>2 DEF DirectOrder, IsInjective
  <1>3. CASE ran # <<>>
    <2>1. /\ top # 0 /\ ran \in Seq(jobs) /\ line \in Seq(jobs) /\ IsInjective(ran)
          /\ \A c \in jobs : left[c] = Cardinality(Parents(deps, c) \ ToSet(ran))
          /\ \A c \in jobs : left[c] = 0 <=> c \in ToSet(line) \cup ToSet(ran)
          /\ \A i \in DOMAIN ran : Parents(deps, ran[i]) \subseteq {ran[k] : k \in 1..(i - 1)}
      BY <1>1, <1>3 DEF SortOK
    <2>2. ASSUME line = <<>>
          PROVE  ToSet(ran) = jobs
      <3> DEFINE U == jobs \ ToSet(ran)
                 R == Closed(PromisedIn(Objects))
      <3>1. ToSet(line) = {} /\ ToSet(ran) \subseteq jobs
        BY <2>1, <2>2 DEF ToSet
      <3> SUFFICES ASSUME U # {}
                   PROVE  FALSE
        BY <3>1
      <3>2. jobs # {} /\ top \in Objects
        BY StoredFacts
      <3>3. deps \subseteq R /\ Transitive(R)
        <4>1. deps \subseteq Promised(top)
          BY <3>2, InvPromised DEF NoVainWait
        <4>2. Objects \in SUBSET Objects /\ Within(top) \in SUBSET Objects
          BY <1>1, <3>2, WithinIsClosed
        <4>3. PromisedIn(Objects) \in SUBSET (Delayables \X Delayables)
          BY <1>1, PromisedIsTyped
        <4>4. Promised(top) \subseteq PromisedIn(Objects)
          BY <1>1, <4>2, PromisedGrows DEF Promised
        <4>5. PromisedIn(Objects) \subseteq R /\ Transitive(R)
          BY <4>3, Sizes, ClosureFacts DEF Transitive
        <4> QED
          BY <4>1, <4>4, <4>5
      <3>4. \A u \in Delayables : <<u, u>> \notin R
        BY <1>1 DEF Acyclic
      <3> HIDE DEF R
      <3>5. IsFiniteSet(U) /\ U \subseteq Delayables
        BY StoredFacts, FS_Subset
      <3>6. PICK u \in U : \A p \in U : <<p, u>> \notin R
        BY <3>3, <3>4, <3>5, SomeIsFirst
      <3>7. u \in jobs /\ u \notin ToSet(ran)
        BY <3>6
      <3>8. Parents(deps, u) \ ToSet(ran) # {}
        <4>1. left[u] = Cardinality(Parents(deps, u) \ ToSet(ran))
          BY <2>1, <3>7
        <4>2. left[u] # 0
          BY <2>1, <3>1, <3>7
        <4> QED
          BY <4>1, <4>2, FS_EmptySet
      <3>9. PICK p \in Parents(deps, u) : p \notin ToSet(ran)
        BY <3>8
      <3>10. <<p, u>> \in deps /\ p \in jobs
        <4>1. PICK e \in deps : e[2] = u /\ e[1] = p
          BY DEF Parents
        <4>2. e \in jobs \X jobs
          BY StoredFacts
        <4> QED
          BY <4>1, <4>2
      <3> QED
        BY <3>3, <3>6, <3>9, <3>10
    <2> QED
      BY <2>1, <2>2 DEF DirectOrder
  <1> QED
    BY <1>2, <1>3

-----------------------------------------------------------------------------
(* Sequences of the members of a set *)

\* A listing of a set has each of its members, once.
LEMMA ListingFacts ==
  ASSUME NEW S, IsFiniteSet(S), NEW s \in SetToSeqs(S)
  PROVE  /\ s \in Seq(S) /\ Len(s) = Cardinality(S) /\ Cardinality(S) \in Nat
         /\ IsInjective(s)
         /\ ToSet(s) = S
PROOF
  <1> DEFINE n == Cardinality(S)
  <1>1. n \in Nat
    BY FS_CardinalityType
  <1>2. s \in [1..n -> S] /\ \A i, j \in 1..n : i # j => s[i] # s[j]
    BY DEF SetToSeqs
  <1>3. IsFiniteSet(1..n) /\ Cardinality(1..n) = n
    <2>1. 1 \in Int /\ n \in Int
      BY <1>1
    <2>2. IsFiniteSet(1..n) /\ Cardinality(1..n) = IF 1 > n THEN 0 ELSE n - 1 + 1
      BY <2>1, FS_Interval
    <2> QED
      BY <1>1, <2>2
  <1>4. s \in Injection(1..n, S)
    BY <1>2 DEF Injection, IsInjective
  <1>5. s \in Surjection(1..n, S)
    BY <1>3, <1>4, FS_Injection
  <1>6. ToSet(s) = S
    BY <1>2, <1>5 DEF Surjection, ToSet
  <1>7. IsInjective(s)
    BY <1>2 DEF IsInjective
  <1>8. s \in Seq(S) /\ Len(s) = n
    <2> HIDE DEF n
    <2> QED
      BY <1>1, <1>2
  <1> QED
    BY <1>1, <1>6, <1>7, <1>8

\* A finite set has a listing.
LEMMA SomeListing ==
  ASSUME NEW S, IsFiniteSet(S)
  PROVE  SetToSeq(S) \in SetToSeqs(S)
PROOF
  <1> DEFINE n == Cardinality(S)
  <1>1. ExistsBijection(1..n, S)
    BY FS_CardinalityType
  <1>2. PICK f \in [1..n -> S] : IsInjective(f)
    BY <1>1 DEF ExistsBijection, Bijection, Injection
  <1>3. SetToSeq(S) \in [1..n -> S] /\ IsInjective(SetToSeq(S))
    BY <1>2 DEF SetToSeq
  <1> QED
    BY <1>3 DEF SetToSeqs, IsInjective

\* A sequence without repetition, extended,
LEMMA AppendFacts ==
  ASSUME NEW S, NEW s \in Seq(S), NEW x \in S, x \notin ToSet(s), IsInjective(s)
  PROVE  /\ Append(s, x) \in Seq(S) /\ IsInjective(Append(s, x))
         /\ ToSet(Append(s, x)) = ToSet(s) \cup {x}
PROOF
  <1> DEFINE n == Len(s)
             t == Append(s, x)
  <1>1. /\ n \in Nat /\ DOMAIN s = 1..n /\ DOMAIN t = 1..(n + 1) /\ t \in Seq(S)
        /\ t[n + 1] = x /\ \A i \in 1..n : t[i] = s[i]
    BY LenProperties, AppendProperties
  <1> HIDE DEF t, n
  <1>2. \A i \in 1..(n + 1) : i \in 1..n \/ i = n + 1
    BY <1>1
  <1>3. 1..n \subseteq 1..(n + 1) /\ n + 1 \in 1..(n + 1) /\ n + 1 \notin 1..n
    BY <1>1
  <1>4. ToSet(t) = ToSet(s) \cup {x}
    BY <1>1, <1>2, <1>3 DEF ToSet
  <1>5. \A i \in 1..n : t[i] \in ToSet(s)
    BY <1>1 DEF ToSet
  <1>6. IsInjective(t)
    BY <1>1, <1>2, <1>3, <1>5 DEF IsInjective
  <1> QED
    BY <1>1, <1>4, <1>6 DEF t

\* shortened,
LEMMA TailFacts ==
  ASSUME NEW S, NEW s \in Seq(S), s # <<>>, IsInjective(s)
  PROVE  /\ Head(s) \in ToSet(s) /\ Head(s) \in S
         /\ Tail(s) \in Seq(S) /\ IsInjective(Tail(s))
         /\ ToSet(Tail(s)) = ToSet(s) \ {Head(s)}
PROOF
  <1> DEFINE n == Len(s)
             t == Tail(s)
  <1>1. /\ n \in Nat /\ n # 0 /\ DOMAIN s = 1..n /\ s[1] = Head(s) /\ Head(s) \in S
        /\ t \in Seq(S) /\ DOMAIN t = 1..(n - 1) /\ \A i \in 1..(n - 1) : t[i] = s[i + 1]
    BY LenProperties, HeadTailProperties, EmptySeq
  <1> HIDE DEF t, n
  <1>2. 1 \in 1..n /\ \A i \in 1..n : i = 1 \/ (i - 1 \in 1..(n - 1) /\ (i - 1) + 1 = i)
    BY <1>1
  <1>3. \A i \in 1..(n - 1) : i + 1 \in 1..n /\ i + 1 # 1
    BY <1>1
  <1>4. \A i \in 1..n : i # 1 => s[i] = t[i - 1] /\ i - 1 \in 1..(n - 1)
    BY <1>1, <1>2
  <1>5. \A i, j \in 1..n : s[i] = s[j] => i = j
    BY <1>1 DEF IsInjective
  <1>6. IsInjective(t)
    <2> SUFFICES ASSUME NEW i \in 1..(n - 1), NEW j \in 1..(n - 1), t[i] = t[j]
                 PROVE  i = j
      BY <1>1 DEF IsInjective
    <2>1. i + 1 = j + 1
      BY <1>1, <1>3, <1>5
    <2> QED
      BY <2>1
  <1>7. \A y \in ToSet(t) : y \in ToSet(s) /\ y # Head(s)
    <2> SUFFICES ASSUME NEW i \in 1..(n - 1)
                 PROVE  t[i] \in ToSet(s) /\ t[i] # Head(s)
      BY <1>1 DEF ToSet
    <2> QED
      BY <1>1, <1>2, <1>3, <1>5 DEF ToSet
  <1>8. \A y \in ToSet(s) : y # Head(s) => y \in ToSet(t)
    <2> SUFFICES ASSUME NEW i \in 1..n, s[i] # Head(s)
                 PROVE  s[i] \in ToSet(t)
      BY <1>1 DEF ToSet
    <2>1. i # 1
      BY <1>1
    <2>2. i - 1 \in 1..(n - 1) /\ s[i] = t[i - 1]
      BY <1>4, <2>1
    <2> QED
      BY <1>1, <2>2 DEF ToSet
  <1>9. Head(s) \in ToSet(s)
    BY <1>1, <1>2 DEF ToSet
  <1> QED
    BY <1>1, <1>6, <1>7, <1>8, <1>9 DEF t

\* or followed by another.
LEMMA ConcatFacts ==
  ASSUME NEW S, NEW s \in Seq(S), NEW t \in Seq(S), IsInjective(s), IsInjective(t),
         ToSet(s) \cap ToSet(t) = {}
  PROVE  /\ s \o t \in Seq(S) /\ IsInjective(s \o t)
         /\ ToSet(s \o t) = ToSet(s) \cup ToSet(t)
PROOF
  <1> DEFINE m == Len(s)
             n == Len(t)
             u == s \o t
  <1>1. /\ m \in Nat /\ n \in Nat /\ DOMAIN s = 1..m /\ DOMAIN t = 1..n
        /\ u \in Seq(S) /\ DOMAIN u = 1..(m + n)
        /\ \A i \in 1..(m + n) : u[i] = IF i <= m THEN s[i] ELSE t[i - m]
    BY LenProperties, ConcatProperties
  <1> HIDE DEF m, n, u
  <1>2. \A i \in 1..m : i \in 1..(m + n) /\ u[i] = s[i]
    BY <1>1
  <1>3. \A i \in 1..n : m + i \in 1..(m + n) /\ u[m + i] = t[i]
    <2> TAKE i \in 1..n
    <2>1. m + i \in 1..(m + n) /\ ~(m + i <= m) /\ (m + i) - m = i
      BY <1>1
    <2> QED
      BY <1>1, <2>1
  <1>4. \A i \in 1..(m + n) :
          \/ i \in 1..m /\ u[i] = s[i] /\ u[i] \in ToSet(s)
          \/ i > m /\ i - m \in 1..n /\ u[i] = t[i - m] /\ u[i] \in ToSet(t)
    <2> TAKE i \in 1..(m + n)
    <2>1. i \in 1..m \/ (i > m /\ i - m \in 1..n /\ ~(i <= m))
      BY <1>1
    <2> QED
      BY <1>1, <2>1 DEF ToSet
  <1>5. ToSet(u) = ToSet(s) \cup ToSet(t)
    <2>1. \A y \in ToSet(u) : y \in ToSet(s) \cup ToSet(t)
      BY <1>1, <1>4 DEF ToSet
    <2>2. \A y \in ToSet(s) : y \in ToSet(u)
      BY <1>1, <1>2 DEF ToSet
    <2>3. \A y \in ToSet(t) : y \in ToSet(u)
      <3> SUFFICES ASSUME NEW i \in 1..n
                   PROVE  t[i] \in ToSet(u)
        BY <1>1 DEF ToSet
      <3>1. m + i \in 1..(m + n) /\ u[m + i] = t[i]
        BY <1>3
      <3> QED
        BY <1>1, <3>1 DEF ToSet
    <2> QED
      BY <2>1, <2>2, <2>3
  <1>6. IsInjective(u)
    <2> SUFFICES ASSUME NEW i \in 1..(m + n), NEW j \in 1..(m + n), u[i] = u[j]
                 PROVE  i = j
      BY <1>1 DEF IsInjective
    <2>1. CASE i \in 1..m /\ u[i] = s[i] /\ j \in 1..m /\ u[j] = s[j]
      BY <1>1, <2>1 DEF IsInjective
    <2>2. CASE i - m \in 1..n /\ u[i] = t[i - m] /\ j - m \in 1..n /\ u[j] = t[j - m]
      <3>1. i - m = j - m
        BY <1>1, <2>2 DEF IsInjective
      <3> QED
        BY <1>1, <3>1
    <2> QED
      BY <1>4, <2>1, <2>2
  <1> QED
    BY <1>1, <1>5, <1>6 DEF u

-----------------------------------------------------------------------------
(* The invariant is inductive *)

\* Nothing is promised, stored or run at first.
LEMMA InitInv == Init => Inv
PROOF
  <1> SUFFICES ASSUME Init
               PROVE  Inv
    OBVIOUS
  <1>1. /\ kind \in [1..Size -> {"delayable"}]
        /\ parts \in [1..Size -> {<<>>}] /\ edges \in [1..Size -> {{}}]
    BY DEF Init, Delayables
  <1>2. /\ kind \in Seq({"delayable", "chain", "group"}) /\ Len(kind) = Size
        /\ Objects = Delayables
    <2>1. kind \in Seq({"delayable"}) /\ Len(kind) = Size
      BY <1>1, Sizes
    <2> QED
      BY <2>1 DEF Objects, Delayables
  <1>3. \A o \in Objects : kind[o] = "delayable" /\ parts[o] = <<>> /\ edges[o] = {}
    BY <1>1, <1>2 DEF Delayables
  <1>4. ObjectsOK
    <2>1. \A o \in Objects : parts[o] \in Seq(1..(o - 1)) /\ Len(parts[o]) <= MaxParts
      <3>1. \A S : <<>> \in Seq(S)
        OBVIOUS
      <3>2. Len(<<>>) = 0 /\ 0 <= MaxParts
        BY Sizes
      <3> SUFFICES ASSUME NEW o \in Objects
                   PROVE  parts[o] \in Seq(1..(o - 1)) /\ Len(parts[o]) <= MaxParts
        OBVIOUS
      <3>3. parts[o] = <<>>
        BY <1>3
      <3> QED
        BY <3>1, <3>2, <3>3
    <2> QED
      BY <1>1, <1>2, <1>3, <2>1, Sizes DEF ObjectsOK, Delayables
  <1>5. LinksOK
    BY <1>1, <1>2, <1>3 DEF LinksOK, Composed, Init, Delayables
  <1>6. Acyclic
    <2>1. PromisedIn(Objects) = {}
      <3>1. Objects \in SUBSET Objects /\ links = {}
        BY DEF Init
      <3> QED
        BY <1>3, <1>4, <3>1, Sizes, PromisedFacts
    <2>2. Closed({}) = {}
      <3>1. {} \in SUBSET (Delayables \X Delayables)
        OBVIOUS
      <3> QED
        BY <3>1, Sizes, ClosureFacts
    <2> QED
      BY <2>1, <2>2 DEF Acyclic
  <1>7. BuiltOK /\ SortOK
    BY DEF Init, BuiltOK, SortOK
  <1> QED
    BY <1>4, <1>5, <1>6, <1>7 DEF Inv

\* An object is made of parts made before, and nothing is linked to it yet.
LEMMA MakeStep ==
  ASSUME ObjectsOK, LinksOK, NEW k \in {"chain", "group"}, NEW s, NEW es, Make(k, s, es),
         s \in Seq(Objects), Len(s) <= MaxParts, k = "chain" => s # <<>>,
         es = IF k = "chain" THEN Successive(s) ELSE {}
  PROVE  ObjectsOK' /\ LinksOK'
PROOF
  <1>1. Len(kind) \in Nat /\ Objects = 1..Len(kind)
    BY DEF ObjectsOK, Objects
  <1>0. PICK n \in Nat : n = Len(kind) + 1
    BY <1>1
  <1>2. /\ kind' = Append(kind, k) /\ kind' \in Seq({"delayable", "chain", "group"})
        /\ Len(kind') = n /\ Objects' = 1..n
        /\ kind'[n] = k /\ \A o \in Objects : kind'[o] = kind[o]
    BY <1>0, <1>1 DEF Make, ObjectsOK, Objects
  <1>3. /\ DOMAIN parts' = 1..n
        /\ parts'[n] = s /\ \A o \in Objects : parts'[o] = parts[o]
    BY <1>0, <1>1 DEF Make, ObjectsOK
  <1>4. /\ DOMAIN edges' = 1..n
        /\ edges'[n] = es /\ \A o \in Objects : edges'[o] = edges[o]
    BY <1>0, <1>1 DEF Make, LinksOK
  <1>5. \A o \in Objects' : o \in Objects \/ o = n
    BY <1>0, <1>1, <1>2
  <1>6. n \notin Objects /\ n \notin Delayables /\ Objects \subseteq Objects' /\ n \in Objects'
    BY <1>0, <1>1, <1>2 DEF ObjectsOK
  <1>7. s \in Seq(1..(n - 1))
    BY <1>0, <1>1
  <1>8. ObjectsOK'
    <2>1. Len(kind') \in Nat
      BY <1>0, <1>1, <1>2
    <2>2. Delayables' = Delayables /\ MaxParts' = MaxParts
      BY DEF Delayables
    <2>3. \A o \in Objects' : kind'[o] = "delayable" <=> o \in Delayables
      BY <1>2, <1>5, <1>6 DEF ObjectsOK
    <2>4. \A o \in Objects' : /\ parts'[o] \in Seq(1..(o - 1))
                              /\ Len(parts'[o]) <= MaxParts
                              /\ kind'[o] = "chain" => parts'[o] # <<>>
      BY <1>2, <1>3, <1>5, <1>7 DEF ObjectsOK
    <2> QED
      BY <1>2, <1>3, <1>6, <2>1, <2>2, <2>3, <2>4 DEF ObjectsOK
  <1>9. LinksOK'
    <2>1. links' = links /\ links \subseteq Objects \X Objects
      BY DEF Make, LinksOK
    <2>2. ASSUME NEW o \in Objects
          PROVE  edges'[o] =
                   Composed(o)' \cup (Linked(o)' \X {p \in Objects' : <<o, p>> \in links'})
      <3>1. Composed(o)' = Composed(o) /\ Linked(o)' = Linked(o)
        BY <1>2, <1>3 DEF Composed, Linked
      <3>2. {p \in Objects' : <<o, p>> \in links'} = {p \in Objects : <<o, p>> \in links}
        BY <1>6, <2>1
      <3> QED
        BY <1>4, <3>1, <3>2 DEF LinksOK
    <2>3. edges'[n] = Composed(n)' \cup (Linked(n)' \X {p \in Objects' : <<n, p>> \in links'})
      <3>1. Composed(n)' = IF k = "chain" THEN Successive(s) ELSE {}
        BY <1>2, <1>3 DEF Composed
      <3>2. {p \in Objects' : <<n, p>> \in links'} = {}
        BY <1>6, <2>1
      <3> QED
        BY <1>4, <3>1, <3>2
    <2>4. links' \subseteq Objects' \X Objects'
      BY <1>6, <2>1
    <2>5. \A o \in Objects' :
            edges'[o] = Composed(o)' \cup (Linked(o)' \X {p \in Objects' : <<o, p>> \in links'})
      BY <1>5, <2>2, <2>3
    <2>6. DOMAIN edges' = Objects'
      BY <1>2, <1>4
    <2> QED
      BY <2>4, <2>5, <2>6 DEF LinksOK
  <1> QED
    BY <1>8, <1>9

\* on_done adds the links from an object to the one it is passed.
LEMMA OnDoneStep ==
  ASSUME ObjectsOK, LinksOK, NEW o \in Objects, NEW p \in Objects, OnDone(o, p)
  PROVE  ObjectsOK' /\ LinksOK'
PROOF
  <1>1. /\ kind' = kind /\ parts' = parts /\ links' = links \cup {<<o, p>>}
        /\ edges' = [edges EXCEPT ![o] = @ \cup (Linked(o) \X {p})]
    BY DEF OnDone
  <1>2. ObjectsOK' /\ Objects' = Objects
    BY <1>1 DEF ObjectsOK, Objects, Delayables
  <1>3. \A x : Composed(x)' = Composed(x) /\ Linked(x)' = Linked(x)
    BY <1>1 DEF Composed, Linked
  <1>4. DOMAIN edges' = Objects /\ links' \subseteq Objects \X Objects
    BY <1>1 DEF LinksOK
  <1>5. ASSUME NEW x \in Objects
        PROVE  edges'[x] = Composed(x) \cup (Linked(x) \X {q \in Objects : <<x, q>> \in links'})
    <2> DEFINE Was == {q \in Objects : <<x, q>> \in links}
               Is  == {q \in Objects : <<x, q>> \in links'}
    <2>1. edges[x] = Composed(x) \cup (Linked(x) \X Was)
      BY DEF LinksOK
    <2>2. CASE x = o
      <3>1. Is = Was \cup {p}
        BY <1>1, <2>2
      <3>2. edges'[x] = edges[x] \cup (Linked(x) \X {p})
        BY <1>1, <2>2 DEF LinksOK
      <3> HIDE DEF Was, Is
      <3>3. Linked(x) \X Is = (Linked(x) \X Was) \cup (Linked(x) \X {p})
        BY <3>1
      <3> QED
        BY <2>1, <3>2, <3>3 DEF Is
    <2>3. CASE x # o
      <3>1. Is = Was
        BY <1>1, <2>3
      <3>2. edges'[x] = edges[x]
        BY <1>1, <2>3 DEF LinksOK
      <3> QED
        BY <2>1, <3>1, <3>2
    <2> QED
      BY <2>2, <2>3
  <1>6. LinksOK'
    BY <1>2, <1>3, <1>4, <1>5 DEF LinksOK
  <1> QED
    BY <1>2, <1>6

\* What is composed does not change once delay() was called.
LEMMA SameBuilt ==
  ASSUME UNCHANGED built
  PROVE  /\ ObjectsOK => ObjectsOK'
         /\ LinksOK => LinksOK'
         /\ Acyclic => Acyclic'
         /\ Objects' = Objects
         /\ \A o : BuiltVertices(o)' = BuiltVertices(o)
         /\ \A o : BuiltEdges(o)' = BuiltEdges(o)
PROOF
  <1>1. kind' = kind /\ parts' = parts /\ edges' = edges /\ links' = links
    BY DEF built
  <1>2. Objects' = Objects /\ (ObjectsOK => ObjectsOK')
    BY <1>1 DEF Objects, ObjectsOK, Delayables
  <1>3. LinksOK => LinksOK'
    BY <1>1, <1>2 DEF LinksOK, Composed, Linked
  <1>4. Acyclic => Acyclic'
    <2>1. PromisedIn(Objects)' = PromisedIn(Objects)
      BY <1>1 DEF PromisedIn, ChainPromises, LinkPromises, Leaves, Objects
    <2> QED
      BY <2>1 DEF Acyclic, Closed, Delayables
  <1>5. Ends' = Ends
    BY <1>1 DEF Ends, Objects
  <1>6. ASSUME NEW o
        PROVE  Within(o)' = Within(o)
    BY <1>1 DEF Within, Vertices, Objects
  <1>7. ASSUME NEW o
        PROVE  BuiltVertices(o)' = BuiltVertices(o)
    <2>1. \A p : MergedVertices(p)' = MergedVertices(p)
      BY <1>1, <1>5 DEF MergedVertices, Vertices, Objects
    <2> QED
      BY <1>6, <2>1 DEF BuiltVertices
  <1>8. ASSUME NEW o
        PROVE  BuiltEdges(o)' = BuiltEdges(o)
    <2>1. \A p : MergedEdges(p)' = MergedEdges(p)
      BY <1>1, <1>5 DEF MergedEdges
    <2> QED
      BY <1>6, <2>1 DEF BuiltEdges
  <1> QED
    BY <1>2, <1>3, <1>4, <1>7, <1>8

\* Composing changes nothing but what is composed.
LEMMA NotYetBuilt ==
  ASSUME Inv, ObjectsOK', LinksOK', Acyclic', top = 0,
         UNCHANGED <<top, jobs, deps, given, sort>>
  PROVE  Inv'
PROOF
  <1>1. BuiltOK /\ SortOK
    BY DEF Inv
  <1>2. BuiltOK'
    BY <1>1 DEF BuiltOK
  <1>3. SortOK'
    BY <1>1 DEF SortOK, sort
  <1> QED
    BY <1>2, <1>3 DEF Inv

\* delay() stores a job per delayable, or none.
LEMMA DelayStep ==
  ASSUME Inv, NEW o \in Objects, Delay(o)
  PROVE  Inv'
PROOF
  <1>1. ObjectsOK /\ LinksOK /\ Acyclic /\ BuiltOK /\ SortOK
    BY DEF Inv
  <1>2. /\ top = 0 /\ top' = o /\ UNCHANGED built /\ UNCHANGED sort
        /\ \/ jobs' = {} /\ deps' = {} /\ given' \subseteq Keyed
           \/ jobs' = BuiltVertices(o) /\ deps' = BuiltEdges(o) /\ given' = {}
    BY DEF Delay
  <1>3. /\ ObjectsOK' /\ LinksOK' /\ Acyclic' /\ Objects' = Objects
        /\ BuiltVertices(o)' = BuiltVertices(o) /\ BuiltEdges(o)' = BuiltEdges(o)
    BY <1>1, <1>2, SameBuilt
  <1>4. o # 0
    BY DEF Objects
  <1>5. BuiltOK'
    BY <1>2, <1>3, <1>4 DEF BuiltOK
  <1>6. SortOK'
    BY <1>1, <1>2 DEF SortOK, sort
  <1> QED
    BY <1>3, <1>5, <1>6 DEF Inv

\* When the jobs are run at once, the roots are the first in the queue.
LEMMA DelayDirectStep ==
  ASSUME Inv, NEW o \in Objects, DelayDirect(o)
  PROVE  Inv'
PROOF
  <1> DEFINE V == BuiltVertices(o)
             E == BuiltEdges(o)
  <1>1. ObjectsOK /\ LinksOK /\ Acyclic /\ BuiltOK /\ SortOK
    BY DEF Inv
  <1>2. /\ top = 0 /\ top' = o /\ UNCHANGED built /\ given' = given /\ ran' = ran
        /\ jobs' = V /\ deps' = E
        /\ left' = [v \in V |-> Cardinality(Parents(E, v))]
        /\ line' \in SetToSeqs(Roots(E, V))
    BY DEF DelayDirect
  <1>3. /\ ObjectsOK' /\ LinksOK' /\ Acyclic' /\ Objects' = Objects
        /\ BuiltVertices(o)' = V /\ BuiltEdges(o)' = E
    BY <1>1, <1>2, SameBuilt
  <1>4. o # 0 /\ ran' = <<>>
    BY <1>1, <1>2 DEF Objects, SortOK
  <1>5. BuiltOK'
    BY <1>1, <1>2, <1>3, <1>4 DEF BuiltOK
  <1>6. V \subseteq Delayables /\ E \subseteq V \X V
    BY <1>1, BuiltFacts
  <1>7. IsFiniteSet(V) /\ IsFiniteSet(Roots(E, V)) /\ Roots(E, V) \subseteq V
    <2>1. 1 \in Int /\ Size \in Int
      BY Sizes
    <2>2. IsFiniteSet(V)
      BY <1>6, <2>1, FS_Interval, FS_Subset DEF Delayables
    <2>3. Roots(E, V) \in SUBSET V
      BY DEF Roots
    <2> QED
      BY <2>2, <2>3, FS_Subset
  <1> HIDE DEF V, E
  <1>8. line' \in Seq(Roots(E, V)) /\ IsInjective(line') /\ ToSet(line') = Roots(E, V)
    BY <1>2, <1>7, ListingFacts
  <1>9. line' \in Seq(V)
    BY <1>7, <1>8
  <1>10. ToSet(ran') = {} /\ ran' \in Seq(V) /\ IsInjective(ran') /\ DOMAIN ran' = {}
    BY <1>4 DEF ToSet, IsInjective
  <1>11. \A c \in V : Parents(E, c) \ ToSet(ran') = Parents(E, c)
    BY <1>10
  <1>12. \A c \in V : left'[c] = Cardinality(Parents(E, c) \ ToSet(ran'))
    BY <1>2, <1>11
  <1>13. \A c \in V : left'[c] = 0 <=> c \in Roots(E, V)
    <2> TAKE c \in V
    <2>1. Parents(E, c) \in SUBSET V
      BY <1>6 DEF Parents
    <2>2. IsFiniteSet(Parents(E, c))
      BY <1>7, <2>1, FS_Subset
    <2>3. left'[c] = 0 <=> Parents(E, c) = {}
      BY <1>2, <2>2, FS_EmptySet
    <2>4. Parents(E, c) = {} <=> \A e \in E : e[2] # c
      BY DEF Parents
    <2> QED
      BY <2>3, <2>4 DEF Roots
  <1>14. SortOK'
    <2>1. \A c \in V : left'[c] = 0 <=> c \in ToSet(line') \cup ToSet(ran')
      BY <1>8, <1>10, <1>13
    <2>2. \A c : Parents(deps, c)' = Parents(E, c)
      BY <1>2 DEF Parents
    <2>3. DOMAIN left' = V
      BY <1>2
    <2> QED
      BY <1>2, <1>4, <1>8, <1>9, <1>10, <1>12, <2>1, <2>2, <2>3 DEF SortOK
  <1> QED
    BY <1>3, <1>5, <1>14 DEF Inv

\* A job that runs is the first in the queue: those it frees are put at the end.
LEMMA RunStep ==
  ASSUME Inv, Run
  PROVE  Inv'
PROOF
  <1>1. ObjectsOK /\ LinksOK /\ Acyclic /\ BuiltOK /\ SortOK
    BY DEF Inv
  <1>2. PICK v : v = Head(line)
    OBVIOUS
  <1>3. /\ line # <<>> /\ ran' = Append(ran, v)
        /\ left' = [c \in jobs |-> IF c \in Children(deps, v) THEN left[c] - 1 ELSE left[c]]
        /\ UNCHANGED <<built, top, jobs, deps, given>>
    BY <1>2 DEF Run
  <1>4. PICK s \in SetToSeqs(Freed(v)) : line' = Tail(line) \o s
    BY <1>2 DEF Run
  <1>5. /\ top # 0
        /\ line \in Seq(jobs) /\ ran \in Seq(jobs) /\ DOMAIN left = jobs
        /\ IsInjective(line) /\ IsInjective(ran)
        /\ ToSet(line) \cap ToSet(ran) = {}
        /\ \A c \in jobs : left[c] = Cardinality(Parents(deps, c) \ ToSet(ran))
        /\ \A c \in jobs : left[c] = 0 <=> c \in ToSet(line) \cup ToSet(ran)
        /\ \A i \in DOMAIN ran : Parents(deps, ran[i]) \subseteq {ran[k] : k \in 1..(i - 1)}
    BY <1>1, <1>3 DEF SortOK
  <1>6. deps \subseteq jobs \X jobs /\ IsFiniteSet(jobs)
    BY StoredFacts
  <1>7. /\ v \in ToSet(line) /\ v \in jobs /\ Tail(line) \in Seq(jobs) /\ IsInjective(Tail(line))
        /\ ToSet(Tail(line)) = ToSet(line) \ {v}
    BY <1>2, <1>3, <1>5, TailFacts
  <1>8. v \notin ToSet(ran)
    BY <1>5, <1>7
  <1> DEFINE Left(c) == Parents(deps, c) \ ToSet(ran)
  <1>9. \A c \in jobs : /\ IsFiniteSet(Left(c)) /\ Cardinality(Left(c)) \in Nat
                        /\ left[c] = Cardinality(Left(c))
    <2> TAKE c \in jobs
    <2>1. Left(c) \in SUBSET jobs
      BY <1>6 DEF Parents
    <2>2. IsFiniteSet(Left(c))
      BY <1>6, <2>1, FS_Subset
    <2> QED
      BY <1>5, <2>2, FS_CardinalityType
  <1>10. \A c \in jobs : c \in Children(deps, v) <=> v \in Left(c)
    BY <1>8 DEF Children, Parents
  <1>11. Left(v) = {}
    <2>1. left[v] = 0
      BY <1>5, <1>7
    <2> QED
      BY <1>7, <1>9, <2>1, FS_EmptySet
  <1>12. \A c \in jobs : c \in Children(deps, v) =>
           left[c] # 0 /\ c \notin ToSet(line) \cup ToSet(ran)
    <2> SUFFICES ASSUME NEW c \in jobs, c \in Children(deps, v)
                 PROVE  left[c] # 0 /\ c \notin ToSet(line) \cup ToSet(ran)
      OBVIOUS
    <2>1. Left(c) # {}
      BY <1>10
    <2> HIDE DEF Left
    <2>2. left[c] # 0
      BY <1>9, <2>1, FS_EmptySet
    <2> QED
      BY <1>5, <2>2
  <1>13. /\ Freed(v) \subseteq jobs /\ IsFiniteSet(Freed(v))
         /\ \A c \in jobs : c \in Freed(v) <=> c \in Children(deps, v) /\ left[c] = 1
    <2>1. Freed(v) \in SUBSET jobs
      BY <1>6 DEF Freed, Children
    <2>2. IsFiniteSet(Freed(v))
      BY <1>6, <2>1, FS_Subset
    <2> QED
      BY <2>1, <2>2 DEF Freed
  <1>14. s \in Seq(jobs) /\ IsInjective(s) /\ ToSet(s) = Freed(v)
    <2>1. s \in Seq(Freed(v)) /\ IsInjective(s) /\ ToSet(s) = Freed(v)
      BY <1>13, ListingFacts
    <2> QED
      BY <1>13, <2>1
  <1>15. ToSet(Tail(line)) \cap ToSet(s) = {}
    BY <1>7, <1>12, <1>13, <1>14
  <1>16. /\ line' \in Seq(jobs) /\ IsInjective(line')
         /\ ToSet(line') = (ToSet(line) \ {v}) \cup Freed(v)
    <2> DEFINE t == Tail(line)
    <2>1. t \in Seq(jobs) /\ IsInjective(t) /\ ToSet(t) \cap ToSet(s) = {} /\ line' = t \o s
      BY <1>4, <1>7, <1>15
    <2>2. ToSet(t) = ToSet(line) \ {v}
      BY <1>7
    <2> HIDE DEF t
    <2>3. /\ t \o s \in Seq(jobs) /\ IsInjective(t \o s)
          /\ ToSet(t \o s) = ToSet(t) \cup ToSet(s)
      BY <1>14, <2>1, ConcatFacts
    <2> QED
      BY <1>14, <2>1, <2>2, <2>3
  <1>17. ran' \in Seq(jobs) /\ IsInjective(ran') /\ ToSet(ran') = ToSet(ran) \cup {v}
    BY <1>3, <1>5, <1>7, <1>8, AppendFacts
  <1>18. v \notin Freed(v)
    BY <1>7, <1>12, <1>13
  <1>19. ToSet(line') \cap ToSet(ran') = {}
    BY <1>5, <1>12, <1>13, <1>16, <1>17, <1>18
  <1>20. ASSUME NEW c \in jobs
         PROVE  left'[c] = Cardinality(Parents(deps, c) \ ToSet(ran'))
    <2>1. Parents(deps, c) \ ToSet(ran') = Left(c) \ {v}
      BY <1>17
    <2> HIDE DEF Left
    <2>2. CASE c \in Children(deps, v)
      <3>1. v \in Left(c) /\ left'[c] = left[c] - 1
        BY <1>3, <1>10, <2>2
      <3>2. Cardinality(Left(c) \ {v}) = Cardinality(Left(c)) - 1
        BY <1>9, <3>1, FS_RemoveElement
      <3> QED
        BY <1>9, <2>1, <3>1, <3>2
    <2>3. CASE c \notin Children(deps, v)
      <3>1. Left(c) \ {v} = Left(c) /\ left'[c] = left[c]
        BY <1>3, <1>10, <2>3
      <3> QED
        BY <1>9, <2>1, <3>1
    <2> QED
      BY <2>2, <2>3
  <1>21. ASSUME NEW c \in jobs
         PROVE  left'[c] = 0 <=> c \in ToSet(line') \cup ToSet(ran')
    <2>1. CASE c \in Children(deps, v)
      <3>1. left'[c] = left[c] - 1 /\ left[c] \in Nat
        BY <1>3, <1>9, <2>1
      <3>2. left'[c] = 0 <=> c \in Freed(v)
        BY <1>13, <2>1, <3>1
      <3>3. c \notin ToSet(line) /\ c \notin ToSet(ran) /\ c # v
        BY <1>7, <1>12, <2>1
      <3> QED
        BY <1>16, <1>17, <3>2, <3>3
    <2>2. CASE c \notin Children(deps, v)
      <3>1. left'[c] = left[c] /\ c \notin Freed(v)
        BY <1>3, <1>13, <2>2
      <3>2. left[c] = 0 <=> c \in ToSet(line) \cup ToSet(ran)
        BY <1>5
      <3> QED
        BY <1>7, <1>16, <1>17, <3>1, <3>2
    <2> QED
      BY <2>1, <2>2
  <1>22. ASSUME NEW i \in DOMAIN ran'
         PROVE  Parents(deps, ran'[i]) \subseteq {ran'[k] : k \in 1..(i - 1)}
    <2> DEFINE n == Len(ran)
    <2>1. /\ n \in Nat /\ DOMAIN ran = 1..n /\ DOMAIN ran' = 1..(n + 1)
          /\ ran'[n + 1] = v /\ \A k \in 1..n : ran'[k] = ran[k]
      BY <1>3, <1>5, <1>7, LenProperties, AppendProperties
    <2> HIDE DEF n
    <2>2. CASE i \in 1..n
      <3>1. \A k \in 1..(i - 1) : ran'[k] = ran[k]
        BY <2>1, <2>2
      <3>2. {ran'[k] : k \in 1..(i - 1)} = {ran[k] : k \in 1..(i - 1)}
        BY <3>1
      <3>3. Parents(deps, ran[i]) \subseteq {ran[k] : k \in 1..(i - 1)}
        BY <1>5, <2>1, <2>2
      <3> QED
        BY <2>1, <2>2, <3>2, <3>3
    <2>3. CASE i = n + 1
      <3>1. ran'[i] = v /\ i - 1 = n
        BY <2>1, <2>3
      <3>2. {ran'[k] : k \in 1..n} = {ran[k] : k \in 1..n}
        BY <2>1
      <3>3. ToSet(ran) = {ran[k] : k \in 1..n}
        BY <2>1 DEF ToSet
      <3>4. Parents(deps, v) \subseteq ToSet(ran)
        BY <1>11
      <3> QED
        BY <3>1, <3>2, <3>3, <3>4
    <2> QED
      BY <2>1, <2>2, <2>3
  <1>23. /\ ObjectsOK' /\ LinksOK' /\ Acyclic' /\ Objects' = Objects
         /\ BuiltVertices(top)' = BuiltVertices(top) /\ BuiltEdges(top)' = BuiltEdges(top)
    <2>1. UNCHANGED built /\ top' = top
      BY <1>3
    <2>2. /\ \A o : BuiltVertices(o)' = BuiltVertices(o)
          /\ \A o : BuiltEdges(o)' = BuiltEdges(o)
      BY <2>1, SameBuilt
    <2> QED
      BY <1>1, <2>1, <2>2, SameBuilt
  <1>24. BuiltOK'
    BY <1>1, <1>3, <1>23 DEF BuiltOK
  <1>25. SortOK'
    <2>1. \A c : Parents(deps, c)' = Parents(deps, c)
      BY <1>3 DEF Parents
    <2>2. DOMAIN left' = jobs /\ jobs' = jobs /\ top' = top /\ deps' = deps
      BY <1>3
    <2>3. \A i \in DOMAIN ran' : Parents(deps, ran[i])' = Parents(deps, ran'[i])
      BY <2>2 DEF Parents
    <2> QED
      BY <1>5, <1>16, <1>17, <1>19, <1>20, <1>21, <1>22, <2>1, <2>2, <2>3 DEF SortOK
  <1> QED
    BY <1>23, <1>24, <1>25 DEF Inv

\* Every step keeps the invariant.
LEMMA NextInv == Inv /\ [Next]_vars => Inv'
PROOF
  <1> SUFFICES ASSUME Inv, [Next]_vars
               PROVE  Inv'
    OBVIOUS
  <1>1. ObjectsOK /\ LinksOK /\ Acyclic
    BY DEF Inv
  <1>2. IsFiniteSet(Objects)
    <2>1. 1 \in Int /\ Len(kind) \in Int
      BY <1>1 DEF ObjectsOK
    <2> QED
      BY <2>1, FS_Interval DEF Objects
  <1>3. ASSUME NEW S \in SUBSET Objects, Cardinality(S) <= MaxParts, NEW s \in SetToSeqs(S)
        PROVE  s \in Seq(Objects) /\ Len(s) <= MaxParts
    <2>1. IsFiniteSet(S)
      BY <1>2, FS_Subset
    <2>2. s \in Seq(S) /\ Len(s) = Cardinality(S)
      BY <2>1, ListingFacts
    <2> QED
      BY <1>3, <2>2
  <1>4. ASSUME NEW s \in Parts, Chain(s)
        PROVE  Inv'
    <2>1. s # <<>> /\ Make("chain", s, Successive(s))
      BY <1>4 DEF Chain
    <2>2. PICK S \in SUBSET Objects : Cardinality(S) <= MaxParts /\ s \in SetToSeqs(S)
      BY DEF Parts
    <2>3. s \in Seq(Objects) /\ Len(s) <= MaxParts
      BY <1>3, <2>2
    <2>4. ObjectsOK' /\ LinksOK'
      BY <1>1, <2>1, <2>3, MakeStep
    <2> QED
      BY <2>1, <2>4, NotYetBuilt DEF Make
  <1>5. ASSUME NEW S \in SUBSET Objects, Cardinality(S) <= MaxParts, Group(S)
        PROVE  Inv'
    <2> DEFINE s == SetToSeq(S)
    <2>1. Make("group", s, {})
      BY <1>5 DEF Group, GroupLinks
    <2>2. s \in SetToSeqs(S)
      BY <1>2, FS_Subset, SomeListing
    <2>3. s \in Seq(Objects) /\ Len(s) <= MaxParts
      BY <1>3, <1>5, <2>2
    <2> HIDE DEF s
    <2>4. ObjectsOK' /\ LinksOK'
      BY <1>1, <2>1, <2>3, MakeStep
    <2> QED
      BY <2>1, <2>4, NotYetBuilt DEF Make
  <1>6. ASSUME NEW o \in Objects, NEW p \in Objects, OnDone(o, p)
        PROVE  Inv'
    <2>1. ObjectsOK' /\ LinksOK'
      BY <1>1, <1>6, OnDoneStep
    <2> QED
      BY <1>6, <2>1, NotYetBuilt DEF OnDone
  <1>7. ASSUME NEW o \in Objects, Delay(o) \/ DelayDirect(o)
        PROVE  Inv'
    BY <1>7, DelayStep, DelayDirectStep
  <1>8. CASE UNCHANGED vars
    <2>1. /\ UNCHANGED built /\ top' = top /\ jobs' = jobs /\ deps' = deps /\ given' = given
          /\ line' = line /\ left' = left /\ ran' = ran
      BY <1>8 DEF vars, sort
    <2>2. ObjectsOK' /\ LinksOK' /\ Acyclic' /\ Objects' = Objects
      BY <1>1, <2>1, SameBuilt
    <2>3. BuiltVertices(top)' = BuiltVertices(top) /\ BuiltEdges(top)' = BuiltEdges(top)
      <3>1. /\ \A o : BuiltVertices(o)' = BuiltVertices(o)
            /\ \A o : BuiltEdges(o)' = BuiltEdges(o)
        BY <2>1, SameBuilt
      <3> QED
        BY <2>1, <3>1
    <2>4. BuiltOK'
      BY <2>1, <2>2, <2>3 DEF Inv, BuiltOK
    <2>5. SortOK'
      <3>1. \A c : Parents(deps, c)' = Parents(deps, c)
        BY <2>1 DEF Parents
      <3>2. \A i : Parents(deps, ran[i])' = Parents(deps, ran[i])
        BY <2>1 DEF Parents
      <3> QED
        BY <2>1, <3>1, <3>2 DEF Inv, SortOK
    <2> QED
      BY <2>2, <2>4, <2>5 DEF Inv
  <1> QED
    BY <1>4, <1>5, <1>6, <1>7, <1>8, RunStep DEF Next

\* The invariant holds at every moment.
THEOREM AlwaysInv == Spec => []Inv
PROOF
  <1> QED
    BY InitInv, NextInv, PTL DEF Spec

-----------------------------------------------------------------------------
(* The properties *)

\* Every variable has its type; the dependencies of a graph are between its jobs.
THEOREM TypeCorrect == Spec => []TypeOK
PROOF
  <1> QED
    BY AlwaysInv, InvTyped, PTL

\* A job is made of each delayable within the object that delay() is called on, at
\* any depth and however shared (_connect_graphs), and of no other.
THEOREM AllAreDelayed == Spec => []NoneForgotten
PROOF
  <1> QED
    BY AlwaysInv, InvComposed, PTL

\* A job depends on those jobs only that a chain or on_done puts before it.
THEOREM NoneWaitsInVain == Spec => []NoVainWait
PROOF
  <1> QED
    BY AlwaysInv, InvPromised, PTL

\* Without empty groups, and without chains that begin or end with an object whose
\* head is not its tail, a job waits for every job that chains and on_done put
\* before it, however they are nested.
THEOREM OrderIsKept == Spec => []OrderKept
PROOF
  <1> QED
    BY AlwaysInv, InvKept, PTL

\* Jobs wait for each other, directly or through others, exactly as chains and
\* on_done say.
SameOrder ==
  jobs # {} /\ ~Hollow /\ ~Bent => Closed(deps) = Closed(Promised(top))

\* The invariant implies that the stored order is the written one.
LEMMA InvSame ==
  ASSUME Inv
  PROVE  SameOrder
PROOF
  <1> SUFFICES ASSUME jobs # {}, ~Hollow, ~Bent
               PROVE  Closed(deps) = Closed(Promised(top))
    BY DEF SameOrder
  <1>1. ObjectsOK /\ LinksOK /\ top \in Objects
    BY StoredFacts DEF Inv
  <1>2. deps \in SUBSET (Delayables \X Delayables)
    BY StoredFacts
  <1>3. Promised(top) \in SUBSET (Delayables \X Delayables)
    <2>1. Within(top) \in SUBSET Objects
      BY <1>1, WithinIsClosed
    <2> QED
      BY <1>1, <2>1, PromisedIsTyped, PromisedGrows DEF Promised
  <1>4. deps \subseteq Promised(top)
    BY InvPromised DEF NoVainWait
  <1>5. Promised(top) \subseteq Closed(deps)
    BY InvKept DEF OrderKept
  <1>6. Promised(top) \subseteq Closed(Promised(top)) /\ Transitive(Closed(Promised(top)))
    BY <1>3, Sizes, ClosureFacts DEF Transitive
  <1>7. Transitive(Closed(deps))
    BY <1>2, Sizes, ClosureFacts DEF Transitive
  <1>8. Closed(deps) \subseteq Closed(Promised(top))
    BY <1>2, <1>4, <1>6, Sizes, ClosureIsLeast
  <1>9. Closed(Promised(top)) \subseteq Closed(deps)
    BY <1>3, <1>5, <1>7, Sizes, ClosureIsLeast
  <1> QED
    BY <1>8, <1>9

\* What is stored is the written order: with the same exceptions, a job waits for
\* another, directly or through others, exactly if chains and on_done say so.
THEOREM StoredAsWritten == Spec => []SameOrder
PROOF
  <1> QED
    BY AlwaysInv, InvSame, PTL

\* Jobs that are run at once run in the order of their dependencies, once, and all.
THEOREM RunsInOrder == Spec => []DirectOrder
PROOF
  <1> QED
    BY AlwaysInv, InvOrdered, PTL
=============================================================================
