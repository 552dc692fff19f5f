----------------------------- MODULE DelayGraph -----------------------------
(***************************************************************************)
(* How a program describes a graph of jobs and delays it.  Delayables,     *)
(* chains and groups are Python objects, composed of objects made before;  *)
(* each keeps a graph of its own, to which on_done adds links.  delay()    *)
(* walks the graphs within the object it is called on, connects them into  *)
(* one graph of delayables, and stores a job per delayable, or runs them   *)
(* at once.  JobGraph models what becomes of the stored jobs.              *)
(***************************************************************************)
EXTENDS Integers, Sequences, FiniteSets, SequencesExt

CONSTANTS
  Size,          \* delayables; objects are numbered as they are made
  Keyed,         \* delayables with an identity key
  MaxComposed,   \* bound: chains and groups
  MaxParts,      \* bound: parts of a chain or a group
  MaxLinks       \* bound: calls of on_done

ASSUME DelayAssumption ==
  /\ {Size, MaxComposed, MaxParts, MaxLinks} \subseteq Nat
  /\ Keyed \subseteq 1..Size

VARIABLES
  kind,   \* kind[o]: what object o is
  parts,  \* parts[o]: what it was made of, in order
  edges,  \* edges[o]: the links of o._graph
  links,  \* ghost: pairs (o, p) of the calls o.on_done(p)
  top,    \* the object delay() was called on, 0 before
  jobs,   \* delayables whose jobs are stored, or to be run at once
  deps,   \* dependencies between them: pairs (parent, child)
  given,  \* delayables whose job was replaced by an existing one
  line,   \* topological_sort: the queue,
  left,   \* depends_per_node,
  ran     \* and what it has yielded

built == <<kind, parts, edges, links>>
sort  == <<line, left, ran>>
vars  == <<built, top, jobs, deps, given, sort>>

-----------------------------------------------------------------------------
Delayables == 1..Size
Objects    == 1..Len(kind)

TypeOK ==
  /\ kind  \in Seq({"delayable", "chain", "group"})
  /\ DOMAIN parts = Objects /\ DOMAIN edges = Objects
  /\ \A o \in Objects : /\ parts[o] \in Seq(1..(o - 1))
                        /\ edges[o] \subseteq Objects \X Objects
  /\ links \subseteq Objects \X Objects
  /\ top   \in Objects \cup {0}
  /\ jobs  \subseteq Delayables /\ deps \subseteq jobs \X jobs
  /\ given \subseteq Keyed
  /\ line  \in Seq(jobs) /\ ran \in Seq(jobs) /\ DOMAIN left \subseteq jobs
  /\ \A j \in DOMAIN left : left[j] \in Nat

Init ==
  /\ kind  = [o \in Delayables |-> "delayable"]
  /\ parts = [o \in Delayables |-> <<>>]
  /\ edges = [o \in Delayables |-> {}]
  /\ links = {} /\ top = 0 /\ jobs = {} /\ deps = {} /\ given = {}
  /\ line = <<>> /\ left = <<>> /\ ran = <<>>

-----------------------------------------------------------------------------
(* Pure parts of the code; a name with a suffix is a faulty variant.       *)

Successive(s) == {<<s[i], s[i + 1]>> : i \in 1..(Len(s) - 1)}

\* _head() and _tail() of every object.  A chain asks its first part for the
\* tail and its last part for the head.
Ends[o \in Objects] ==
  IF kind[o] = "delayable" THEN [head |-> {o}, tail |-> {o}]
  ELSE IF kind[o] = "chain"
    THEN [head |-> Ends[parts[o][1]].tail, tail |-> Ends[Last(parts[o])].head]
    ELSE [head |-> UNION {Ends[p].head : p \in ToSet(parts[o])},
          tail |-> UNION {Ends[p].tail : p \in ToSet(parts[o])}]

\* o._graph.vertices()
Vertices(o) ==
  {v \in Objects : \E e \in edges[o] : v \in {e[1], e[2]}}
    \cup (IF kind[o] = "delayable" THEN {o} ELSE ToSet(parts[o]))

\* The objects whose graphs _connect_graphs visits from o
Within_Own(o) == {o} \cup Vertices(o)
Within(o) ==
  LET seen[n \in 0..Len(kind)] == IF n = 0 THEN {o} ELSE
        LET before == seen[n - 1] IN before \cup UNION {Vertices(p) : p \in before}
  IN  seen[Len(kind)]

\* _merge_graph
MergedEdges(o) == UNION {Ends[e[1]].tail \X Ends[e[2]].head : e \in edges[o]}
MergedVertices(o) == UNION {Ends[v].tail : v \in Vertices(o)}

\* What on_done links to the objects it is given
Linked_FirstPart(o) ==
  CASE kind[o] = "delayable" -> {o}
    [] kind[o] = "chain"     -> {parts[o][1]}
    [] kind[o] = "group"     -> ToSet(parts[o])
Linked(o) ==
  CASE kind[o] = "delayable" -> {o}
    [] kind[o] = "chain"     -> {Last(parts[o])}
    [] kind[o] = "group"     -> ToSet(parts[o])

\* root_vertices
Roots_All(G, V) == V
Roots(G, V) == {v \in V : \A e \in G : e[2] # v}

Parents(G, v)  == {e[1] : e \in {f \in G : f[2] = v}}
Children(G, v) == {e[2] : e \in {f \in G : f[1] = v}}

-----------------------------------------------------------------------------
(* What the documentation promises, to compare with what is built          *)

\* The delayables an object is composed of
Leaves[o \in Objects] ==
  IF kind[o] = "delayable" THEN {o} ELSE UNION {Leaves[p] : p \in ToSet(parts[o])}

\* "A chain means that jobs must be executed sequentially"
ChainPromises(S) ==
  UNION {Leaves[parts[t[1]][t[2]]] \X Leaves[parts[t[1]][t[3]]] :
           t \in {u \in S \X (1..MaxParts) \X (1..MaxParts) :
                    kind[u[1]] = "chain" /\ u[2] < u[3] /\ u[3] <= Len(parts[u[1]])}}

\* What on_done is passed "will be executed when the current [object] is done".
LinkPromises(S) ==
  UNION {Leaves[l[1]] \X Leaves[l[2]] : l \in {m \in links : m[1] \in S}}

PromisedIn(S) == ChainPromises(S) \cup LinkPromises(S)
Promised(o) == PromisedIn(Within(o))

\* The transitive closure of a relation between delayables
Closed(G) ==
  LET via[k \in 0..Size] == IF k = 0 THEN G ELSE
        via[k - 1] \cup {e \in Delayables \X Delayables :
                           <<e[1], k>> \in via[k - 1] /\ <<k, e[2]>> \in via[k - 1]}
  IN  via[Size]

\* "It assumes the graph has no cycle."
Acyclic == LET R == Closed(PromisedIn(Objects)) IN \A d \in Delayables : <<d, d>> \notin R

-----------------------------------------------------------------------------
(* Composing a graph *)

Make(k, s, es) ==
  /\ top = 0
  /\ Len(kind) < Size + MaxComposed
  /\ kind'  = Append(kind, k)
  /\ parts' = Append(parts, s)
  /\ edges' = Append(edges, es)
  /\ UNCHANGED <<links, top, jobs, deps, given, sort>>
  /\ Acyclic'

\* chain(...), of different objects
Chain(s) == s # <<>> /\ Make("chain", s, Successive(s))

\* group(...), possibly of nothing; the parts are a set.
GroupLinks_AsChain(s) == Successive(s)
GroupLinks(s) == {}
Group(S) == LET s == SetToSeq(S) IN Make("group", s, GroupLinks(s))

OnDone(o, p) ==
  /\ top = 0
  /\ Cardinality(links) < MaxLinks
  /\ links' = links \cup {<<o, p>>}
  /\ edges' = [edges EXCEPT ![o] = @ \cup (Linked(o) \X {p})]
  /\ UNCHANGED <<kind, parts, top, jobs, deps, given, sort>>
  /\ Acyclic'

-----------------------------------------------------------------------------
(* delay() *)

BuiltVertices(o) == UNION {MergedVertices(p) : p \in Within(o)}
BuiltEdges(o)    == UNION {MergedEdges(p) : p \in Within(o)}

\* The jobs are stored, unless every one with an identity key has a job with
\* that key already: then one delayable is given the existing job.
Delay(o) ==
  LET V == BuiltVertices(o) IN
  /\ top = 0
  /\ V # {}
  /\ top' = o
  /\ \E existing \in SUBSET Keyed :
       IF V \cap Keyed # {} /\ V \cap Keyed \subseteq existing
         THEN /\ jobs' = {} /\ deps' = {}
              /\ \E d \in V \cap Keyed : given' = {d}
         ELSE jobs' = V /\ deps' = BuiltEdges(o) /\ given' = {}
  /\ UNCHANGED <<built, sort>>

\* In a test, they are run at once, in the order of topological_sort.
DelayDirect(o) ==
  LET V == BuiltVertices(o) IN
  /\ top = 0
  /\ V # {}
  /\ top' = o
  /\ jobs' = V /\ deps' = BuiltEdges(o)
  /\ left' = [v \in V |-> Cardinality(Parents(deps', v))]
  /\ line' \in SetToSeqs(Roots(deps', V))
  /\ UNCHANGED <<built, given, ran>>

Freed_Early(v) == {c \in Children(deps, v) : left[c] <= 2}
Freed(v) == {c \in Children(deps, v) : left[c] = 1}

Run ==
  /\ line # <<>>
  /\ LET v == Head(line) IN
       /\ ran'  = Append(ran, v)
       /\ left' = [c \in jobs |-> IF c \in Children(deps, v) THEN left[c] - 1 ELSE left[c]]
       /\ \E s \in SetToSeqs(Freed(v)) : line' = Tail(line) \o s
  /\ UNCHANGED <<built, top, jobs, deps, given>>

-----------------------------------------------------------------------------
Parts == UNION {SetToSeqs(S) : S \in {T \in SUBSET Objects : Cardinality(T) <= MaxParts}}

Next ==
  \/ \E s \in Parts : Chain(s)
  \/ \E S \in SUBSET Objects : Cardinality(S) <= MaxParts /\ Group(S)
  \/ \E o, p \in Objects : o # p /\ OnDone(o, p)
  \/ \E o \in Objects : Delay(o) \/ DelayDirect(o)
  \/ Run

Spec == Init /\ [][Next]_vars

-----------------------------------------------------------------------------
(* Properties *)

\* An object of the graph is composed of nothing.  It has neither head nor tail:
\* a chain through it is cut there.
Hollow == \E o \in Within(top) : Leaves[o] = {}

\* A chain whose first or last part has a head other than its tail: its head is
\* then its first part's tail, and its tail its last part's head.
Bent ==
  \E o \in Within(top) :
    /\ kind[o] = "chain"
    /\ \E p \in {parts[o][1], Last(parts[o])} : Ends[p].head # Ends[p].tail

\* A job waits, directly or through others, for all the jobs that chains and
\* on_done put before it, however they are nested and shared.
OrderKept == jobs # {} /\ ~Hollow /\ ~Bent => Promised(top) \subseteq Closed(deps)

\* "A chain means that jobs must be executed sequentially", nested ones too.
NestedOrderKept == jobs # {} /\ ~Hollow => Promised(top) \subseteq Closed(deps)

\* A job waits for no job but those that a chain or on_done puts before it: the
\* parts of a group stay independent.
NoVainWait == jobs # {} => deps \subseteq Promised(top)

\* A job is made of each delayable within the object, at any depth.
NoneForgotten ==
  jobs # {} => jobs = UNION {Leaves[o] : o \in Within(top)}

\* topological_sort "guarantee[s] that a node depending on another is not
\* yielded before", yields a node once, and does not leave one out.
DirectOrder ==
  /\ \A i \in DOMAIN ran : Parents(deps, ran[i]) \subseteq {ran[k] : k \in 1..(i - 1)}
  /\ IsInjective(ran)
  /\ ran # <<>> /\ line = <<>> => ToSet(ran) = jobs
=============================================================================
