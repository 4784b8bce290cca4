--------------------------- MODULE ExecutionGraph ---------------------------
(***************************************************************************)
(* deriveExecutionGraph of libs/core/graph-scheduler.ts: the edges derived *)
(* from what the steps declare, and the cycle check that follows.  A step  *)
(* is its index, ids are distinct.  depends_on may name an unknown step    *)
(* (0); `first' is depends_on[0].  A channel produced by nested steps, or  *)
(* in the initial context (InitialChannels), needs no producer.            *)
(*                                                                         *)
(* The queue of the cycle check is a set: which of several ready nodes is  *)
(* taken first does not change what is visited.                            *)
(***************************************************************************)
EXTENDS GraphNodes, Integers, FiniteSets

CONSTANTS
  Channels, None,
  Undeclared,   \* depends_on, consumes or when is undefined
  Shapes,       \* the steps to try: [deps, first, produces, consumes, when]
  InitialChannels

ASSUME ShapesAssumption ==
  \A s \in Shapes :
       /\ s.deps = Undeclared \/ s.deps \in SUBSET (0..N)
       /\ s.deps \notin {Undeclared, {}} => s.first \in s.deps
       /\ s.produces \in Channels \cup {None}
       /\ s.consumes = Undeclared \/ s.consumes \in SUBSET Channels
       /\ s.when \in Channels \cup {Undeclared, None}

VARIABLES
  steps, edges, errors,
  remaining, queue, visited,   \* the cycle check
  done

deriveVars == <<steps, edges, errors, remaining, queue, visited, done>>
-----------------------------------------------------------------------------
Deps(s, i) == IF s[i].deps = Undeclared THEN {} ELSE s[i].deps
Consumes(s, i) == IF s[i].consumes = Undeclared THEN {} ELSE s[i].consumes
producers(s, c) == {p \in Nodes : s[p].produces = c}
Edge(f, t, k, c) == [from |-> f, to |-> t, kind |-> k, channel |-> c]

ControlEdges(s) == UNION {{Edge(d, i, "control", None) : d \in Deps(s, i) \ {0}} : i \in Nodes}
DataEdges(s) ==
  UNION {UNION {{Edge(p, i, "data", c) : p \in producers(s, c)} : c \in Consumes(s, i)} : i \in Nodes}

\* A condition binds to the first dependency, else to the step before, and to
\* the producers of the channel it reads (None: it names no channel).
WhenOn(s, i) == IF Deps(s, i) # {} THEN s[i].first ELSE i - 1
WhenSource(s, i) == WhenOn(s, i) # 0
WhenEdges(s) ==
  LET conditional == {i \in Nodes : s[i].when # Undeclared}
  IN {Edge(WhenOn(s, i), i, "when", None) : i \in {j \in conditional : WhenSource(s, j)}}
     \cup UNION {{Edge(p, i, "when", s[i].when) : p \in producers(s, s[i].when)}
                  : i \in {j \in conditional : s[j].when # None}}

\* Steps that declare nothing follow the step before.
hasExplicitGraph(s) ==
  \E i \in Nodes : s[i].deps # Undeclared \/ s[i].consumes # Undeclared \/ s[i].when # Undeclared
ImplicitEdges(s, E) ==
  {Edge(i - 1, i, "control", None) :
     i \in {j \in Nodes \ {1} :
              /\ ~\E e \in E : e.to = j
              /\ ~hasExplicitGraph(s) \/ (s[j].deps = Undeclared /\ s[j].consumes = Undeclared)}}
Derived(s) ==
  LET E == ControlEdges(s) \cup DataEdges(s) \cup WhenEdges(s)
  IN E \cup ImplicitEdges(s, E)

DeclarationErrors(s) ==
  (IF \E i \in Nodes : 0 \in Deps(s, i) THEN {"missing-dependency"} ELSE {})
  \cup (IF \E i \in Nodes : \E c \in Consumes(s, i) \ InitialChannels : producers(s, c) = {}
        THEN {"missing-channel"} ELSE {})

Dependencies(E, i) == {e.from : e \in {x \in E : x.to = i}}
\* Mutant: a node without incoming control edges is a root.
InitialCount_Control(E, i) ==
  Cardinality({e.from : e \in {x \in E : x.to = i /\ x.kind = "control"}})
InitialCount(E, i) == Cardinality(Dependencies(E, i))

DeriveInit ==
  /\ steps \in [Nodes -> Shapes]
  /\ edges = Derived(steps)
  /\ errors = DeclarationErrors(steps)
  /\ remaining = [i \in Nodes |-> InitialCount(edges, i)]
  /\ queue = {i \in Nodes : remaining[i] = 0}
  /\ visited = {}
  /\ done = FALSE

\* One turn of the loop: every outgoing edge takes one from its target's
\* count; the target is queued when the count comes down to 0.
Taken(n, i) == Cardinality({e \in edges : e.from = n /\ e.to = i})
\* Mutant: the count is looked at once per visited node.
Reached_PerNode(n, i) == remaining[i] > 0 /\ remaining[i] = Taken(n, i)
Reached(n, i) == remaining[i] > 0 /\ remaining[i] - Taken(n, i) <= 0
Visit(n) ==
  /\ n \in queue
  /\ visited' = visited \cup {n}
  /\ remaining' = [i \in Nodes |-> remaining[i] - Taken(n, i)]
  /\ queue' = (queue \ {n}) \cup {i \in Nodes : Reached(n, i)}
  /\ UNCHANGED <<steps, edges, errors, done>>

Finish ==
  /\ queue = {} /\ ~done
  /\ errors' = IF visited # Nodes THEN errors \cup {"cycle"} ELSE errors
  /\ done' = TRUE
  /\ UNCHANGED <<steps, edges, remaining, queue, visited>>

DeriveNext == (\E n \in Nodes : Visit(n)) \/ Finish
DeriveSpec == DeriveInit /\ [][DeriveNext]_deriveVars
-----------------------------------------------------------------------------
\* Every edge joins two steps of the graph.
DeriveTypeOK ==
  /\ edges \subseteq [from : Nodes, to : Nodes, kind : {"control", "data", "when"},
                       channel : Channels \cup {None}]
  /\ errors \subseteq {"missing-dependency", "missing-channel", "cycle"}
  /\ remaining \in [Nodes -> Int]
  /\ queue \subseteq Nodes /\ visited \subseteq Nodes /\ done \in BOOLEAN

\* Reference definition of a cycle: nodes each of which depends on another one
\* of them.
HasCycle(E) == \E S \in SUBSET Nodes : S # {} /\ \A i \in S : Dependencies(E, i) \cap S # {}
ParallelEdges(E) == \E d, e \in E : d # e /\ d.from = e.from /\ d.to = e.to

\* A graph that can be executed is never refused as cyclic.
AcyclicAccepted == done /\ "cycle" \in errors => HasCycle(edges)

\* A cycle is refused if no two steps are joined by more than one edge.
SimpleCyclesRejected == done /\ HasCycle(edges) /\ ~ParallelEdges(edges) => "cycle" \in errors
=============================================================================
