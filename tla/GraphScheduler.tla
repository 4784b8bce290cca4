--------------------------- MODULE GraphScheduler ---------------------------
(***************************************************************************)
(* The frontier scheduler shared by pipelines and missions: executeGraph   *)
(* of libs/core/graph-scheduler.ts.  It sweeps the nodes in their order,   *)
(* starts those whose dependencies are settled as far as the concurrency   *)
(* limit and the resource claims allow, and sweeps again whenever a        *)
(* handler settles.                                                        *)
(*                                                                         *)
(* A sweep runs in one turn of the event loop; it is split into one step   *)
(* per visited node, and handlers only settle at the await.  Conditions    *)
(* (`when') and claims are resolved at dispatch from templated parameters, *)
(* so both are free choices.  A handler works on the context it was given  *)
(* and answers it back with its own output added, as the pipeline engine   *)
(* does; of each node's output channel the context tells whether it is     *)
(* absent, holds an initial value or the node's output.                    *)
(***************************************************************************)
EXTENDS GraphNodes, Integers, FiniteSets

CONSTANTS
  Limit,     \* Math.max(1, maxConcurrency)
  Claims,    \* resource claims: [kind, op, path]
  Overlap,   \* pairs of paths one of which may contain the other
  Graphs,    \* the dependency functions to schedule
  Policies,  \* merge policies to try
  Initial    \* nodes whose output channel is in the initial context

Kinds == {"file", "all", "name"}
ASSUME GraphAssumption ==
  /\ Limit \in Nat \ {0}
  /\ Graphs \subseteq [Nodes -> SUBSET Nodes]
  /\ Initial \subseteq Nodes
  /\ \A c \in Claims : c.kind \in Kinds
  /\ \A o \in Overlap : <<o[2], o[1]>> \in Overlap

VARIABLES
  deps, merge,           \* the graph, fixed
  status,                \* per node
  held, claimsInUse,     \* a running node's claims; the list all are pushed to
  context, given,        \* the merged context; the one a node was started with
  restored,              \* precompletedNodeIds
  at, progressed, phase  \* loop variables and where executeGraph stands

graph == <<deps, merge, restored>>
vars == <<graph, status, held, claimsInUse, context, given, at, progressed, phase>>

Terminal == {"success", "failed", "skipped"}
Active == {n \in Nodes : status[n] = "running"}
NoContext == [n \in Nodes |-> "absent"]
InitialContext == [n \in Nodes |-> IF n \in Initial THEN "initial" ELSE "absent"]

\* Journal-restored nodes are successes, with their output in the context if the
\* journal has it; blocked ones are skipped.
Statuses(done, blocked) ==
  [n \in Nodes |-> IF n \in done THEN "success" ELSE IF n \in blocked THEN "skipped" ELSE "pending"]
ContextWith(rehydrated) == [n \in Nodes |-> IF n \in rehydrated THEN "output" ELSE InitialContext[n]]
Init ==
  /\ deps \in Graphs
  /\ merge \in [Nodes -> Policies]
  /\ restored \in SUBSET Nodes
  /\ \E blocked \in SUBSET (Nodes \ restored) : status = Statuses(restored, blocked)
  /\ held = [n \in Nodes |-> {}]
  /\ claimsInUse = [c \in Claims |-> 0]
  /\ \E rehydrated \in SUBSET restored : context = ContextWith(rehydrated)
  /\ given = [n \in Nodes |-> NoContext]
  /\ at = 1 /\ progressed = FALSE
  /\ phase = "head"
-----------------------------------------------------------------------------
\* resourceClaimsConflict: two reads never conflict, `all' always does.
resourceClaimsConflict(a, b) ==
  \/ a.kind = "all" \/ b.kind = "all"
  \/ ~(a.op = "read" /\ b.op = "read") /\ <<a.path, b.path>> \in Overlap
\* A plain name conflicts with itself and, unverifiable, with any typed claim;
\* the name `resource:all' with every name.
claimsConflict(a, b) ==
  IF a.kind = "name" /\ b.kind = "name"
  THEN a.path = b.path \/ "resource:all" \in {a.path, b.path}
  ELSE a.kind = "name" \/ b.kind = "name" \/ resourceClaimsConflict(a, b)

\* Mutant: only equal claims conflict.
canClaim_SameClaim(C) == \A c \in C : claimsInUse[c] = 0
canClaim(C) == \A c \in C, d \in Claims : claimsInUse[d] > 0 => ~claimsConflict(c, d)
-----------------------------------------------------------------------------
\* while (some node is pending or running).
LoopHead ==
  /\ phase = "head"
  /\ at' = 1 /\ progressed' = FALSE
  /\ phase' = IF \A n \in Nodes : status[n] \in Terminal THEN "done" ELSE "sweep"
  /\ UNCHANGED <<graph, status, held, claimsInUse, context, given>>

Visiting(n) == phase = "sweep" /\ at = n /\ at' = at + 1
Considered(n) == status[n] = "pending" /\ Cardinality(Active) < Limit
Ready(n) == \A d \in deps[n] : status[d] \in Terminal
\* Mutant: only failures block.
Blocked_FailedOnly(n) == \E d \in deps[n] : status[d] = "failed"
Blocked(n) == \E d \in deps[n] : status[d] \in {"failed", "skipped"}

\* The `continue's of the sweep, a claim that is taken included.
Pass(n) ==
  /\ Visiting(n)
  /\ \/ ~Considered(n)
     \/ Considered(n) /\ ~Ready(n)
     \/ /\ Considered(n) /\ Ready(n) /\ ~Blocked(n)
        /\ \E C \in SUBSET Claims : ~canClaim(C)
  /\ UNCHANGED <<graph, status, held, claimsInUse, context, given, progressed, phase>>

\* Blocked by a dependency, or its condition is false.
Skip(n) ==
  /\ Visiting(n)
  /\ Considered(n) /\ Ready(n)
  /\ status' = [status EXCEPT ![n] = "skipped"]
  /\ progressed' = TRUE
  /\ UNCHANGED <<graph, held, claimsInUse, context, given, phase>>

Dispatch(n) ==
  /\ Visiting(n)
  /\ Considered(n) /\ Ready(n) /\ ~Blocked(n)
  /\ \E C \in SUBSET Claims :
       /\ canClaim(C)
       /\ held' = [held EXCEPT ![n] = C]
       /\ claimsInUse' = [c \in Claims |-> claimsInUse[c] + IF c \in C THEN 1 ELSE 0]
  /\ status' = [status EXCEPT ![n] = "running"]
  /\ given' = [given EXCEPT ![n] = context]
  /\ progressed' = TRUE
  /\ UNCHANGED <<graph, context, phase>>

\* Nothing active: sweep again if this one changed something, else throw
\* `Graph scheduler deadlock'.
\* Mutants: the progress of the sweep is forgotten; the scheduler spins.
AfterSweep_NoProgress == IF Active # {} THEN "await" ELSE "deadlock"
AfterSweep_Spins == IF Active # {} THEN "await" ELSE "head"
AfterSweep == IF Active # {} THEN "await"
              ELSE IF progressed THEN "head" ELSE "deadlock"
EndSweep ==
  /\ phase = "sweep" /\ at = N + 1
  /\ phase' = AfterSweep
  /\ at' = 1 /\ progressed' = FALSE
  /\ UNCHANGED <<graph, status, held, claimsInUse, context, given>>
-----------------------------------------------------------------------------
\* The context a handler answers, and its merge: one key under `namespace',
\* everything that is present otherwise.
Answer(n) == [given[n] EXCEPT ![n] = "output"]
\* Mutant: the answer replaces the context.
Merged_Replace(n) == Answer(n)
Merged(n) ==
  IF merge[n] = "namespace" THEN [context EXCEPT ![n] = "output"]
  ELSE [k \in Nodes |-> IF Answer(n)[k] = "absent" THEN context[k] ELSE Answer(n)[k]]

Unclaimed(n) == [c \in Claims |-> claimsInUse[c] - IF c \in held[n] THEN 1 ELSE 0]

\* Promise.race: some handler settles.  A handler that throws, or cannot
\* start its delegation, is `failed' without a context.
Settle(n) ==
  /\ phase = "await" /\ status[n] = "running"
  /\ \E s \in Terminal :
       /\ status' = [status EXCEPT ![n] = s]
       /\ \/ context' = Merged(n)
          \/ s # "success" /\ UNCHANGED context
  /\ claimsInUse' = Unclaimed(n)
  /\ held' = [held EXCEPT ![n] = {}]
  /\ given' = [given EXCEPT ![n] = NoContext]
  /\ phase' = "head"
  /\ UNCHANGED <<graph, at, progressed>>

\* A handler throws adfControlFlow = 'suspend': executeGraph rejects, and the
\* other handlers run on unobserved.
Suspend(n) ==
  /\ phase = "await" /\ status[n] = "running"
  /\ phase' = "suspended"
  /\ UNCHANGED <<graph, status, held, claimsInUse, context, given, at, progressed>>

Ended == phase \in {"done", "deadlock", "suspended"}
SchedulerStep == LoopHead \/ EndSweep \/ \E n \in Nodes : Pass(n) \/ Skip(n) \/ Dispatch(n)
Next ==
  \/ SchedulerStep
  \/ \E n \in Nodes : Settle(n) \/ Suspend(n)
Spec == Init /\ [][Next]_vars
-----------------------------------------------------------------------------
TypeOK ==
  /\ deps \in [Nodes -> SUBSET Nodes]
  /\ restored \in SUBSET Nodes /\ merge \in [Nodes -> Policies]
  /\ status \in [Nodes -> Terminal \cup {"pending", "running"}]
  /\ held \in [Nodes -> SUBSET Claims]
  /\ claimsInUse \in [Claims -> Nat]
  /\ context \in [Nodes -> {"absent", "initial", "output"}]
  /\ given \in [Nodes -> [Nodes -> {"absent", "initial", "output"}]]
  /\ at \in 1..(N + 1) /\ progressed \in BOOLEAN
  /\ phase \in {"head", "sweep", "await", "done", "deadlock", "suspended"}

\* Nodes that run together never hold conflicting claims, and there are at
\* most Limit of them, however claims are pushed, removed and resolved.
ExclusiveClaims ==
  /\ Cardinality(Active) <= Limit
  /\ \A m, n \in Active : m # n =>
       \A c \in held[m], d \in held[n] : ~claimsConflict(c, d)

\* No node runs before, or in spite of, its dependencies: whatever ran has
\* only successful ones.
RunsAfterSuccess ==
  \A n \in Nodes \ restored : status[n] \in {"running", "success", "failed"} =>
    \A d \in deps[n] : status[d] = "success"

\* A set of nodes each of which waits for another one of the set.
Cyclic == \E S \in SUBSET Nodes : S # {} /\ \A n \in S : deps[n] \cap S # {}
\* "Graph scheduler deadlock" is only thrown for a graph that has a cycle:
\* neither the limit nor the claims can wedge the scheduler.
DeadlockOnlyOnCycle == phase = "deadlock" => Cyclic

\* What a dependency added to the context is there when its dependent starts,
\* although siblings settled in between with contexts that never had it.  A
\* value the channel had before the run only comes back over the output from a
\* node that merges what it answers and does not itself wait for the producer.
PutsBack(m, d) == merge[m] # "namespace" /\ d \in Initial /\ m # d /\ d \notin deps[m]
UpstreamOutputVisible ==
  \A n \in Active : \A d \in deps[n] \ restored :
    given[n][d] = "output" \/ \E m \in Nodes \ {n} : PutsBack(m, d)
=============================================================================
