------------------------ MODULE GraphSchedulerProofs ------------------------
(***************************************************************************)
(* TLAPS proofs about GraphScheduler, for any number of nodes, any graph,  *)
(* any limit and any claims: conflicting nodes never run together, nothing *)
(* runs before its dependencies succeeded, only a cycle wedges the         *)
(* scheduler, and a node sees what its dependencies left in the context.   *)
(* The second part proves the cycle check of the graph (ExecutionGraph)    *)
(* right, and that what it accepts never wedges the scheduler.  The third  *)
(* carries all of it over to the pipeline engine, which runs one after the *)
(* other (AdfPipeline).                                                    *)
(***************************************************************************)
EXTENDS AdfPipeline, FiniteSetTheorems, TLAPS

\* The nodes that hold a claim.
Holders(c) == {n \in Nodes : c \in held[n]}

\* claimsInUse lists a claim once for each running node that holds it.
ClaimsCounted ==
  /\ \A c \in Claims : claimsInUse[c] = Cardinality(Holders(c))
  /\ \A n \in Nodes : held[n] # {} => status[n] = "running"

\* What a fruitless sweep has passed over is not ready.
SweepIsFruitless ==
  phase = "sweep" /\ ~progressed =>
    /\ \E n \in Nodes : status[n] \notin Terminal
    /\ Active = {} =>
         \A k \in Nodes : k < at /\ status[k] = "pending" => ~Ready(k)

\* Each channel of the context is what its producer left, unless somebody puts
\* the initial value back; initial values are only where the run put them.
Kept(ctx, d) == ctx[d] = "output" \/ \E m \in Nodes : PutsBack(m, d)
ContextKept ==
  /\ \A d \in Nodes :
       /\ context[d] = "initial" => d \in Initial
       /\ \A n \in Nodes : given[n][d] = "initial" => d \in Initial
       /\ d \notin restored /\ status[d] = "success" => Kept(context, d)
  /\ \A n \in Active : \A d \in deps[n] \ restored : Kept(given[n], d)

RestoredStay == \A n \in restored : status[n] = "success"
-----------------------------------------------------------------------------
LEMMA NodesAreFinite == IsFiniteSet(Nodes) /\ N \in Nat
<1>1. N \in Nat
  BY NodesAssumption
<1> QED
  BY <1>1, FS_Interval DEF Nodes

\* A set of nodes is finite, and its size changes as its members do.
LEMMA NodeSets ==
  ASSUME NEW S \in SUBSET Nodes
  PROVE  /\ IsFiniteSet(S)
         /\ Cardinality(S) \in Nat
         /\ Cardinality(S) = 0 <=> S = {}
         /\ \A x : Cardinality(S \cup {x}) =
                     IF x \in S THEN Cardinality(S) ELSE Cardinality(S) + 1
         /\ \A x : Cardinality(S \ {x}) =
                     IF x \in S THEN Cardinality(S) - 1 ELSE Cardinality(S)
<1>1. IsFiniteSet(S)
  BY NodesAreFinite, FS_Subset
<1> QED
  BY <1>1, FS_CardinalityType, FS_EmptySet, FS_AddElement, FS_RemoveElement

\* Where executeGraph begins, whatever graph it was given.
Begun ==
  /\ deps \in [Nodes -> SUBSET Nodes]
  /\ merge \in [Nodes -> Policies] /\ restored \in SUBSET Nodes
  /\ \E blocked \in SUBSET (Nodes \ restored) : status = Statuses(restored, blocked)
  /\ held = [n \in Nodes |-> {}]
  /\ claimsInUse = [c \in Claims |-> 0]
  /\ \E rehydrated \in SUBSET restored : context = ContextWith(rehydrated)
  /\ given = [n \in Nodes |-> NoContext]
  /\ at = 1 /\ progressed = FALSE
  /\ phase = "head"

LEMMA InitIsBegun == Init => Begun
BY GraphAssumption DEF Init, Begun

\* There every variable has its type.
LEMMA TypeInit == Begun => TypeOK
<1> SUFFICES ASSUME Begun PROVE TypeOK
  OBVIOUS
<1>1. 1 \in 1..(N + 1)
  BY NodesAreFinite
<1>2. deps \in [Nodes -> SUBSET Nodes]
  BY DEF Begun
<1>3. status \in [Nodes -> Terminal \cup {"pending", "running"}]
  BY DEF Begun, Statuses, Terminal
<1>4. context \in [Nodes -> {"absent", "initial", "output"}]
  BY DEF Begun, ContextWith, InitialContext
<1>5. /\ given \in [Nodes -> [Nodes -> {"absent", "initial", "output"}]]
      /\ held \in [Nodes -> SUBSET Claims]
      /\ claimsInUse \in [Claims -> Nat]
  BY DEF Begun, NoContext
<1> QED
  BY <1>1, <1>2, <1>3, <1>4, <1>5 DEF Begun, TypeOK

\* What a handler answers, merged, is a context again.
LEMMA MergedType ==
  ASSUME TypeOK, NEW n \in Nodes
  PROVE  Merged(n) \in [Nodes -> {"absent", "initial", "output"}]
BY DEF TypeOK, Merged, Answer

\* Removing a node's claims leaves no count negative.
LEMMA UnclaimedType ==
  ASSUME TypeOK, ClaimsCounted, NEW n \in Nodes
  PROVE  Unclaimed(n) \in [Claims -> Nat]
<1> SUFFICES ASSUME NEW c \in Claims, c \in held[n]
             PROVE  claimsInUse[c] - 1 \in Nat
  BY DEF Unclaimed, TypeOK
<1>1. Holders(c) \in SUBSET Nodes /\ n \in Holders(c)
  BY DEF Holders
<1>2. Cardinality(Holders(c)) \in Nat /\ Cardinality(Holders(c)) # 0
  BY <1>1, NodeSets
<1> QED
  BY <1>2 DEF ClaimsCounted

\* Every step keeps the types.
LEMMA TypePreserved ==
  ASSUME TypeOK, ClaimsCounted, [Next]_vars
  PROVE  TypeOK'
<1> USE DEF TypeOK, graph
<1>0. N \in Nat /\ 1 \in 1..(N + 1)
  BY NodesAreFinite
<1>1. CASE LoopHead
  BY <1>0, <1>1 DEF LoopHead
<1>2. CASE EndSweep
  BY <1>0, <1>2 DEF EndSweep, AfterSweep
<1>3. ASSUME NEW n \in Nodes, Visiting(n), at' = at + 1 PROVE at' \in 1..(N + 1)
  BY <1>0, <1>3 DEF Visiting, Nodes
<1>4. ASSUME NEW n \in Nodes, Pass(n) PROVE TypeOK'
  BY <1>3, <1>4 DEF Pass, Visiting
<1>5. ASSUME NEW n \in Nodes, Skip(n) PROVE TypeOK'
  BY <1>3, <1>5 DEF Skip, Visiting, Terminal
<1>6. ASSUME NEW n \in Nodes, Dispatch(n) PROVE TypeOK'
  <2>1. PICK C \in SUBSET Claims :
          /\ held' = [held EXCEPT ![n] = C]
          /\ claimsInUse' = [c \in Claims |-> claimsInUse[c] + IF c \in C THEN 1 ELSE 0]
    BY <1>6 DEF Dispatch
  <2>2. held' \in [Nodes -> SUBSET Claims] /\ claimsInUse' \in [Claims -> Nat]
    BY <2>1
  <2>3. given' \in [Nodes -> [Nodes -> {"absent", "initial", "output"}]]
    BY <1>6 DEF Dispatch
  <2> QED
    BY <1>3, <1>6, <2>2, <2>3 DEF Dispatch, Visiting
<1>7. ASSUME NEW n \in Nodes, Settle(n) PROVE TypeOK'
  <2>1. context' \in [Nodes -> {"absent", "initial", "output"}]
    BY <1>7, MergedType DEF Settle
  <2>2. claimsInUse' \in [Claims -> Nat]
    BY <1>7, UnclaimedType DEF Settle
  <2>3. given' \in [Nodes -> [Nodes -> {"absent", "initial", "output"}]]
    BY <1>7 DEF Settle, NoContext
  <2>4. held' \in [Nodes -> SUBSET Claims]
    BY <1>7 DEF Settle
  <2> QED
    BY <1>7, <2>1, <2>2, <2>3, <2>4 DEF Settle
<1>8. ASSUME NEW n \in Nodes, Suspend(n) PROVE TypeOK'
  BY <1>8 DEF Suspend
<1>9. CASE UNCHANGED vars
  BY <1>9 DEF vars
<1> QED
  BY <1>1, <1>2, <1>4, <1>5, <1>6, <1>7, <1>8, <1>9 DEF Next, SchedulerStep-----------------------------------------------------------------------------
\* Steps that leave the nodes and their claims alone.
LEMMA ClaimsUntouched ==
  ASSUME ClaimsCounted, UNCHANGED <<held, claimsInUse, status>>
  PROVE  ClaimsCounted'
BY DEF ClaimsCounted, Holders

\* Every step keeps the count of claims.
LEMMA ClaimsPreserved ==
  ASSUME TypeOK, ClaimsCounted, [Next]_vars
  PROVE  ClaimsCounted'
<1>1. CASE LoopHead \/ EndSweep \/ UNCHANGED vars
  BY <1>1, ClaimsUntouched DEF LoopHead, EndSweep, vars
<1>2. ASSUME NEW n \in Nodes, Pass(n) \/ Suspend(n) PROVE ClaimsCounted'
  BY <1>2, ClaimsUntouched DEF Pass, Suspend
<1>3. ASSUME NEW n \in Nodes, Skip(n) PROVE ClaimsCounted'
  BY <1>3 DEF Skip, Considered, ClaimsCounted, Holders, TypeOK
<1>4. ASSUME NEW n \in Nodes, Dispatch(n) PROVE ClaimsCounted'
  <2>1. PICK C \in SUBSET Claims :
          /\ held' = [held EXCEPT ![n] = C]
          /\ claimsInUse' = [c \in Claims |-> claimsInUse[c] + IF c \in C THEN 1 ELSE 0]
    BY <1>4 DEF Dispatch
  <2>2. held[n] = {} /\ status' = [status EXCEPT ![n] = "running"]
    BY <1>4 DEF Dispatch, Considered, ClaimsCounted
  <2>3. ASSUME NEW c \in Claims PROVE claimsInUse'[c] = Cardinality(Holders(c))'
    <3>1. Holders(c) \in SUBSET Nodes /\ n \notin Holders(c)
      BY <2>2 DEF Holders
    <3>2. Holders(c)' = IF c \in C THEN Holders(c) \cup {n} ELSE Holders(c)
      BY <2>1, <2>2 DEF Holders, TypeOK
    <3>3. claimsInUse[c] = Cardinality(Holders(c))
      BY DEF ClaimsCounted
    <3>4. claimsInUse'[c] = claimsInUse[c] + IF c \in C THEN 1 ELSE 0
      BY <2>1
    <3>5. CASE c \in C
      <4>1. Cardinality(Holders(c) \cup {n}) = Cardinality(Holders(c)) + 1
        BY <3>1, NodeSets
      <4> QED
        BY <3>2, <3>3, <3>4, <3>5, <4>1
    <3>6. CASE c \notin C
      BY <3>1, <3>2, <3>3, <3>4, <3>6, NodeSets
    <3> QED
      BY <3>5, <3>6
  <2>4. \A m \in Nodes : held'[m] # {} => status'[m] = "running"
    BY <2>1, <2>2 DEF ClaimsCounted, TypeOK
  <2> QED
    BY <2>3, <2>4 DEF ClaimsCounted
<1>5. ASSUME NEW n \in Nodes, Settle(n) PROVE ClaimsCounted'
  <2>1. /\ held' = [held EXCEPT ![n] = {}]
        /\ claimsInUse' = Unclaimed(n)
        /\ \E s \in Terminal : status' = [status EXCEPT ![n] = s]
    BY <1>5 DEF Settle
  <2>2. ASSUME NEW c \in Claims PROVE claimsInUse'[c] = Cardinality(Holders(c))'
    <3>1. Holders(c) \in SUBSET Nodes /\ (n \in Holders(c) <=> c \in held[n])
      BY DEF Holders
    <3>2. Holders(c)' = Holders(c) \ {n}
      BY <2>1 DEF Holders, TypeOK
    <3>3. claimsInUse[c] = Cardinality(Holders(c))
      BY DEF ClaimsCounted
    <3>4. claimsInUse'[c] = claimsInUse[c] - IF c \in held[n] THEN 1 ELSE 0
      BY <2>1 DEF Unclaimed
    <3>5. /\ Cardinality(Holders(c)) \in Nat
          /\ Cardinality(Holders(c) \ {n}) =
               IF n \in Holders(c) THEN Cardinality(Holders(c)) - 1
               ELSE Cardinality(Holders(c))
      BY <3>1, NodeSets
    <3> QED
      BY <3>1, <3>2, <3>3, <3>4, <3>5
  <2>3. \A m \in Nodes : held'[m] # {} => status'[m] = "running"
    BY <2>1 DEF ClaimsCounted, TypeOK
  <2> QED
    BY <2>2, <2>3 DEF ClaimsCounted
<1> QED
  BY <1>1, <1>2, <1>3, <1>4, <1>5 DEF Next, SchedulerStep
-----------------------------------------------------------------------------
\* What the steps do to the nodes: one that starts has only successful
\* dependencies, one that settles was running, a skipped one was pending.
LEMMA StatusSteps ==
  ASSUME TypeOK, [Next]_vars
  PROVE  \/ UNCHANGED status
         \/ \E n \in Nodes :
              \/ status[n] = "pending" /\ status' = [status EXCEPT ![n] = "skipped"]
              \/ /\ status[n] = "pending" /\ status' = [status EXCEPT ![n] = "running"]
                 /\ \A d \in deps[n] : status[d] = "success"
              \/ /\ status[n] = "running"
                 /\ \E s \in Terminal : status' = [status EXCEPT ![n] = s]
<1>1. CASE LoopHead \/ EndSweep \/ UNCHANGED vars
  BY <1>1 DEF LoopHead, EndSweep, vars
<1>2. ASSUME NEW n \in Nodes, Pass(n) \/ Suspend(n) PROVE UNCHANGED status
  BY <1>2 DEF Pass, Suspend
<1>3. ASSUME NEW n \in Nodes, Skip(n)
      PROVE  status[n] = "pending" /\ status' = [status EXCEPT ![n] = "skipped"]
  BY <1>3 DEF Skip, Considered
<1>4. ASSUME NEW n \in Nodes, Dispatch(n)
      PROVE  /\ status[n] = "pending" /\ status' = [status EXCEPT ![n] = "running"]
             /\ \A d \in deps[n] : status[d] = "success"
  BY <1>4 DEF Dispatch, Considered, Ready, Blocked, Terminal
<1>5. ASSUME NEW n \in Nodes, Settle(n)
      PROVE  /\ status[n] = "running"
             /\ \E s \in Terminal : status' = [status EXCEPT ![n] = s]
  BY <1>5 DEF Settle
<1> QED
  BY <1>1, <1>2, <1>3, <1>4, <1>5 DEF Next, SchedulerStep

\* The graph is fixed.
LEMMA GraphFixed ==
  ASSUME [Next]_vars
  PROVE  UNCHANGED graph
BY DEF Next, SchedulerStep, LoopHead, EndSweep, Pass, Skip, Dispatch, Settle, Suspend, vars

\* Every step keeps what a restored node and a node that ran rest on.
LEMMA RunsAfterSuccessPreserved ==
  ASSUME TypeOK, RestoredStay, RunsAfterSuccess, [Next]_vars
  PROVE  RestoredStay' /\ RunsAfterSuccess'
<1> USE StatusSteps, GraphFixed
    DEF TypeOK, RestoredStay, RunsAfterSuccess, Terminal, graph
<1>1. RestoredStay'
  OBVIOUS
<1>2. RunsAfterSuccess'
  OBVIOUS
<1> QED
  BY <1>1, <1>2
-----------------------------------------------------------------------------
\* Whether two claims conflict does not depend on their order.
LEMMA ConflictIsSymmetric ==
  ASSUME NEW c \in Claims, NEW d \in Claims, claimsConflict(c, d)
  PROVE  claimsConflict(d, c)
<1>1. ASSUME NEW x, NEW y, <<x, y>> \in Overlap PROVE <<y, x>> \in Overlap
  BY <1>1, GraphAssumption
<1> QED
  BY <1>1 DEF claimsConflict, resourceClaimsConflict

\* A step that starts no node keeps the running ones apart.
LEMMA NoneStarted ==
  ASSUME TypeOK, ExclusiveClaims, Active' \subseteq Active,
         \A n \in Active' : held'[n] = held[n]
  PROVE  ExclusiveClaims'
<1>1. Cardinality(Active') <= Limit
  <2>1. Active \in SUBSET Nodes
    BY DEF Active
  <2>2. IsFiniteSet(Active) /\ Cardinality(Active) \in Nat
    BY <2>1, NodeSets
  <2>3. Active' \in SUBSET Nodes
    BY DEF Active
  <2>4. Cardinality(Active') <= Cardinality(Active) /\ Cardinality(Active') \in Nat
    BY <2>2, <2>3, NodeSets, FS_Subset
  <2>5. Limit \in Nat /\ Cardinality(Active) <= Limit
    BY GraphAssumption DEF ExclusiveClaims
  <2> QED
    BY <2>2, <2>4, <2>5
<1>2. \A m, n \in Active' : m # n =>
        \A c \in held'[m], d \in held'[n] : ~claimsConflict(c, d)
  BY DEF ExclusiveClaims
<1> QED
  BY <1>1, <1>2 DEF ExclusiveClaims

\* Every step keeps the running nodes apart and few enough.
LEMMA ExclusivePreserved ==
  ASSUME TypeOK, ClaimsCounted, ExclusiveClaims, [Next]_vars
  PROVE  ExclusiveClaims'
<1>1. CASE UNCHANGED <<status, held>>
  BY <1>1, NoneStarted DEF Active
<1>2. ASSUME NEW n \in Nodes, Skip(n) PROVE ExclusiveClaims'
  BY <1>2, NoneStarted DEF Skip, Active, TypeOK
<1>3. ASSUME NEW n \in Nodes, Settle(n) PROVE ExclusiveClaims'
  <2>1. Active' \subseteq Active /\ n \notin Active'
    BY <1>3 DEF Settle, Active, TypeOK, Terminal
  <2>2. \A m \in Active' : held'[m] = held[m]
    BY <1>3, <2>1 DEF Settle, Active, TypeOK
  <2> QED
    BY <2>1, <2>2, NoneStarted
<1>4. ASSUME NEW n \in Nodes, Dispatch(n) PROVE ExclusiveClaims'
  <2>1. PICK C \in SUBSET Claims :
          canClaim(C) /\ held' = [held EXCEPT ![n] = C]
    BY <1>4 DEF Dispatch
  <2>2. n \notin Active /\ Active \in SUBSET Nodes
    BY <1>4 DEF Dispatch, Considered, Active
  <2>3. Active' = Active \cup {n}
    BY <1>4 DEF Dispatch, Active, TypeOK
  <2>4. Cardinality(Active') <= Limit
    <3>1. Cardinality(Active \cup {n}) = Cardinality(Active) + 1
      BY <2>2, NodeSets
    <3>2. Cardinality(Active) \in Nat /\ Cardinality(Active) < Limit /\ Limit \in Nat
      BY <1>4, <2>2, NodeSets, GraphAssumption DEF Dispatch, Considered
    <3> QED
      BY <2>3, <3>1, <3>2
  <2>5. ASSUME NEW m \in Active, NEW d \in held[m], NEW c \in C
        PROVE  ~claimsConflict(c, d) /\ ~claimsConflict(d, c)
    <3>1. d \in Claims /\ c \in Claims
      BY <2>2 DEF TypeOK
    <3>2. m \in Holders(d) /\ Holders(d) \in SUBSET Nodes
      BY <2>2 DEF Holders
    <3>3. Cardinality(Holders(d)) \in Nat /\ Cardinality(Holders(d)) # 0
      BY <3>2, NodeSets
    <3>4. claimsInUse[d] > 0
      BY <3>1, <3>3 DEF ClaimsCounted
    <3> QED
      BY <2>1, <3>1, <3>4, ConflictIsSymmetric DEF canClaim
  <2>6. held'[n] = C /\ \A m \in Active : held'[m] = held[m]
    BY <2>1, <2>2 DEF TypeOK
  <2>7. ASSUME NEW k \in Active', NEW m \in Active', k # m,
               NEW c \in held'[k], NEW d \in held'[m]
        PROVE  ~claimsConflict(c, d)
    <3>1. CASE k = n
      BY <2>3, <2>5, <2>6, <2>7, <3>1
    <3>2. CASE m = n
      BY <2>3, <2>5, <2>6, <2>7, <3>2
    <3>3. CASE k # n /\ m # n
      BY <2>3, <2>6, <2>7, <3>3 DEF ExclusiveClaims
    <3> QED
      BY <3>1, <3>2, <3>3
  <2> QED
    BY <2>4, <2>7 DEF ExclusiveClaims
<1> QED
  BY <1>1, <1>2, <1>3, <1>4
  DEF Next, SchedulerStep, LoopHead, EndSweep, Pass, Suspend, vars
-----------------------------------------------------------------------------
\* With nobody running no claim is in use, and there is room for a node.
LEMMA NothingInUse ==
  ASSUME TypeOK, ClaimsCounted, Active = {}
  PROVE  /\ \A C \in SUBSET Claims : canClaim(C)
         /\ Cardinality(Active) < Limit
<1>1. ASSUME NEW d \in Claims PROVE claimsInUse[d] = 0
  <2>1. Holders(d) = {}
    BY DEF ClaimsCounted, Holders, Active
  <2> QED
    BY <2>1, FS_EmptySet DEF ClaimsCounted
<1>2. Cardinality(Active) = 0 /\ Limit \in Nat \ {0}
  BY FS_EmptySet, GraphAssumption
<1> QED
  BY <1>1, <1>2 DEF canClaim

\* Every step keeps what a fruitless sweep has found.
LEMMA SweepPreserved ==
  ASSUME TypeOK, ClaimsCounted, SweepIsFruitless, [Next]_vars
  PROVE  SweepIsFruitless'
<1> USE DEF SweepIsFruitless
<1>1. CASE LoopHead
  BY <1>1 DEF LoopHead, Nodes
<1>2. CASE EndSweep
  BY <1>2 DEF EndSweep, AfterSweep
<1>3. ASSUME NEW n \in Nodes, Pass(n) PROVE SweepIsFruitless'
  <2> SUFFICES ASSUME phase' = "sweep", ~progressed'
               PROVE  /\ \E k \in Nodes : status'[k] \notin Terminal
                      /\ Active' = {} => \A k \in Nodes :
                           k < at' /\ status'[k] = "pending" => ~Ready(k)'
    OBVIOUS
  <2>1. /\ phase = "sweep" /\ ~progressed /\ at = n /\ at' = n + 1
        /\ UNCHANGED <<status, deps>>
    BY <1>3 DEF Pass, Visiting, graph
  <2>2. \E k \in Nodes : status'[k] \notin Terminal
    BY <2>1
  <2>3. ASSUME Active = {}, status[n] = "pending" PROVE ~Ready(n)
    BY <1>3, <2>3, NothingInUse DEF Pass, Considered
  <2>4. ASSUME NEW k \in Nodes, k < at', k # n PROVE k < at
    BY <2>1, <2>4 DEF Nodes
  <2>5. Active' = Active /\ \A k \in Nodes : Ready(k)' = Ready(k)
    BY <2>1 DEF Active, Ready
  <2> QED
    BY <2>1, <2>2, <2>3, <2>4, <2>5
<1>4. ASSUME NEW n \in Nodes, Skip(n) \/ Dispatch(n) PROVE SweepIsFruitless'
  BY <1>4 DEF Skip, Dispatch
<1>5. ASSUME NEW n \in Nodes, Settle(n) \/ Suspend(n) PROVE SweepIsFruitless'
  BY <1>5 DEF Settle, Suspend
<1>6. CASE UNCHANGED vars
  BY <1>6 DEF vars, graph, Active, Ready
<1> QED
  BY <1>1, <1>2, <1>3, <1>4, <1>5, <1>6 DEF Next, SchedulerStep

\* A fruitless sweep of all nodes leaves pending nodes, each of which waits
\* for another one: they are the cycle.
LEMMA FruitlessSweepMeansCycle ==
  ASSUME TypeOK, SweepIsFruitless, phase = "sweep", at = N + 1,
         Active = {}, ~progressed
  PROVE  Cyclic
<1> DEFINE S == {n \in Nodes : status[n] = "pending"}
<1>1. \A n \in Nodes : status[n] \in Terminal \/ n \in S
  BY DEF TypeOK, Active
<1>2. S # {}
  BY <1>1 DEF SweepIsFruitless
<1>3. ASSUME NEW n \in S PROVE deps[n] \cap S # {}
  <2>1. n < at
    BY NodesAreFinite DEF Nodes
  <2>2. PICK d \in deps[n] : status[d] \notin Terminal
    BY <2>1 DEF SweepIsFruitless, Ready
  <2> QED
    BY <1>1, <2>2 DEF TypeOK
<1> QED
  BY <1>2, <1>3 DEF Cyclic

\* Every step keeps the reason of a deadlock.
LEMMA DeadlockPreserved ==
  ASSUME TypeOK, SweepIsFruitless, DeadlockOnlyOnCycle, [Next]_vars
  PROVE  DeadlockOnlyOnCycle'
<1>1. Cyclic => Cyclic'
  BY GraphFixed DEF Cyclic, graph
<1>2. CASE EndSweep
  BY <1>1, <1>2, FruitlessSweepMeansCycle
  DEF EndSweep, AfterSweep, DeadlockOnlyOnCycle
<1>3. CASE UNCHANGED vars
  BY <1>1, <1>3 DEF vars, DeadlockOnlyOnCycle
<1>4. CASE LoopHead \/ \E n \in Nodes : Pass(n) \/ Skip(n) \/ Dispatch(n)
  BY <1>4 DEF LoopHead, Pass, Skip, Dispatch, Visiting, DeadlockOnlyOnCycle
<1>5. CASE \E n \in Nodes : Settle(n) \/ Suspend(n)
  BY <1>5 DEF Settle, Suspend, DeadlockOnlyOnCycle
<1> QED
  BY <1>2, <1>3, <1>4, <1>5 DEF Next, SchedulerStep
-----------------------------------------------------------------------------
\* Merging what a node answers keeps the outputs of the others' channels,
\* unless it puts an initial value back; its own channel holds its output.
LEMMA MergeKeeps ==
  ASSUME TypeOK, ContextKept, NEW n \in Active, NEW d \in Nodes,
         d \notin restored, d # n => Kept(context, d)
  PROVE  Kept(Merged(n), d)
<1> USE DEF TypeOK, Kept
<1>1. n \in Nodes
  BY DEF Active
<1>2. CASE d = n
  BY <1>1, <1>2 DEF Merged, Answer
<1>3. CASE d # n /\ merge[n] = "namespace"
  BY <1>1, <1>3 DEF Merged
<1>4. CASE d # n /\ merge[n] # "namespace"
  <2>1. Merged(n)[d] = IF given[n][d] = "absent" THEN context[d] ELSE given[n][d]
    BY <1>1, <1>4 DEF Merged, Answer
  <2>2. CASE d \in deps[n]
    <3>1. Kept(given[n], d)
      BY <2>2 DEF ContextKept
    <3> QED
      BY <2>1, <3>1
  <2>3. CASE d \notin deps[n]
    <3>1. given[n][d] = "initial" => PutsBack(n, d)
      BY <1>1, <1>4, <2>3 DEF ContextKept, PutsBack
    <3> QED
      BY <1>1, <1>4, <2>1, <3>1
  <2> QED
    BY <2>2, <2>3
<1> QED
  BY <1>2, <1>3, <1>4

\* Merging brings an initial value only where the run put one.
LEMMA MergeOrigin ==
  ASSUME TypeOK, ContextKept, NEW n \in Active, NEW d \in Nodes,
         Merged(n)[d] = "initial"
  PROVE  d \in Initial
BY DEF TypeOK, ContextKept, Active, Merged, Answer

\* A step that changes no context and starts or completes no node.
LEMMA ContextUntouched ==
  ASSUME TypeOK, ContextKept, UNCHANGED <<graph, context, given>>,
         Active' \subseteq Active,
         \A d \in Nodes : status'[d] = "success" => status[d] = "success"
  PROVE  ContextKept'
<1>1. \A ctx, d : Kept(ctx, d)' = Kept(ctx, d)
  BY DEF Kept, PutsBack, graph
<1> QED
  BY <1>1 DEF ContextKept, graph, Kept, PutsBack

\* Every step keeps the outputs of the context.
LEMMA ContextPreserved ==
  ASSUME TypeOK, ContextKept, RestoredStay, [Next]_vars
  PROVE  ContextKept'
<1>1. CASE LoopHead \/ EndSweep \/ UNCHANGED vars
  BY <1>1, ContextUntouched DEF LoopHead, EndSweep, vars, Active
<1>2. ASSUME NEW n \in Nodes, Pass(n) \/ Suspend(n) PROVE ContextKept'
  BY <1>2, ContextUntouched DEF Pass, Suspend, Active
<1>3. ASSUME NEW n \in Nodes, Skip(n) PROVE ContextKept'
  BY <1>3, ContextUntouched DEF Skip, Active, TypeOK
<1>4. ASSUME NEW n \in Nodes, Dispatch(n) PROVE ContextKept'
  <2>1. /\ UNCHANGED <<graph, context>>
        /\ given' = [given EXCEPT ![n] = context]
        /\ status' = [status EXCEPT ![n] = "running"]
        /\ \A d \in deps[n] : status[d] = "success"
    BY <1>4 DEF Dispatch, Ready, Blocked, Terminal
  <2>2. \A ctx, d : Kept(ctx, d) => Kept(ctx, d)'
    BY <2>1 DEF Kept, PutsBack, graph
  <2>3. ASSUME NEW d \in Nodes
        PROVE  /\ context'[d] = "initial" => d \in Initial
               /\ \A m \in Nodes : given'[m][d] = "initial" => d \in Initial
    BY <2>1 DEF ContextKept, TypeOK
  <2>4. ASSUME NEW d \in Nodes, d \notin restored', status'[d] = "success"
        PROVE  Kept(context, d)'
    BY <2>1, <2>2, <2>4 DEF ContextKept, TypeOK, graph, Kept, PutsBack
  <2>5. ASSUME NEW m \in Active', NEW d \in deps'[m] \ restored'
        PROVE  Kept(given[m], d)'
    <3>1. m \in Nodes /\ d \in deps[m] /\ d \in Nodes /\ d \notin restored
      BY <2>1 DEF Active, TypeOK, graph
    <3>2. CASE m = n
      <4>1. Kept(context, d)
        BY <2>1, <3>1, <3>2 DEF ContextKept
      <4>2. given'[m] = context
        BY <2>1, <3>1, <3>2 DEF TypeOK
      <4> QED
        BY <2>1, <4>1, <4>2 DEF Kept, PutsBack, graph
    <3>3. CASE m # n
      <4>1. m \in Active
        BY <2>1, <3>1, <3>3 DEF Active, TypeOK
      <4>2. Kept(given[m], d)
        BY <3>1, <4>1 DEF ContextKept
      <4>3. given'[m] = given[m]
        BY <2>1, <3>1, <3>3 DEF TypeOK
      <4> QED
        BY <2>1, <4>2, <4>3 DEF Kept, PutsBack, graph
    <3> QED
      BY <3>2, <3>3
  <2> QED
    BY <2>3, <2>4, <2>5 DEF ContextKept
<1>5. ASSUME NEW n \in Nodes, Settle(n) PROVE ContextKept'
  <2>1. n \in Active /\ n \notin restored
    BY <1>5 DEF Settle, Active, RestoredStay
  <2>2. PICK s \in Terminal :
          /\ status' = [status EXCEPT ![n] = s]
          /\ context' = Merged(n) \/ (s # "success" /\ context' = context)
    BY <1>5 DEF Settle
  <2>3. UNCHANGED graph /\ given' = [given EXCEPT ![n] = NoContext]
    BY <1>5 DEF Settle
  <2>4. ASSUME NEW d \in Nodes
        PROVE  /\ context'[d] = "initial" => d \in Initial
               /\ \A m \in Nodes : given'[m][d] = "initial" => d \in Initial
    <3>1. context'[d] = "initial" => d \in Initial
      BY <2>1, <2>2, MergeOrigin DEF ContextKept
    <3>2. \A m \in Nodes : given'[m][d] = "initial" => d \in Initial
      BY <2>3 DEF ContextKept, TypeOK, NoContext
    <3> QED
      BY <3>1, <3>2
  <2>5. ASSUME NEW d \in Nodes, d \notin restored', status'[d] = "success"
        PROVE  Kept(context, d)'
    <3>1. d \notin restored /\ (d # n => Kept(context, d))
      BY <2>2, <2>3, <2>5 DEF ContextKept, TypeOK, graph
    <3>2. CASE context' = Merged(n)
      <4>1. Kept(Merged(n), d)
        BY <2>1, <3>1, MergeKeeps
      <4> QED
        BY <2>3, <3>2, <4>1 DEF Kept, PutsBack, graph
    <3>3. CASE s # "success" /\ context' = context
      <4>1. d # n
        BY <2>1, <2>2, <2>5, <3>3 DEF TypeOK
      <4> QED
        BY <2>3, <3>1, <3>3, <4>1 DEF Kept, PutsBack, graph
    <3> QED
      BY <2>2, <3>2, <3>3
  <2>6. ASSUME NEW m \in Active', NEW d \in deps'[m] \ restored'
        PROVE  Kept(given[m], d)'
    <3>1. m \in Active /\ m # n
      BY <2>1, <2>2 DEF Active, TypeOK, Terminal
    <3>2. d \in deps[m] \ restored /\ given'[m] = given[m]
      BY <2>3, <3>1 DEF graph, TypeOK, Active
    <3>3. Kept(given[m], d)
      BY <3>1, <3>2 DEF ContextKept
    <3> QED
      BY <2>3, <3>2, <3>3 DEF Kept, PutsBack, graph
  <2> QED
    BY <2>4, <2>5, <2>6 DEF ContextKept
<1> QED
  BY <1>1, <1>2, <1>3, <1>4, <1>5 DEF Next, SchedulerStep
-----------------------------------------------------------------------------
\* The inductive invariant of the scheduler.
SchedulerInv ==
  /\ TypeOK /\ ClaimsCounted /\ RestoredStay
  /\ ExclusiveClaims /\ RunsAfterSuccess
  /\ SweepIsFruitless /\ DeadlockOnlyOnCycle /\ ContextKept

LEMMA SchedulerInvInit == Begun => SchedulerInv
<1> SUFFICES ASSUME Begun PROVE SchedulerInv
  OBVIOUS
<1>1. TypeOK
  BY TypeInit
<1>2. Active = {} /\ RestoredStay /\ RunsAfterSuccess
  BY DEF Begun, Statuses, Active, RestoredStay, RunsAfterSuccess
<1>3. ClaimsCounted
  <2>1. \A c \in Claims : Holders(c) = {} /\ claimsInUse[c] = 0
    BY DEF Begun, Holders
  <2>2. \A n \in Nodes : held[n] = {}
    BY DEF Begun
  <2> QED
    BY <2>1, <2>2, FS_EmptySet DEF ClaimsCounted
<1>4. ExclusiveClaims
  BY <1>2, FS_EmptySet, GraphAssumption DEF ExclusiveClaims
<1>5. SweepIsFruitless /\ DeadlockOnlyOnCycle
  BY DEF Begun, SweepIsFruitless, DeadlockOnlyOnCycle
<1>6. ContextKept
  <2>1. PICK blocked \in SUBSET (Nodes \ restored) : status = Statuses(restored, blocked)
    BY DEF Begun
  <2>2. PICK rehydrated \in SUBSET restored : context = ContextWith(rehydrated)
    BY DEF Begun
  <2>3. /\ \A d \in Nodes : context[d] = "initial" => d \in Initial
        /\ \A n, d \in Nodes : given[n][d] # "initial"
    BY <2>2 DEF Begun, ContextWith, InitialContext, NoContext
  <2>4. \A d \in Nodes : d \notin restored => status[d] # "success"
    BY <2>1 DEF Statuses
  <2> QED
    BY <1>2, <2>3, <2>4 DEF ContextKept
<1> QED
  BY <1>1, <1>2, <1>3, <1>4, <1>5, <1>6 DEF SchedulerInv

\* Every step of the scheduler keeps it.
LEMMA SchedulerInvPreserved == SchedulerInv /\ [Next]_vars => SchedulerInv'
BY TypePreserved, ClaimsPreserved, RunsAfterSuccessPreserved, ExclusivePreserved,
   SweepPreserved, DeadlockPreserved, ContextPreserved
DEF SchedulerInv

LEMMA SchedulerInvIsSafe ==
  SchedulerInv => /\ ExclusiveClaims /\ RunsAfterSuccess /\ DeadlockOnlyOnCycle
                  /\ UpstreamOutputVisible
<1>1. SchedulerInv => UpstreamOutputVisible
  BY DEF SchedulerInv, ContextKept, Kept, UpstreamOutputVisible, PutsBack, Active
<1> QED
  BY <1>1 DEF SchedulerInv

\* The inductive invariant holds in every reachable state.
THEOREM SchedulerInvariant == Spec => []SchedulerInv
BY InitIsBegun, SchedulerInvInit, SchedulerInvPreserved, PTL DEF Spec

\* canClaim and the `active.size >= limit' guard: nodes that run together hold
\* no conflicting claims and are at most Limit, for any claims and any limit.
THEOREM ConflictsNeverRunTogether == Spec => []ExclusiveClaims
BY SchedulerInvariant, SchedulerInvIsSafe, PTL

\* The `terminal' and `blocked' tests of the sweep: what runs or has run rests
\* on successful dependencies only.
THEOREM NothingRunsOnFailure == Spec => []RunsAfterSuccess
BY SchedulerInvariant, SchedulerInvIsSafe, PTL

\* "Graph scheduler deadlock" is thrown for a graph with a cycle only.
THEOREM OnlyCyclesDeadlock == Spec => []DeadlockOnlyOnCycle
BY SchedulerInvariant, SchedulerInvIsSafe, PTL

\* defaultMerge: a running node was given the outputs of its dependencies.
THEOREM OutputsReachDependents == Spec => []UpstreamOutputVisible
BY SchedulerInvariant, SchedulerInvIsSafe, PTL
-----------------------------------------------------------------------------
(***************************************************************************)
(* The graph itself: deriveExecutionGraph, whose edges give the scheduler  *)
(* its dependencies, refuses cyclic graphs only, and every cyclic one that *)
(* has at most one edge between two steps.                                 *)
(***************************************************************************)
\* The edges from one step to another, and what a step still waits for.
Between(n, i) == {e \in edges : e.from = n /\ e.to = i}
Missing(i) == Dependencies(edges, i) \ visited
\* Steps each of which depends on another of them.
Knot(S) == \A i \in S : Dependencies(edges, i) \cap S # {}

DeriveTypes ==
  /\ steps \in [Nodes -> Shapes] /\ edges = Derived(steps)
  /\ DeriveTypeOK
QueueIsReady ==
  /\ queue \cap visited = {}
  /\ \A i \in Nodes : remaining[i] <= 0 <=> i \in queue \cup visited
\* A parallel edge is counted once and taken off as often as it occurs.
CountsAreMissing == \A i \in Nodes :
  /\ remaining[i] <= Cardinality(Missing(i))
  /\ ~ParallelEdges(edges) => remaining[i] = Cardinality(Missing(i))
KnotsStay ==
  ~ParallelEdges(edges) => \A S \in SUBSET Nodes : Knot(S) => S \cap visited = {}
Verdict ==
  /\ "cycle" \in errors <=> done /\ visited # Nodes
  /\ done => queue = {}
DeriveInv == DeriveTypes /\ QueueIsReady /\ CountsAreMissing /\ KnotsStay /\ Verdict

\* Every derived edge joins two steps and names no channel, or one its first
\* step produces.
LEMMA EdgesAreSound ==
  ASSUME NEW s \in [Nodes -> Shapes], NEW e \in Derived(s)
  PROVE  /\ e.from \in Nodes /\ e.to \in Nodes
         /\ e.kind \in {"control", "data", "when"}
         /\ e.channel \in {None, s[e.from].produces}
         /\ e = Edge(e.from, e.to, e.kind, e.channel)
<1> USE DEF Edge
<1>1. N \in Nat /\ \A i \in Nodes : i - 1 \in 0..N /\ (i # 1 => i - 1 \in Nodes)
  BY NodesAreFinite DEF Nodes
<1>2. ASSUME NEW i \in Nodes PROVE Deps(s, i) \in SUBSET (0..N)
  BY <1>2, ShapesAssumption DEF Deps
<1>3. CASE e \in ControlEdges(s)
  <2>1. PICK i \in Nodes : \E d \in Deps(s, i) \ {0} :
          e = Edge(d, i, "control", None)
    BY <1>3 DEF ControlEdges
  <2>2. PICK d \in Deps(s, i) \ {0} : e = Edge(d, i, "control", None)
    BY <2>1
  <2>3. d \in Nodes
    BY <1>1, <1>2 DEF Nodes
  <2> QED
    BY <2>2, <2>3
<1>4. CASE e \in DataEdges(s)
  <2>1. PICK i \in Nodes : \E c \in Consumes(s, i) : \E p \in producers(s, c) :
          e = Edge(p, i, "data", c)
    BY <1>4 DEF DataEdges
  <2> QED
    BY <2>1 DEF producers
<1>5. CASE e \in WhenEdges(s)
  <2>1. CASE \E i \in Nodes : WhenSource(s, i)
                /\ e = Edge(WhenOn(s, i), i, "when", None)
    <3>1. PICK i \in Nodes : WhenSource(s, i)
                /\ e = Edge(WhenOn(s, i), i, "when", None)
      BY <2>1
    <3>2. WhenOn(s, i) \in 0..N
      <4>1. CASE Deps(s, i) # {}
        <5>1. s[i].deps \notin {Undeclared, {}} /\ Deps(s, i) = s[i].deps
          BY <4>1 DEF Deps
        <5>2. s[i].first \in Deps(s, i)
          BY <5>1, ShapesAssumption
        <5> QED
          BY <4>1, <5>2, <1>2 DEF WhenOn
      <4> QED
        BY <4>1, <1>1 DEF WhenOn
    <3>3. WhenOn(s, i) \in Nodes
      BY <3>1, <3>2, <1>1 DEF WhenSource, Nodes
    <3> QED
      BY <3>1, <3>3
  <2>2. CASE \E i \in Nodes : \E p \in producers(s, s[i].when) :
                e = Edge(p, i, "when", s[i].when)
    BY <2>2 DEF producers
  <2> QED
    BY <1>5, <2>1, <2>2 DEF WhenEdges
<1>6. CASE \E i \in Nodes \ {1} : e = Edge(i - 1, i, "control", None)
  BY <1>1, <1>6
<1>7. \/ e \in ControlEdges(s) \/ e \in DataEdges(s) \/ e \in WhenEdges(s)
      \/ \E i \in Nodes \ {1} : e = Edge(i - 1, i, "control", None)
  BY DEF Derived, ImplicitEdges
<1> QED
  BY <1>3, <1>4, <1>5, <1>6, <1>7

\* Six elements are finitely many.
LEMMA SixAreFinite ==
  ASSUME NEW a, NEW b, NEW c, NEW d, NEW e, NEW f
  PROVE  IsFiniteSet({a, b, c, d, e, f})
<1> DEFINE three == {a} \cup {b} \cup {c}
<1>1. IsFiniteSet(three)
  BY FS_Singleton, FS_AddElement
<1> HIDE DEF three
<1>2. IsFiniteSet(three \cup {d} \cup {e})
  BY <1>1, FS_AddElement
<1>3. IsFiniteSet(three \cup {d} \cup {e} \cup {f})
  BY <1>2, FS_AddElement
<1>4. three \cup {d} \cup {e} \cup {f} = {a, b, c, d, e, f}
  BY DEF three
<1> QED
  BY <1>3, <1>4

\* Between two steps there are finitely many edges, one if none are parallel.
LEMMA EdgesBetween ==
  ASSUME DeriveTypes, NEW n \in Nodes, NEW i \in Nodes
  PROVE  /\ Taken(n, i) \in Nat
         /\ n \in Dependencies(edges, i) <=> Taken(n, i) # 0
         /\ ~ParallelEdges(edges) => Taken(n, i) \in {0, 1}
<1> DEFINE
  channels == {None, steps[n].produces}
  possible == {Edge(n, i, k, c) : k \in {"control", "data", "when"}, c \in channels}
<1>1. Between(n, i) \subseteq possible
  <2>1. ASSUME NEW e \in Between(n, i) PROVE e \in possible
    <3>1. e \in Derived(steps) /\ e.from = n /\ e.to = i
      BY <2>1 DEF Between, DeriveTypes
    <3>2. /\ e.kind \in {"control", "data", "when"} /\ e.channel \in channels
          /\ e = Edge(n, i, e.kind, e.channel)
      BY <3>1, EdgesAreSound DEF DeriveTypes
    <3> QED
      BY <3>2
  <2> QED
    BY <2>1
<1>2. IsFiniteSet(possible)
  <2> DEFINE six == {Edge(n, i, "control", None), Edge(n, i, "data", None),
                     Edge(n, i, "when", None),
                     Edge(n, i, "control", steps[n].produces),
                     Edge(n, i, "data", steps[n].produces),
                     Edge(n, i, "when", steps[n].produces)}
  <2>1. possible = six
    OBVIOUS
  <2>2. IsFiniteSet(six)
    BY SixAreFinite, Zenon
  <2> QED
    BY <2>1, <2>2
<1> HIDE DEF possible
<1>3. IsFiniteSet(Between(n, i))
  BY <1>1, <1>2, FS_Subset
<1>4. Taken(n, i) = Cardinality(Between(n, i))
  BY DEF Taken, Between
<1>5. n \in Dependencies(edges, i) <=> Between(n, i) # {}
  BY DEF Dependencies, Between
<1>6. ASSUME ~ParallelEdges(edges), Between(n, i) # {}
      PROVE  Cardinality(Between(n, i)) = 1
  <2>1. PICK e : Between(n, i) = {e}
    BY <1>6 DEF ParallelEdges, Between
  <2> QED
    BY <2>1, FS_Singleton
<1> QED
  BY <1>3, <1>4, <1>5, <1>6, FS_CardinalityType, FS_EmptySet

\* A step depends on steps.
LEMMA DependenciesAreSteps ==
  ASSUME NEW s \in [Nodes -> Shapes], NEW i \in Nodes
  PROVE  Dependencies(Derived(s), i) \in SUBSET Nodes
BY EdgesAreSound DEF Dependencies

\* Initially the count of a step is the number of steps it depends on.
LEMMA DeriveInvInit ==
  ASSUME DeriveInit
  PROVE  DeriveInv
<1>1. edges = Derived(steps) /\ steps \in [Nodes -> Shapes] /\ visited = {} /\ done = FALSE
  BY DEF DeriveInit
<1>2. \A i \in Nodes :
        /\ Missing(i) \in SUBSET Nodes
        /\ remaining[i] = Cardinality(Missing(i))
  <2> TAKE i \in Nodes
  <2>1. Missing(i) = Dependencies(edges, i)
    BY <1>1 DEF Missing
  <2>2. remaining[i] = Cardinality(Dependencies(edges, i))
    BY DEF DeriveInit, InitialCount
  <2> QED
    BY <1>1, <2>1, <2>2, DependenciesAreSteps
<1>3. \A i \in Nodes : remaining[i] \in Nat
  BY <1>2, NodeSets
<1>4. remaining \in [Nodes -> Int]
  BY <1>3 DEF DeriveInit
<1>5. errors \subseteq {"missing-dependency", "missing-channel"}
  BY DEF DeriveInit, DeclarationErrors
<1>6. queue \subseteq Nodes /\ \A i \in Nodes : i \in queue <=> remaining[i] = 0
  BY DEF DeriveInit
<1>7. edges \subseteq [from : Nodes, to : Nodes, kind : {"control", "data", "when"},
                      channel : Channels \cup {None}]
  <2>1. ASSUME NEW e \in edges
        PROVE  e \in [from : Nodes, to : Nodes, kind : {"control", "data", "when"},
                      channel : Channels \cup {None}]
    <3>1. /\ e.from \in Nodes /\ e.to \in Nodes
          /\ e.kind \in {"control", "data", "when"}
          /\ e.channel \in {None, steps[e.from].produces}
          /\ e = Edge(e.from, e.to, e.kind, e.channel)
      BY <1>1, EdgesAreSound
    <3>2. e.channel \in Channels \cup {None}
      BY <1>1, <3>1, ShapesAssumption
    <3> QED
      BY <3>1, <3>2 DEF Edge
  <2> QED
    BY <2>1
<1>8. DeriveTypes
  BY <1>1, <1>4, <1>5, <1>6, <1>7 DEF DeriveTypes, DeriveTypeOK
<1>9. QueueIsReady
  BY <1>1, <1>3, <1>6 DEF QueueIsReady
<1>10. CountsAreMissing
  BY <1>2, <1>3 DEF CountsAreMissing
<1>11. KnotsStay /\ Verdict
  BY <1>1, <1>5 DEF KnotsStay, Verdict
<1> QED
  BY <1>8, <1>9, <1>10, <1>11 DEF DeriveInv

\* A visit takes the edges of a ready step off the counts.
LEMMA VisitKeeps ==
  ASSUME DeriveInv, NEW n \in Nodes, Visit(n)
  PROVE  DeriveInv'
<1>1. /\ n \in queue /\ visited' = visited \cup {n}
      /\ edges' = edges /\ steps' = steps /\ errors' = errors /\ done' = done
  BY DEF Visit
<1>2. \A i \in Nodes : Taken(n, i) \in Nat /\ remaining[i] \in Int
  BY EdgesBetween DEF DeriveInv, DeriveTypes, DeriveTypeOK
<1>3. \A i \in Nodes : remaining'[i] = remaining[i] - Taken(n, i)
  BY DEF Visit
<1>4. remaining' \in [Nodes -> Int]
  BY <1>2 DEF Visit
<1>5. queue' = (queue \ {n}) \cup
               {i \in Nodes : remaining[i] > 0 /\ remaining[i] - Taken(n, i) <= 0}
  BY DEF Visit, Reached
<1>6. ~done /\ n \notin visited /\ remaining[n] <= 0
  BY <1>1 DEF DeriveInv, QueueIsReady, Verdict
<1>7. DeriveTypes'
  BY <1>1, <1>4, <1>5 DEF DeriveInv, DeriveTypes, DeriveTypeOK
<1>8. QueueIsReady'
  <2>1. \A i \in Nodes : remaining[i] <= 0 <=> i \in queue \cup visited
    BY DEF DeriveInv, QueueIsReady
  <2>2. \A i \in Nodes : remaining'[i] <= 0 <=> i \in queue' \cup visited'
    <3> TAKE i \in Nodes
    <3>1. CASE remaining[i] <= 0
      <4>1. remaining'[i] <= 0
        BY <1>2, <1>3, <3>1
      <4>2. i \in queue' \cup visited'
        BY <2>1, <3>1, <1>1, <1>5
      <4> QED
        BY <4>1, <4>2
    <3>2. CASE remaining[i] > 0
      <4>1. i \notin queue \cup visited /\ i # n
        BY <1>1, <1>2, <2>1, <3>2
      <4>2. i \in queue' \cup visited' <=> remaining[i] - Taken(n, i) <= 0
        BY <1>1, <1>5, <3>2, <4>1
      <4> QED
        BY <1>3, <4>2
    <3> QED
      BY <1>2, <3>1, <3>2
  <2>3. queue \cap visited = {}
    BY DEF DeriveInv, QueueIsReady
  <2>4. \A i \in Nodes : remaining[i] > 0 => i \notin visited /\ i # n
    BY <1>1, <1>2, <2>1
  <2>5. queue' \cap visited' = {}
    BY <1>1, <1>5, <2>3, <2>4
  <2> QED
    BY <2>2, <2>5 DEF QueueIsReady
<1>9. CountsAreMissing'
  <2> SUFFICES ASSUME NEW i \in Nodes
               PROVE  /\ remaining'[i] <= Cardinality(Missing(i)')
                      /\ ~ParallelEdges(edges) => remaining'[i] = Cardinality(Missing(i)')
    BY <1>1 DEF CountsAreMissing
  <2>1. Missing(i)' = Missing(i) \ {n}
    BY <1>1 DEF Missing
  <2>2. Missing(i) \in SUBSET Nodes
    BY DependenciesAreSteps DEF Missing, DeriveInv, DeriveTypes
  <2>3. /\ Cardinality(Missing(i)) \in Nat
        /\ Cardinality(Missing(i)') =
             IF n \in Missing(i) THEN Cardinality(Missing(i)) - 1 ELSE Cardinality(Missing(i))
    BY <2>1, <2>2, NodeSets
  <2>4. n \in Missing(i) <=> Taken(n, i) # 0
    BY <1>6, EdgesBetween DEF Missing, DeriveInv
  <2>5. ~ParallelEdges(edges) => Taken(n, i) \in {0, 1}
    BY EdgesBetween DEF DeriveInv
  <2>6. /\ remaining[i] <= Cardinality(Missing(i))
        /\ ~ParallelEdges(edges) => remaining[i] = Cardinality(Missing(i))
    BY DEF DeriveInv, CountsAreMissing
  <2> QED
    BY <1>2, <1>3, <2>3, <2>4, <2>5, <2>6
<1>10. KnotsStay'
  <2> SUFFICES ASSUME ~ParallelEdges(edges), NEW S \in SUBSET Nodes, Knot(S), n \in S
               PROVE  FALSE
    BY <1>1 DEF KnotsStay, Knot, DeriveInv
  <2>1. S \cap visited = {}
    BY DEF DeriveInv, KnotsStay
  <2>2. PICK d \in S : d \in Dependencies(edges, n)
    BY DEF Knot
  <2>3. d \in Missing(n)
    BY <2>1, <2>2 DEF Missing
  <2>4. Missing(n) \in SUBSET Nodes
    BY DependenciesAreSteps DEF Missing, DeriveInv, DeriveTypes
  <2>5. remaining[n] = Cardinality(Missing(n)) /\ Cardinality(Missing(n)) \in Nat
    BY <2>4, NodeSets DEF DeriveInv, CountsAreMissing
  <2> QED
    BY <1>6, <2>3, <2>4, <2>5, NodeSets
<1>11. Verdict'
  BY <1>1, <1>6 DEF DeriveInv, Verdict
<1> QED
  BY <1>7, <1>8, <1>9, <1>10, <1>11 DEF DeriveInv

\* Every step of the derivation keeps its invariant.
LEMMA DerivePreserved ==
  ASSUME DeriveInv, [DeriveNext]_deriveVars
  PROVE  DeriveInv'
<1>1. ASSUME NEW n \in Nodes, Visit(n) PROVE DeriveInv'
  BY <1>1, VisitKeeps
<1>2. CASE Finish
  <2> USE <1>2 DEF Finish, DeriveInv
  <2>1. DeriveTypes'
    BY DEF DeriveTypes, DeriveTypeOK
  <2>2. QueueIsReady' /\ CountsAreMissing' /\ KnotsStay'
    BY DEF QueueIsReady, CountsAreMissing, KnotsStay, Knot, Missing
  <2>3. Verdict'
    BY DEF Verdict
  <2> QED
    BY <2>1, <2>2, <2>3
<1>3. CASE UNCHANGED deriveVars
  BY <1>3 DEF deriveVars, DeriveInv, DeriveTypes, DeriveTypeOK, QueueIsReady,
       CountsAreMissing, KnotsStay, Knot, Missing, Verdict
<1> QED
  BY <1>1, <1>2, <1>3 DEF DeriveNext

\* The invariant decides the verdict: what is left when the queue is empty is a
\* knot, and no knot is ever entered.
LEMMA VerdictIsRight ==
  ASSUME DeriveInv
  PROVE  AcyclicAccepted /\ SimpleCyclesRejected
<1>1. ASSUME done, "cycle" \in errors PROVE HasCycle(edges)
  <2> DEFINE S == Nodes \ visited
  <2>1. visited # Nodes /\ queue = {} /\ visited \subseteq Nodes
    BY <1>1 DEF DeriveInv, DeriveTypes, DeriveTypeOK, Verdict
  <2>2. ASSUME NEW i \in S PROVE Dependencies(edges, i) \cap S # {}
    <3>1. Missing(i) \in SUBSET Nodes
      BY DependenciesAreSteps DEF Missing, DeriveInv, DeriveTypes
    <3>2. ~(remaining[i] <= 0) /\ remaining[i] \in Int
      BY <2>1 DEF DeriveInv, QueueIsReady, DeriveTypes, DeriveTypeOK
    <3>3. remaining[i] <= Cardinality(Missing(i))
      BY DEF DeriveInv, CountsAreMissing
    <3>4. Missing(i) # {}
      BY <3>1, <3>2, <3>3, NodeSets
    <3> QED
      BY <3>1, <3>4 DEF Missing
  <2>3. S \in SUBSET Nodes /\ S # {}
    BY <2>1
  <2> QED
    BY <2>2, <2>3 DEF HasCycle
<1>2. ASSUME done, HasCycle(edges), ~ParallelEdges(edges)
      PROVE  "cycle" \in errors
  <2>1. PICK S \in SUBSET Nodes : S # {} /\ Knot(S)
    BY <1>2 DEF HasCycle, Knot
  <2>2. S \cap visited = {}
    BY <1>2, <2>1 DEF DeriveInv, KnotsStay
  <2> QED
    BY <1>2, <2>1, <2>2 DEF DeriveInv, Verdict
<1> QED
  BY <1>1, <1>2 DEF AcyclicAccepted, SimpleCyclesRejected

\* The cycle check keeps its invariant.
LEMMA DeriveInvariant == DeriveSpec => []DeriveInv
<1>1. DeriveInit => DeriveInv
  BY DeriveInvInit
<1>2. DeriveInv /\ [DeriveNext]_deriveVars => DeriveInv'
  BY DerivePreserved
<1> QED
  BY <1>1, <1>2, PTL DEF DeriveSpec

\* A graph that can be executed is never refused as cyclic, whatever the steps
\* declare.
THEOREM AcyclicGraphsAreAccepted == DeriveSpec => []AcyclicAccepted
BY DeriveInvariant, VerdictIsRight, PTL

\* A cycle is refused before anything runs, unless parallel edges hide it.
THEOREM CyclesAreRefused == DeriveSpec => []SimpleCyclesRejected
BY DeriveInvariant, VerdictIsRight, PTL

\* What the pipeline engine does (adf-engine.ts:263): a graph that was derived
\* without an error is handed to the scheduler.  It never throws "Graph scheduler
\* deadlock", unless parallel edges hid a cycle.
Accepted == done /\ "cycle" \notin errors
Scheduled == deps = [i \in Nodes |-> Dependencies(edges, i)]
THEOREM AcceptedGraphsNeverWedge ==
  Spec /\ DeriveSpec =>
    [](Accepted /\ Scheduled /\ ~ParallelEdges(edges) => phase # "deadlock")
<1>1. DeadlockOnlyOnCycle /\ SimpleCyclesRejected =>
        (Accepted /\ Scheduled /\ ~ParallelEdges(edges) => phase # "deadlock")
  <2> SUFFICES ASSUME Cyclic, Scheduled PROVE HasCycle(edges)
    BY DEF DeadlockOnlyOnCycle, SimpleCyclesRejected, Accepted
  <2>1. \A i \in Nodes : deps[i] = Dependencies(edges, i)
    BY DEF Scheduled
  <2>2. PICK S \in SUBSET Nodes : S # {} /\ \A i \in S : deps[i] \cap S # {}
    BY DEF Cyclic
  <2>3. \A i \in S : Dependencies(edges, i) \cap S # {}
    BY <2>1, <2>2
  <2> QED
    BY <2>2, <2>3 DEF HasCycle
<1> QED
  BY <1>1, OnlyCyclesDeadlock, CyclesAreRefused, PTL
-----------------------------------------------------------------------------
(***************************************************************************)
(* The pipeline engine: derivation, preflight, scheduler.                  *)
(***************************************************************************)
\* Until executeGraph begins nothing is scheduled; once the preflight has
\* decided, the derivation's state is gone.
Idle ==
  /\ deps \in [Nodes -> SUBSET Nodes] /\ status = [n \in Nodes |-> "pending"]
  /\ held = [n \in Nodes |-> {}] /\ claimsInUse = [c \in Claims |-> 0]
  /\ given = [n \in Nodes |-> NoContext]
  /\ at = 1 /\ progressed = FALSE
Unscheduled == {"preflight", "begin", "refused"}
PipelineInv ==
  /\ IF phase \in Unscheduled THEN Idle ELSE SchedulerInv
  /\ IF phase = "preflight" THEN DeriveInv ELSE edges = {} /\ errors = {}

LEMMA NextIsScheduled ==
  ASSUME Next PROVE phase \notin Unscheduled
<1>1. ASSUME NEW n \in Nodes, Pass(n) \/ Skip(n) \/ Dispatch(n) PROVE phase = "sweep"
  BY <1>1 DEF Pass, Skip, Dispatch, Visiting
<1>2. ASSUME NEW n \in Nodes, Settle(n) \/ Suspend(n) PROVE phase = "await"
  BY <1>2 DEF Settle, Suspend
<1>3. CASE LoopHead \/ EndSweep
  BY <1>3 DEF LoopHead, EndSweep, Unscheduled
<1> QED
  BY <1>1, <1>2, <1>3 DEF Next, SchedulerStep, Unscheduled

LEMMA PipelineInvInit == PipelineInit => PipelineInv
<1> SUFFICES ASSUME PipelineInit PROVE PipelineInv
  OBVIOUS
<1>1. DeriveInv
  BY DeriveInvInit DEF PipelineInit
<1>2. Idle /\ phase = "preflight"
  BY DEF PipelineInit, Idle
<1> QED
  BY <1>1, <1>2 DEF PipelineInv, Unscheduled

LEMMA PipelineInvPreserved ==
  ASSUME PipelineInv, [PipelineNext]_pipelineVars, Begun' => SchedulerInv'
  PROVE  PipelineInv'
<1>1. CASE Derive
  <2>1. phase = "preflight" /\ Idle /\ DeriveInv
    BY <1>1 DEF Derive, PipelineInv, Unscheduled
  <2>2. DeriveInv'
    BY <1>1, <2>1, DerivePreserved DEF Derive
  <2>3. Idle' /\ phase' = "preflight"
    BY <1>1, <2>1 DEF Derive, Idle, vars, graph
  <2> QED
    BY <2>2, <2>3 DEF PipelineInv, Unscheduled
<1>2. CASE Refuse
  <2>1. Idle
    BY <1>2 DEF Refuse, PipelineInv, Unscheduled
  <2>2. Idle' /\ phase' = "refused" /\ edges' = {} /\ errors' = {}
    BY <1>2, <2>1 DEF Refuse, Dropped, Idle, graph
  <2> QED
    BY <2>2 DEF PipelineInv, Unscheduled
<1>3. CASE Accept
  <2>1. Idle /\ DeriveTypes
    BY <1>3 DEF Accept, PipelineInv, Unscheduled, DeriveInv
  <2>2. \A n \in Nodes : Dependencies(edges, n) \in SUBSET Nodes
    BY <2>1, DependenciesAreSteps DEF DeriveTypes
  <2>3. deps' \in [Nodes -> SUBSET Nodes]
    BY <1>3, <2>2 DEF Accept
  <2>4. Idle' /\ phase' = "begin" /\ edges' = {} /\ errors' = {}
    BY <1>3, <2>1, <2>3 DEF Accept, Dropped, Idle
  <2> QED
    BY <2>4 DEF PipelineInv, Unscheduled
<1>4. CASE Begin
  <2>1. Idle /\ edges = {} /\ errors = {}
    BY <1>4 DEF Begin, PipelineInv, Unscheduled
  <2>2. Begun' /\ edges' = {} /\ errors' = {} /\ phase' = "head"
    BY <1>4, <2>1 DEF Begin, Begun, Idle, deriveVars
  <2> QED
    BY <2>2 DEF PipelineInv, Unscheduled
<1>5. CASE Schedule
  <2>1. phase \notin Unscheduled
    BY <1>5, NextIsScheduled DEF Schedule
  <2>2. SchedulerInv /\ edges = {} /\ errors = {}
    BY <2>1 DEF PipelineInv, Unscheduled
  <2>3. SchedulerInv'
    BY <1>5, <2>2, SchedulerInvPreserved DEF Schedule
  <2>4. phase' \notin Unscheduled
    BY <2>3 DEF SchedulerInv, TypeOK, Unscheduled
  <2>5. edges' = {} /\ errors' = {}
    BY <1>5, <2>2 DEF Schedule, deriveVars
  <2> QED
    BY <2>3, <2>4, <2>5 DEF PipelineInv, Unscheduled
<1>6. CASE UNCHANGED pipelineVars
  <2>1. UNCHANGED vars /\ UNCHANGED deriveVars
    BY <1>6 DEF pipelineVars
  <2>2. phase' = phase /\ edges' = edges /\ errors' = errors
    BY <2>1 DEF vars, deriveVars
  <2>3. CASE phase \in Unscheduled
    <3>1. Idle'
      BY <2>1, <2>3 DEF PipelineInv, Idle, vars, graph
    <3>2. phase = "preflight" => DeriveInv'
      BY <2>1, DerivePreserved DEF PipelineInv
    <3> QED
      BY <2>2, <2>3, <3>1, <3>2 DEF PipelineInv
  <2>4. CASE phase \notin Unscheduled
    <3>1. SchedulerInv'
      BY <2>1, <2>4, SchedulerInvPreserved DEF PipelineInv
    <3> QED
      BY <2>2, <2>4, <3>1 DEF PipelineInv, Unscheduled
  <2> QED
    BY <2>3, <2>4
<1> QED
  BY <1>1, <1>2, <1>3, <1>4, <1>5, <1>6 DEF PipelineNext, Preflight

\* executeAdfStepsInternal: the preflight is right about every pipeline, and what
\* it lets through is scheduled with exclusive claims, dependencies that
\* succeeded, their outputs, and no deadlock but on a cycle that parallel edges
\* hid.
THEOREM PipelinesAreSafe ==
  PipelineSpec =>
    []( /\ AcyclicAccepted /\ SimpleCyclesRejected
        /\ ExclusiveClaims /\ RunsAfterSuccess /\ DeadlockOnlyOnCycle
        /\ UpstreamOutputVisible )
<1>1. Begun => SchedulerInv
  BY SchedulerInvInit
<1>2. PipelineInv /\ [PipelineNext]_pipelineVars /\ (Begun' => SchedulerInv') => PipelineInv'
  BY PipelineInvPreserved
<1>3. PipelineSpec => []PipelineInv
  BY <1>1, <1>2, PipelineInvInit, PTL DEF PipelineSpec
<1>4. PipelineInv => AcyclicAccepted /\ SimpleCyclesRejected
  <2>1. CASE phase = "preflight"
    BY <2>1, VerdictIsRight DEF PipelineInv
  <2>2. CASE phase # "preflight"
    BY <2>2 DEF PipelineInv, AcyclicAccepted, SimpleCyclesRejected, HasCycle, Dependencies
  <2> QED
    BY <2>1, <2>2
<1>5. PipelineInv => /\ ExclusiveClaims /\ RunsAfterSuccess /\ DeadlockOnlyOnCycle
                     /\ UpstreamOutputVisible
  <2>1. CASE phase \in Unscheduled
    <3>1. ASSUME Idle PROVE Active = {}
      BY <3>1 DEF Idle, Active
    <3>2. ASSUME Idle PROVE RunsAfterSuccess
      BY <3>2 DEF Idle, RunsAfterSuccess
    <3>3. DeadlockOnlyOnCycle
      BY <2>1 DEF DeadlockOnlyOnCycle, Unscheduled
    <3>4. ASSUME Idle PROVE ExclusiveClaims /\ UpstreamOutputVisible
      BY <3>1, <3>4, FS_EmptySet, GraphAssumption DEF ExclusiveClaims, UpstreamOutputVisible
    <3> QED
      BY <2>1, <3>2, <3>3, <3>4 DEF PipelineInv
  <2>2. CASE phase \notin Unscheduled
    BY <2>2, SchedulerInvIsSafe DEF PipelineInv
  <2> QED
    BY <2>1, <2>2
<1> QED
  BY <1>3, <1>4, <1>5, PTL
=============================================================================
