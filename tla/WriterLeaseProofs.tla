------------------------- MODULE WriterLeaseProofs --------------------------
(***************************************************************************)
(* TLAPS proofs about WriterLease, for any number of writers and any lease *)
(* duration: over either backend no fence is handed out twice, a writer    *)
(* that is told "ok" was undisturbed and nobody else cuts a live lease     *)
(* short; over the file lock the resource is written in the order of the   *)
(* fences and no snapshot overlaps a callback.                             *)
(***************************************************************************)
EXTENDS WriterLease, TLAPS

LeaseType ==
  /\ backend \in Backends
  /\ lease \in [owner : {lease.owner}, fence : Nat, left : Nat]
  /\ pc \in [Writers -> {"idle", "locked", "snapshot", "ok"} \cup Inside]
  /\ token \in [Writers -> Nat]
  /\ issued \in Nat /\ dataFence \in Nat

\* Whoever has left "idle" is alone inside the lock.
AloneInside == \A w \in Writers : pc[w] # "idle" => holders = {w}

\* The record is never behind a fence that was handed out or written under,
\* and a running callback's fence is the record's.
RecordIsNewest ==
  /\ dataFence <= lease.fence
  /\ \A w \in Writers : pc[w] \in Inside => token[w] = lease.fence

LeaseInv ==
  /\ LeaseType
  /\ issued <= lease.fence
  /\ LockExcludesSync => AloneInside /\ RecordIsNewest

\* Initially no fence was handed out.
LEMMA LeaseInvInit == Init => LeaseInv
BY DEF Init, LeaseInv, LeaseType, AloneInside, RecordIsNewest, Inside,
       LockExcludesSync

\* Every step keeps the invariant.
LEMMA LeaseInvPreserved == LeaseInv /\ [Next]_vars => LeaseInv'
<1> SUFFICES ASSUME LeaseInv, [Next]_vars PROVE LeaseInv'
  OBVIOUS
<1> USE BoundsAssumption
    DEF LeaseInv, LeaseType, AloneInside, RecordIsNewest, Inside, Goto, Live,
        LockExcludesSync
<1>1. ASSUME NEW w \in Writers, WriterStep(w) PROVE LeaseInv'
  <2>1. CASE Enter(w)        BY <2>1 DEF Enter, UsesQueue, Lock!Enter
  <2>2. CASE Snapshot(w)     BY <2>2 DEF Snapshot, LeaveLock
  <2>3. CASE Reject(w)       BY <2>3 DEF Reject, LeaveLock
  <2>4. CASE Acquire(w)      BY <2>4 DEF Acquire, LeaveLock, NextFence
  <2>5. CASE AcquireCheck(w) BY <2>5 DEF AcquireCheck, LeaveLock
  <2>6. CASE Write(w)        BY <2>6 DEF Write
  <2>7. CASE Renew(w)        BY <2>7 DEF Renew, Extended
  <2>8. CASE Callback(w)     BY <2>8 DEF Callback
  <2>9. CASE FinalCheck(w)   BY <2>9 DEF FinalCheck
  <2>10. CASE Release(w)     BY <2>10 DEF Release, LeaveLock
  <2>11. CASE Crash(w)       BY <2>11 DEF Crash, LeaveLock
  <2> QED
    BY <1>1, <2>1, <2>2, <2>3, <2>4, <2>5, <2>6, <2>7, <2>8, <2>9, <2>10, <2>11
    DEF WriterStep
<1>2. CASE Tick
  BY <1>2 DEF Tick
<1>3. CASE UNCHANGED vars
  BY <1>3 DEF vars
<1> QED
  BY <1>1, <1>2, <1>3 DEF Next

\* No writer is ever given a fence somebody else had, over either backend
\* (NextFence of withFencedWriterLease and its synchronous variant).
THEOREM FencesAreNew == Spec => FencesStrictlyIncrease
<1> DEFINE Grows == \A w \in Writers :
             pc[w] = "locked" /\ pc'[w] = "assert" => token'[w] > issued
<1>1. LeaseInv /\ [Next]_vars => [Grows]_vars
  <2> SUFFICES ASSUME LeaseInv, Next, NEW w \in Writers,
                      pc[w] = "locked", pc'[w] = "assert"
               PROVE  token'[w] > issued
    BY DEF vars
  <2> USE DEF LeaseInv, LeaseType, Inside, Goto
  <2>1. PICK v \in Writers : WriterStep(v)
    BY DEF Next, Tick
  <2>2. v = w
    BY <2>1
    DEF WriterStep, Enter, Snapshot, Reject, Acquire, AcquireCheck, Write, Renew,
        Callback, FinalCheck, Release, Crash, LeaveLock
  <2>3. Acquire(w)
    BY <2>1, <2>2
    DEF WriterStep, Enter, Snapshot, Reject, AcquireCheck, Write, Renew,
        Callback, FinalCheck, Release, Crash, LeaveLock
  <2> QED
    BY <2>3 DEF Acquire, LeaveLock, NextFence
<1> QED
  BY <1>1, LeaseInvInit, LeaseInvPreserved, PTL DEF Spec, FencesStrictlyIncrease

\* No lapsed writer overwrites what a newer one wrote: writer-lease.ts over an
\* exclusive lock (the local-file backend).
THEOREM FencedWritesInOrder == Spec => WritesInFenceOrderLocally
<1>1. LeaseInv /\ [Next]_vars => [LockExcludesSync => dataFence' >= dataFence]_vars
  <2> SUFFICES ASSUME LeaseInv, Next, LockExcludesSync PROVE dataFence' >= dataFence
    BY DEF vars
  <2> USE DEF LeaseInv, LeaseType, RecordIsNewest, Inside
  <2>1. CASE dataFence' = dataFence
    BY <2>1
  <2>2. ASSUME NEW w \in Writers, Write(w) PROVE dataFence' >= dataFence
    BY <2>2 DEF Write
  <2> QED
    BY <2>1, <2>2
    DEF Next, Tick, WriterStep, Enter, Snapshot, Reject, Acquire, AcquireCheck,
        Renew, Callback, FinalCheck, Release, Crash
<1> QED
  BY <1>1, LeaseInvInit, LeaseInvPreserved, PTL DEF Spec, WritesInFenceOrderLocally

\* withWriterLeaseSnapshotSync over the file lock never overlaps a callback.
THEOREM SnapshotsAreCoherent == Spec => []SnapshotCoherent
<1>1. LeaseInv => SnapshotCoherent
  BY DEF LeaseInv, LeaseType, AloneInside, SnapshotCoherent, Inside
<1> QED
  BY <1>1, LeaseInvInit, LeaseInvPreserved, PTL DEF Spec
-----------------------------------------------------------------------------
\* Who uses the queue is alone in it.
QueueExcludes == \A w \in Writers : UsesQueue(w) /\ pc[w] # "idle" => holders = {w}

\* A synchronous callback holds the newest fence of all that are running; the
\* writers it may run into have older ones, and so have those it disturbed.
TokensBehind == \A w \in Writers : pc[w] \in Inside => token[w] <= lease.fence
TurnIsNewest ==
  \A w \in SyncWriters : pc[w] \in Inside =>
    \A v \in Writers \ {w} : pc[v] \in Inside => token[v] < lease.fence
DisturbedIsStale ==
  \A v \in disturbed : v \in Writers /\ pc[v] \in Inside /\ token[v] < lease.fence

TurnInv ==
  /\ LeaseType /\ lease.left <= TTL
  /\ QueueExcludes /\ TokensBehind /\ TurnIsNewest /\ DisturbedIsStale

\* The steps that neither take a fence nor write: a writer that is inside stays
\* there or leaves, and tokens only vanish.
LEMMA TurnKept ==
  ASSUME TurnInv, LeaseType', lease'.left <= TTL, QueueExcludes',
         lease'.fence = lease.fence, disturbed' \subseteq disturbed,
         \A w \in Writers : pc'[w] \in Inside => pc[w] \in Inside /\ token'[w] = token[w],
         \A w \in disturbed' : pc'[w] \in Inside
  PROVE  TurnInv'
<1>1. TokensBehind'
  BY DEF TurnInv, TokensBehind, Inside
<1>2. TurnIsNewest'
  BY WritersAssumption DEF TurnInv, TurnIsNewest, Inside
<1>3. DisturbedIsStale'
  BY DEF TurnInv, DisturbedIsStale, Inside
<1> QED
  BY <1>1, <1>2, <1>3 DEF TurnInv

\* Every step keeps the queue.
LEMMA QueueKept ==
  ASSUME LeaseType, QueueExcludes, [Next]_vars
  PROVE  QueueExcludes'
<1> USE DEF LeaseType, QueueExcludes, UsesQueue, LockExcludesSync
<1>1. ASSUME NEW w \in Writers, Enter(w) PROVE QueueExcludes'
  BY <1>1 DEF Enter, Lock!Enter, Goto
<1>2. ASSUME NEW w \in Writers, LeaveLock(w), backend' = backend PROVE QueueExcludes'
  BY <1>2 DEF LeaveLock, Goto
<1>3. ASSUME NEW w \in Writers, pc[w] # "idle", UNCHANGED <<holders, backend>>,
             \A v \in Writers \ {w} : pc'[v] = pc[v]
      PROVE  QueueExcludes'
  BY <1>3
<1>4. ASSUME NEW w \in Writers, WriterStep(w), ~Enter(w), ~LeaveLock(w)
      PROVE  /\ pc[w] # "idle" /\ UNCHANGED <<holders, backend>>
             /\ \A v \in Writers \ {w} : pc'[v] = pc[v]
  BY <1>4
  DEF WriterStep, Snapshot, Reject, Acquire, AcquireCheck, Write, Renew, Callback,
      FinalCheck, Release, Crash, Goto
<1>5. ASSUME NEW w \in Writers, WriterStep(w) PROVE backend' = backend
  BY <1>5
  DEF WriterStep, Enter, Snapshot, Reject, Acquire, AcquireCheck, Write, Renew,
      Callback, FinalCheck, Release, Crash
<1>6. CASE Tick \/ UNCHANGED vars
  BY <1>6 DEF Tick, vars
<1> QED
  BY <1>1, <1>2, <1>3, <1>4, <1>5, <1>6 DEF Next

\* Every step keeps the types and the bound of the remaining time.
LEMMA LeaseTypeKept ==
  ASSUME LeaseType, lease.left <= TTL, [Next]_vars
  PROVE  LeaseType' /\ lease'.left <= TTL /\ lease'.fence >= lease.fence
<1> USE BoundsAssumption DEF LeaseType, Inside, Goto, Live
<1>1. ASSUME NEW w \in Writers, WriterStep(w)
      PROVE  LeaseType' /\ lease'.left <= TTL /\ lease'.fence >= lease.fence
  <2>1. CASE Enter(w)        BY <2>1 DEF Enter
  <2>2. CASE Snapshot(w)     BY <2>2 DEF Snapshot, LeaveLock
  <2>3. CASE Reject(w)       BY <2>3 DEF Reject, LeaveLock
  <2>4. CASE Acquire(w)      BY <2>4 DEF Acquire, LeaveLock, NextFence
  <2>5. CASE AcquireCheck(w) BY <2>5 DEF AcquireCheck, LeaveLock
  <2>6. CASE Write(w)        BY <2>6 DEF Write
  <2>7. CASE Renew(w)        BY <2>7 DEF Renew, Extended
  <2>8. CASE Callback(w)     BY <2>8 DEF Callback
  <2>9. CASE FinalCheck(w)   BY <2>9 DEF FinalCheck
  <2>10. CASE Release(w)     BY <2>10 DEF Release, LeaveLock
  <2>11. CASE Crash(w)       BY <2>11 DEF Crash, LeaveLock
  <2> QED
    BY <1>1, <2>1, <2>2, <2>3, <2>4, <2>5, <2>6, <2>7, <2>8, <2>9, <2>10, <2>11
    DEF WriterStep
<1>2. CASE Tick
  BY <1>2 DEF Tick
<1>3. CASE UNCHANGED vars
  BY <1>3 DEF vars
<1> QED
  BY <1>1, <1>2, <1>3 DEF Next

\* Every step keeps the order of the turns.
LEMMA TurnInvPreserved ==
  ASSUME TurnInv, [Next]_vars
  PROVE  TurnInv'
<1>0. /\ LeaseType' /\ lease'.left <= TTL /\ lease'.fence >= lease.fence
      /\ QueueExcludes'
  BY LeaseTypeKept, QueueKept DEF TurnInv
<1>1. ASSUME NEW w \in Writers, LeaveLock(w), lease'.fence = lease.fence PROVE TurnInv'
  <2>1. /\ disturbed' \subseteq disturbed /\ w \notin disturbed'
        /\ \A v \in Writers : pc'[v] \in Inside =>
             v # w /\ pc'[v] = pc[v] /\ token'[v] = token[v]
        /\ \A v \in Writers : v # w => pc'[v] = pc[v]
    BY <1>1 DEF LeaveLock, Goto, TurnInv, LeaseType, Inside
  <2>2. \A v \in disturbed' : pc'[v] \in Inside
    BY <2>1 DEF TurnInv, DisturbedIsStale
  <2> QED
    BY <1>0, <1>1, <2>1, <2>2, TurnKept
<1>2. ASSUME NEW w \in Writers, NEW l, Goto(w, l), UNCHANGED <<lease, token, disturbed>>,
             l \in Inside => pc[w] \in Inside, l \notin Inside => w \notin disturbed
      PROVE  TurnInv'
  <2>1. /\ \A v \in Writers : pc'[v] \in Inside => pc[v] \in Inside
        /\ \A v \in Writers : pc'[v] = IF v = w THEN l ELSE pc[v]
    BY <1>2 DEF Goto, TurnInv, LeaseType
  <2>2. \A v \in disturbed' : pc'[v] \in Inside
    BY <1>2, <2>1 DEF TurnInv, DisturbedIsStale
  <2> QED
    BY <1>0, <1>2, <2>1, <2>2, TurnKept
<1>3. ASSUME UNCHANGED <<pc, token, disturbed>>, lease'.fence = lease.fence PROVE TurnInv'
  BY <1>0, <1>3, TurnKept DEF TurnInv, DisturbedIsStale
<1>4. ASSUME NEW w \in Writers, Enter(w) PROVE TurnInv'
  <2>1. PICK l \in {"locked", "snapshot"} : Goto(w, l)
    BY <1>4 DEF Enter
  <2>2. w \notin disturbed /\ l \notin Inside
    BY <1>4 DEF Enter, TurnInv, DisturbedIsStale, Inside
  <2> QED
    BY <1>2, <1>4, <2>1, <2>2 DEF Enter
<1>5. ASSUME NEW w \in Writers, Snapshot(w) \/ Reject(w) \/ Release(w) \/ Crash(w)
      PROVE  TurnInv'
  <2>1. LeaveLock(w) /\ lease'.fence = lease.fence
    BY <1>5 DEF Snapshot, Reject, Release, Crash, TurnInv, LeaseType
  <2> QED
    BY <1>1, <2>1
<1>6. ASSUME NEW w \in Writers, Acquire(w) PROVE TurnInv'
  <2>1. CASE LeaveLock(w) /\ UNCHANGED lease
    BY <1>1, <2>1
  <2>2. CASE ~(LeaveLock(w) /\ UNCHANGED lease)
    <3>1. /\ lease'.fence = lease.fence + 1 /\ lease.fence \in Nat
          /\ \A v \in Writers : v # w => token'[v] = token[v] /\ pc'[v] = pc[v]
          /\ token'[w] = lease.fence + 1 /\ pc'[w] = "assert"
          /\ disturbed' = disturbed /\ pc[w] = "locked"
      BY <1>6, <2>2 DEF Acquire, NextFence, Goto, TurnInv, LeaseType
    <3>2. \A v \in Writers : token[v] \in Nat /\ (pc[v] \in Inside => token[v] <= lease.fence)
      BY DEF TurnInv, TokensBehind, LeaseType
    <3>3. TokensBehind'
      BY <3>1, <3>2 DEF TokensBehind, Inside
    <3>4. DisturbedIsStale'
      BY <3>1, <3>2 DEF TurnInv, DisturbedIsStale, Inside
    <3>5. ASSUME NEW u \in SyncWriters, pc'[u] \in Inside,
                 NEW v \in Writers \ {u}, pc'[v] \in Inside
          PROVE  token'[v] < lease'.fence
      <4>1. CASE v # w
        BY <3>1, <3>2, <3>5, <4>1
      <4>2. CASE v = w
        <5>1. u \in Writers /\ pc[u] \in Inside /\ u # w
          BY <3>1, <3>5, <4>2, WritersAssumption
        <5>2. pc[u] # "idle" /\ MidTurn(u)
          BY <3>5, <5>1 DEF MidTurn, Inside
        <5>3. CASE LockExcludesSync
          BY <3>1, <5>1, <5>2, <5>3 DEF TurnInv, QueueExcludes, UsesQueue
        <5>4. CASE ~LockExcludesSync
          BY <1>6, <5>1, <5>2, <5>4 DEF Acquire, CanRun
        <5> QED
          BY <5>3, <5>4
      <4> QED
        BY <4>1, <4>2
    <3> QED
      BY <1>0, <3>3, <3>4, <3>5 DEF TurnInv, TurnIsNewest
  <2> QED
    BY <2>1, <2>2
<1>7. ASSUME NEW w \in Writers, AcquireCheck(w) PROVE TurnInv'
  <2>1. CASE LeaveLock(w)
    BY <1>1, <1>7, <2>1 DEF AcquireCheck
  <2>2. CASE ~LeaveLock(w)
    BY <1>2, <1>7, <2>2 DEF AcquireCheck, Inside
  <2> QED
    BY <2>1, <2>2
<1>8. ASSUME NEW w \in Writers, Write(w) PROVE TurnInv'
  <2>1. UNCHANGED <<lease, token, pc>>
    BY <1>8 DEF Write
  <2>2. ASSUME NEW v \in Writers \ {w}, pc[v] \in Inside PROVE token[v] < lease.fence
    <3>1. w \in SyncWriters
      <4> SUFFICES ASSUME w \notin SyncWriters PROVE FALSE
        OBVIOUS
      <4>1. UsesQueue(w) /\ pc[w] # "idle"
        BY <1>8 DEF UsesQueue, Write
      <4>2. ~UsesQueue(v)
        BY <2>2, <4>1 DEF TurnInv, QueueExcludes, Inside
      <4>3. v \in SyncWriters /\ ~LockExcludesSync
        BY <4>2 DEF UsesQueue
      <4>4. ~MidTurn(v)
        BY <1>8, <4>3 DEF Write, CanRun
      <4> QED
        BY <2>2, <4>3, <4>4 DEF MidTurn, Inside
    <3>2. pc[w] \in Inside
      BY <1>8 DEF Write, Inside
    <3> QED
      BY <2>2, <3>1, <3>2 DEF TurnInv, TurnIsNewest
  <2>3. DisturbedIsStale'
    BY <1>8, <2>1, <2>2 DEF Write, TurnInv, DisturbedIsStale
  <2>4. TokensBehind' /\ TurnIsNewest'
    BY <2>1 DEF TurnInv, TokensBehind, TurnIsNewest
  <2> QED
    BY <1>0, <2>3, <2>4 DEF TurnInv
<1>9. ASSUME NEW w \in Writers, Renew(w) PROVE TurnInv'
  BY <1>3, <1>9 DEF Renew, Extended, TurnInv, LeaseType
<1>10. ASSUME NEW w \in Writers, Callback(w) PROVE TurnInv'
  BY <1>2, <1>10 DEF Callback, Inside
<1>11. ASSUME NEW w \in Writers, FinalCheck(w) PROVE TurnInv'
  <2>1. Succeeds(w) => w \notin disturbed
    BY DEF Succeeds, Current, TurnInv, LeaseType, DisturbedIsStale
  <2> QED
    BY <1>2, <1>11, <2>1 DEF FinalCheck, Inside
<1>12. CASE Tick \/ UNCHANGED vars
  BY <1>3, <1>12 DEF Tick, vars, TurnInv, LeaseType
<1> QED
  BY <1>4, <1>5, <1>6, <1>7, <1>8, <1>9, <1>10, <1>11, <1>12 DEF Next, WriterStep

LEMMA TurnInvInit == Init => TurnInv
BY WritersAssumption, BoundsAssumption
DEF Init, TurnInv, LeaseType, QueueExcludes, TokensBehind, TurnIsNewest,
    DisturbedIsStale, Inside

\* The final check of withFencedWriterLease: "ok" is only told to a writer that
\* nobody disturbed, over either backend.
THEOREM OkMeansUndisturbed == Spec => []SuccessMeansUndisturbed
<1>1. TurnInv /\ [Next]_vars => TurnInv'
  BY TurnInvPreserved
<1>2. TurnInv => SuccessMeansUndisturbed
  BY DEF TurnInv, DisturbedIsStale, SuccessMeansUndisturbed, Inside
<1> QED
  BY TurnInvInit, <1>1, <1>2, PTL DEF Spec

\* The finally block and the renewal: only its owner cuts a live lease short.
THEOREM OwnerReleasesLiveLease == Spec => LiveLeaseOnlyReleasedByOwner
<1> DEFINE ByOwner ==
      Live /\ lease'.left < lease.left - 1 =>
        \E w \in Writers : pc[w] \in {"ok", "finally"} /\ token[w] = lease.fence
                          /\ pc'[w] = "idle"
<1>1. TurnInv /\ [Next]_vars => TurnInv'
  BY TurnInvPreserved
<1>2. TurnInv /\ [Next]_vars => [ByOwner]_vars
  <2> SUFFICES ASSUME TurnInv, Next, Live, lease'.left < lease.left - 1
               PROVE  \E w \in Writers : /\ pc[w] \in {"ok", "finally"}
                                         /\ token[w] = lease.fence /\ pc'[w] = "idle"
    BY DEF vars
  <2>0. lease.left \in Nat /\ lease.left <= TTL /\ TTL \in Nat
    BY BoundsAssumption DEF TurnInv, LeaseType
  <2>1. lease' # lease
    BY <2>0
  <2>2. ~Tick
    <3> SUFFICES ASSUME Tick PROVE FALSE
      OBVIOUS
    <3>1. lease'.left = lease.left - 1
      BY DEF Tick, TurnInv, LeaseType
    <3> QED
      BY <2>0, <3>1
  <2>3. PICK w \in Writers : WriterStep(w)
    BY <2>2 DEF Next
  <2>4. ~Renew(w)
    <3> SUFFICES ASSUME Renew(w) PROVE FALSE
      OBVIOUS
    <3>1. lease'.left = TTL
      BY <2>1 DEF Renew, Extended, TurnInv, LeaseType
    <3> QED
      BY <2>0, <3>1
  <2>5. ~Acquire(w)
    BY DEF Acquire
  <2>6. Release(w) /\ Releasable(w)
    BY <2>1, <2>3, <2>4, <2>5
    DEF WriterStep, Enter, Snapshot, Reject, AcquireCheck, Write, Callback,
        FinalCheck, Release, Crash
  <2>7. pc'[w] = "idle"
    BY <2>6 DEF Release, LeaveLock, Goto, TurnInv, LeaseType
  <2> QED
    BY <2>6, <2>7 DEF Release, Releasable, Current
<1> QED
  BY TurnInvInit, <1>1, <1>2, PTL DEF Spec, LiveLeaseOnlyReleasedByOwner
=============================================================================
