---------------------------- MODULE WriterLease -----------------------------
(***************************************************************************)
(* Fenced writer leases (libs/core/writer-lease.ts) over a lease backend   *)
(* (libs/core/lease/*.ts), for one durable resource.  A writer enters the  *)
(* backend's lock, takes the next fence, runs its callback, checks that it *)
(* is still the current writer, and gives the lease back.                  *)
(*                                                                         *)
(* The lock of the local-file backend is FileLock seen through its         *)
(* abstract specification Mutex.  The memory backend is one event loop:    *)
(* withLock queues asynchronous writers only, and a synchronous writer     *)
(* runs to completion in one turn whether or not an asynchronous one is    *)
(* inside.                                                                 *)
(*                                                                         *)
(* Time is the time left to the lease: `left > 0' is the code's            *)
(* `expires_at_ms > now', and release (expires_at_ms: 0) sets it to 0.     *)
(* Events and metrics are left out.                                        *)
(***************************************************************************)
EXTENDS Naturals, FiniteSets

CONSTANTS
  Writers,           \* callers of withFencedWriterLease(Sync)
  OwnerOf,           \* the ownerId each passes; two callers may share one
  SyncWriters,       \* those that use the synchronous variant
  Backends,          \* of "local-file-lock" and "memory", those to consider
  NoOne,
  TTL,               \* ttlMs, in clock ticks
  MaxFence           \* bound on acquisitions

ASSUME WritersAssumption ==
  SyncWriters \subseteq Writers /\ NoOne \notin Writers
ASSUME BoundsAssumption ==
  /\ TTL \in Nat \ {0} /\ MaxFence \in Nat
  /\ Backends \subseteq {"local-file-lock", "memory"}

VARIABLES
  backend,    \* the one configured, fixed
  holders,    \* who is inside the backend's lock
  lease,      \* the durable record: owner, fence, left (fence 0: no record yet)
  corrupt,    \* the record cannot be read or fails its schema
  pc,
  token,      \* the fence each running callback was given
  renewalError,
  issued,     \* highest fence ever handed to a writer
  dataFence,  \* fence under which the resource was last written
  disturbed   \* writers since whose acquisition another one has written

vars == <<backend, holders, lease, corrupt, pc, token, renewalError, issued, dataFence,
          disturbed>>

LockExcludesSync == backend = "local-file-lock"
Lock == INSTANCE Mutex WITH Clients <- Writers
-----------------------------------------------------------------------------
Inside == {"assert", "fn", "end", "finally"}

\* Mutant: the synchronous variant forgets the lock.
UsesQueue_AsyncOnly(w) == w \notin SyncWriters
UsesQueue(w) == LockExcludesSync \/ w \notin SyncWriters
\* On one event loop a synchronous writer, and an asynchronous one outside its
\* callback, finishes its turn before any other writer runs.
MidTurn(v) == IF v \in SyncWriters THEN pc[v] # "idle"
                                   ELSE pc[v] \in {"assert", "end", "ok", "finally"}
CanRun(w) == LockExcludesSync \/ \A v \in Writers \ {w} : ~MidTurn(v)
Live == lease.left > 0
\* assertFencedWriterLease, and the test before a release (without the time).
Current(w) == lease.owner = OwnerOf[w] /\ lease.fence = token[w]
Goto(w, l) == pc' = [pc EXCEPT ![w] = l]

Init ==
  /\ backend \in Backends
  /\ holders = {}
  /\ lease = [owner |-> NoOne, fence |-> 0, left |-> 0]
  /\ corrupt \in BOOLEAN
  /\ pc = [w \in Writers |-> "idle"]
  /\ token = [w \in Writers |-> 0]
  /\ renewalError = [w \in Writers |-> FALSE]
  /\ issued = 0 /\ dataFence = 0
  /\ disturbed = {}

\* Enter backend.withLock / withLockSync, or give up on LOCK_TIMEOUT (stays idle).
Enter(w) ==
  /\ pc[w] = "idle" /\ CanRun(w)
  /\ IF UsesQueue(w) THEN Lock!Enter(w) ELSE UNCHANGED holders
  /\ \E l \in {"locked", "snapshot"} : Goto(w, l)
  /\ UNCHANGED <<backend, lease, corrupt, token, renewalError, issued, dataFence, disturbed>>

\* Leave the lock, back to idle; the callback's memory is gone.
LeaveLock(w) ==
  /\ holders' = holders \ {w}
  /\ Goto(w, "idle")
  /\ token' = [token EXCEPT ![w] = 0]
  /\ renewalError' = [renewalError EXCEPT ![w] = FALSE]
  /\ disturbed' = disturbed \ {w}

\* withWriterLeaseSnapshotSync: a read inside the lock.
Snapshot(w) ==
  /\ pc[w] = "snapshot" /\ CanRun(w)
  /\ LeaveLock(w)
  /\ UNCHANGED <<backend, lease, corrupt, issued, dataFence>>

\* WRITER_LEASE_CORRUPT, WRITER_LEASE_BUSY: nothing is written.
Reject(w) ==
  /\ pc[w] = "locked" /\ CanRun(w)
  /\ corrupt \/ Live
  /\ LeaveLock(w)
  /\ UNCHANGED <<backend, lease, corrupt, issued, dataFence>>

\* Take the next fence; the failed write leaves the record as it was.
NextFence == lease.fence + 1
Acquire(w) ==
  /\ pc[w] = "locked" /\ CanRun(w)
  /\ ~corrupt /\ ~Live
  /\ \/ /\ lease.fence < MaxFence
        /\ lease' = [owner |-> OwnerOf[w], fence |-> NextFence, left |-> TTL]
        /\ token' = [token EXCEPT ![w] = NextFence]
        /\ issued' = IF NextFence > issued THEN NextFence ELSE issued
        /\ Goto(w, "assert")
        /\ UNCHANGED <<holders, renewalError, disturbed>>
     \/ LeaveLock(w) /\ UNCHANGED <<lease, issued>>
  /\ UNCHANGED <<backend, corrupt, dataFence>>

\* The check after the write: a lease that already ran out is not given back.
AcquireCheck(w) ==
  /\ pc[w] = "assert" /\ CanRun(w)
  /\ \/ /\ Current(w) /\ Live
        /\ Goto(w, "fn")
        /\ UNCHANGED <<holders, token, renewalError, disturbed>>
     \/ ~(Current(w) /\ Live) /\ LeaveLock(w)
  /\ UNCHANGED <<backend, lease, corrupt, issued, dataFence>>

\* The callback writes the resource.
Write(w) ==
  /\ pc[w] = "fn" /\ CanRun(w)
  /\ dataFence' = token[w]
  /\ disturbed' = disturbed \cup {v \in Writers \ {w} : pc[v] \in Inside}
  /\ UNCHANGED <<backend, holders, lease, corrupt, pc, token, renewalError,
                 issued>>

\* The renewal timer of an asynchronous writer (renewEveryMs).  It fails for a
\* writer that was overtaken or whose lease ran out, and when the write of the
\* record or the check after it throws.
Renewable(w) == Current(w) /\ Live
Extended == [lease EXCEPT !.left = TTL]
Renew(w) ==
  /\ pc[w] = "fn" /\ w \notin SyncWriters /\ CanRun(w)
  /\ \/ Renewable(w) /\ lease' = Extended /\ UNCHANGED renewalError
     \/ /\ lease' = lease \/ (Renewable(w) /\ lease' = Extended)
        /\ renewalError' = [renewalError EXCEPT ![w] = TRUE]
  /\ UNCHANGED <<backend, holders, corrupt, pc, token, issued, dataFence, disturbed>>

\* The callback returns ("end") or throws ("finally").
Callback(w) ==
  /\ pc[w] = "fn" /\ CanRun(w)
  /\ \E l \in {"end", "finally"} : Goto(w, l)
  /\ UNCHANGED <<backend, holders, lease, corrupt, token, renewalError, issued, dataFence,
                 disturbed>>

\* Mutant: the final check compares owners only.
Succeeds_OwnerOnly(w) == ~renewalError[w] /\ lease.owner = OwnerOf[w] /\ Live
\* The writer is told that its callback succeeded.
Succeeds(w) == ~renewalError[w] /\ Current(w) /\ Live
FinalCheck(w) ==
  /\ pc[w] = "end" /\ CanRun(w)
  /\ Goto(w, IF Succeeds(w) THEN "ok" ELSE "finally")
  /\ UNCHANGED <<backend, holders, lease, corrupt, token, renewalError, issued, dataFence,
                 disturbed>>

\* Mutants: the release compares owners only, or deletes the record.
Releasable_OwnerOnly(w) == lease.owner = OwnerOf[w]
Release_Deletes(w) ==
  /\ pc[w] \in {"ok", "finally"} /\ CanRun(w) /\ Current(w)
  /\ lease' = [owner |-> NoOne, fence |-> 0, left |-> 0]
  /\ LeaveLock(w)
  /\ UNCHANGED <<backend, corrupt, issued, dataFence>>
\* finally: only the current writer gives the lease back, keeping the fence;
\* a failed write leaves it to expire.
Releasable(w) == Current(w)
Release(w) ==
  /\ pc[w] \in {"ok", "finally"} /\ CanRun(w)
  /\ \/ Releasable(w) /\ lease' = [lease EXCEPT !.left = 0]
     \/ UNCHANGED lease
  /\ LeaveLock(w)
  /\ UNCHANGED <<backend, corrupt, issued, dataFence>>

\* The process dies; the file lock is reclaimed from it.  The memory backend
\* dies with its process, so only a writer of its own process can crash.
Crash(w) ==
  /\ LockExcludesSync /\ pc[w] # "idle"
  /\ LeaveLock(w)
  /\ UNCHANGED <<backend, lease, corrupt, issued, dataFence>>

Tick ==
  /\ Live
  /\ lease' = [lease EXCEPT !.left = @ - 1]
  /\ UNCHANGED <<backend, holders, corrupt, pc, token, renewalError, issued, dataFence,
                 disturbed>>

WriterStep(w) ==
  \/ Enter(w) \/ Snapshot(w) \/ Reject(w) \/ Acquire(w) \/ AcquireCheck(w)
  \/ Write(w) \/ Renew(w) \/ Callback(w) \/ FinalCheck(w) \/ Release(w)
  \/ Crash(w)

Next == (\E w \in Writers : WriterStep(w)) \/ Tick
Spec == Init /\ [][Next]_vars
-----------------------------------------------------------------------------
TypeOK ==
  /\ backend \in Backends
  /\ holders \in SUBSET Writers
  /\ lease.fence \in 0..MaxFence /\ lease.left \in 0..TTL
  /\ corrupt \in BOOLEAN
  /\ pc \in [Writers -> {"idle", "locked", "snapshot", "ok"} \cup Inside]
  /\ token \in [Writers -> 0..MaxFence]
  /\ renewalError \in [Writers -> BOOLEAN]
  /\ issued \in 0..MaxFence /\ dataFence \in 0..MaxFence
  /\ disturbed \in SUBSET Writers

\* "Monotonic fencing token; strictly increasing per resource": every writer
\* gets a fence nobody ever had, whatever expired, crashed or was released.
FencesStrictlyIncrease ==
  [][\A w \in Writers :
       pc[w] = "locked" /\ pc'[w] = "assert" => token'[w] > issued]_vars

\* A writer that is told "ok" was alone: nobody wrote the resource between its
\* acquisition and its final check, even when its lease had lapsed on the way.
SuccessMeansUndisturbed == \A w \in Writers : pc[w] = "ok" => w \notin disturbed

\* A live lease is only cut short by the writer it belongs to: what a stale
\* writer does in its finally block leaves the newer lease alone.
LiveLeaseOnlyReleasedByOwner ==
  [][Live /\ lease'.left < lease.left - 1 =>
       \E w \in Writers : pc[w] \in {"ok", "finally"} /\ token[w] = lease.fence
                          /\ pc'[w] = "idle"]_vars

\* A lapsed writer cannot overwrite a newer one's data: writes reach the
\* resource in the order of their fences.  This is what a backend's exclusion
\* "across a caller-supplied callback" is for; the file lock provides it ...
WritesInFenceOrderLocally == [][LockExcludesSync => dataFence' >= dataFence]_vars
\* ... and there a snapshot never overlaps a callback.
SnapshotCoherent ==
  LockExcludesSync => \A v, w \in Writers : pc[v] = "snapshot" => pc[w] \notin Inside
=============================================================================
