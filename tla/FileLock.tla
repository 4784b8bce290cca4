------------------------------ MODULE FileLock ------------------------------
(***************************************************************************)
(* The file-based inter-process lock of libs/core/foundation/lock-utils.ts *)
(* for one resource: exclusive publication of an owner record, detection   *)
(* of records whose owner is gone, and their removal under a cleanup guard *)
(* that is never taken over.                                               *)
(*                                                                         *)
(* One step is one file-system operation or one process.kill(pid, 0)       *)
(* probe, which is the grain at which processes interleave.  A client is   *)
(* one caller of withLock, withLockSync or acquireLock; clients with the   *)
(* same pid are tasks or worker threads of one process.                    *)
(*                                                                         *)
(* Abstractions.  The nonce that makes a guard unique is the client that   *)
(* wrote it; `by' in a main record is the client that published it and is  *)
(* never read by the code.  The clock appears as two choices: a timeout    *)
(* may strike whenever a client waits, and an unverifiable record may      *)
(* become old.  Any read may fail (EACCES, EMFILE, EIO, or a hard link     *)
(* that loadLockRecord cannot resolve).                                    *)
(***************************************************************************)
EXTENDS Naturals, FiniteSets

CONSTANTS
  Clients,          \* callers of the lock
  Pids,             \* process ids
  PidOf,            \* the process a client runs in
  Stamps,           \* values of the record's millisecond timestamp
  NoPid,            \* pid of an unverifiable record (empty, partial, malformed)
  NoOne,            \* "no client"
  MaxStops,         \* how many times a process may exit or be killed
  MaxFaults,        \* how many file operations may fail
  ExitDuringProbe   \* may an owner release and exit between a cleaner's read
                    \* of its record and the cleaner's probe of its pid?

ASSUME ClientsAssumption ==
  /\ PidOf \in [Clients -> Pids]
  /\ NoOne \notin Clients
  /\ NoPid \notin Pids
  /\ Stamps # {}
ASSUME BoundsAssumption ==
  MaxStops \in Nat /\ MaxFaults \in Nat /\ ExitDuringProbe \in BOOLEAN

VARIABLES
  lock,        \* the record at <resource>.lock
  guard,       \* who wrote <resource>.lock.reclaim
  tomb,        \* the record a client moved aside to <file>.stale-<pid>-...
  dead,        \* pids for which process.kill(pid, 0) answers ESRCH
  pc,          \* where each client is
  seen,        \* the record the client read (`initial', `current', `expected')
  next,        \* what reclaimStaleLock will answer once its guard is released
  stopsLeft, faultsLeft

vars == <<lock, guard, tomb, dead, pc, seen, next, stopsLeft, faultsLeft>>
-----------------------------------------------------------------------------
OwnerRecord(c, t) == [pid |-> PidOf[c], ts |-> t, by |-> c, old |-> FALSE]
Malformed(t, o) == [pid |-> NoPid, ts |-> t, by |-> NoOne, old |-> o]
NoRecord == [pid |-> NoPid, ts |-> NoPid, by |-> NoOne, old |-> FALSE]

\* A record carries the pid of its publisher, or none.
Records ==
  {r \in [pid : Pids \cup {NoPid}, ts : Stamps \cup {NoPid},
          by : Clients \cup {NoOne}, old : BOOLEAN] :
     r.pid = IF r.by = NoOne THEN NoPid ELSE PidOf[r.by]}

\* Steps of reclaimStaleLock between publishing the guard and releasing it.
Guarded == {"sweep", "recheck", "reprobe", "confirm", "rename", "verify",
            "putback", "unguard", "grename"}
\* The client has acquired the lock and not yet given it up.
Holding == {"cs", "release", "unlink"}
Outside == {"down", "idle", "try", "inspect", "probe", "guard", "gbusy",
            "gverify", "gputback", "wait"}

\* What JSON.stringify([pid, ts, id, nonce]) tells apart.
recordIdentity(r) == <<r.pid, r.ts>>

\* Mutant: unverifiable records are never old enough.
lockReclaimable_NoAge(r) == r # NoRecord /\ r.pid \in dead
\* State of a record whose pid is probed now: 'dead' or old and 'unknown'.
lockReclaimable(r) ==
  /\ r # NoRecord
  /\ IF r.pid = NoPid THEN r.old ELSE r.pid \in dead

Fault(f) == /\ f => faultsLeft > 0
            /\ faultsLeft' = IF f THEN faultsLeft - 1 ELSE faultsLeft

Goto(c, l) == pc' = [pc EXCEPT ![c] = l]
-----------------------------------------------------------------------------
\* A resource nobody uses yet, or an unverifiable record of an older run.
Init ==
  /\ lock \in {NoRecord} \cup {Malformed(t, FALSE) : t \in Stamps}
  /\ guard = NoOne
  /\ tomb = [c \in Clients |-> NoRecord]
  /\ dead = {}
  /\ pc = [c \in Clients |-> "idle"]
  /\ seen = [c \in Clients |-> NoRecord]
  /\ next = [c \in Clients |-> "wait"]
  /\ stopsLeft = MaxStops
  /\ faultsLeft = MaxFaults

\* acquireLock, withLockSync: enter the retry loop.
Begin(c) ==
  /\ pc[c] = "idle"
  /\ Goto(c, "try")
  /\ UNCHANGED <<lock, guard, tomb, dead, seen, next, stopsLeft, faultsLeft>>

\* publish of the main record: acquired, or EEXIST, or another error thrown
\* (the publication temp was swept three times, or an I/O error).
Publish(c) ==
  /\ pc[c] = "try"
  /\ \/ /\ lock = NoRecord
        /\ \E t \in Stamps : lock' = OwnerRecord(c, t)
        /\ Goto(c, "cs")
        /\ UNCHANGED faultsLeft
     \/ /\ lock # NoRecord
        /\ Goto(c, "inspect")
        /\ UNCHANGED <<lock, faultsLeft>>
     \/ /\ Fault(TRUE)
        /\ Goto(c, "idle")
        /\ UNCHANGED lock
  /\ UNCHANGED <<guard, tomb, dead, seen, next, stopsLeft>>

\* inspectRecord(lockFile) for `initial': the read ...
InspectRead(c) ==
  /\ pc[c] = "inspect"
  /\ \E f \in BOOLEAN :
       /\ Fault(f)
       /\ \/ f /\ Goto(c, "wait") /\ UNCHANGED seen
          \/ ~f /\ lock = NoRecord /\ Goto(c, "try") /\ UNCHANGED seen
          \/ ~f /\ lock # NoRecord /\ Goto(c, "probe")
             /\ seen' = [seen EXCEPT ![c] = lock]
  /\ UNCHANGED <<lock, guard, tomb, dead, next, stopsLeft>>

\* ... and the probe of the pid it found.
InspectProbe(c) ==
  /\ pc[c] = "probe"
  /\ Goto(c, IF lockReclaimable(seen[c]) THEN "guard" ELSE "wait")
  /\ seen' = [seen EXCEPT ![c] = NoRecord]
  /\ UNCHANGED <<lock, guard, tomb, dead, next, stopsLeft, faultsLeft>>

\* Mutant: the guard of a dead cleaner is taken over.
PublishGuard_TakeOver(c) ==
  /\ pc[c] = "guard"
  /\ guard # NoOne => PidOf[guard] \in dead
  /\ guard' = c /\ Goto(c, "sweep")
  /\ UNCHANGED <<lock, tomb, dead, seen, next, stopsLeft, faultsLeft>>
\* publish of the cleanup guard.
PublishGuard(c) ==
  /\ pc[c] = "guard"
  /\ \/ guard = NoOne /\ guard' = c /\ Goto(c, "sweep") /\ UNCHANGED faultsLeft
     \/ guard # NoOne /\ Goto(c, "gbusy") /\ UNCHANGED <<guard, faultsLeft>>
     \/ Fault(TRUE) /\ Goto(c, "idle") /\ UNCHANGED guard
  /\ UNCHANGED <<lock, tomb, dead, seen, next, stopsLeft>>

\* The guard was there: retry at once if it is gone by now, never displace it.
InspectGuard(c) ==
  /\ pc[c] = "gbusy"
  /\ \E f \in BOOLEAN :
       /\ Fault(f)
       /\ Goto(c, IF guard = NoOne /\ ~f THEN "try" ELSE "wait")
  /\ UNCHANGED <<lock, guard, tomb, dead, seen, next, stopsLeft>>

\* sweepLockLitter: old tombs of cleaners that are gone.
Swept(d) == PidOf[d] \in dead
Sweep(c) ==
  /\ pc[c] = "sweep"
  /\ \E S \in SUBSET {d \in Clients : Swept(d)} :
       tomb' = [d \in Clients |-> IF d \in S THEN NoRecord ELSE tomb[d]]
  /\ Goto(c, "recheck")
  /\ UNCHANGED <<lock, guard, dead, seen, next, stopsLeft, faultsLeft>>

\* Leave the try block of reclaimStaleLock with an answer; `finally' follows.
Finally(c, answer) ==
  /\ Goto(c, "unguard")
  /\ next' = [next EXCEPT ![c] = answer]
  /\ seen' = [seen EXCEPT ![c] = NoRecord]

\* reclaimStaleLock returns (or throws) to the retry loop.
Return(c) ==
  /\ Goto(c, next[c])
  /\ next' = [next EXCEPT ![c] = "wait"]

\* Mutants: the verdict of `initial' is trusted under the guard; the early
\* return on a missing record is taken outside the try block.
RecheckRead_Trust(c) ==
  /\ pc[c] = "recheck" /\ lock # NoRecord
  /\ seen' = [seen EXCEPT ![c] = lock]
  /\ Goto(c, "confirm")
  /\ UNCHANGED <<lock, guard, tomb, dead, next, stopsLeft, faultsLeft>>
RecheckRead_NoFinally(c) ==
  /\ pc[c] = "recheck"
  /\ \/ lock = NoRecord /\ Goto(c, "try") /\ UNCHANGED seen
     \/ lock # NoRecord /\ Goto(c, "reprobe") /\ seen' = [seen EXCEPT ![c] = lock]
  /\ UNCHANGED <<lock, guard, tomb, dead, next, stopsLeft, faultsLeft>>
\* inspectRecord(lockFile) for `current', under the guard: the read ...
RecheckRead(c) ==
  /\ pc[c] = "recheck"
  /\ \E f \in BOOLEAN :
       /\ Fault(f)
       /\ \/ f /\ Finally(c, "wait")
          \/ ~f /\ lock = NoRecord /\ Finally(c, "try")
          \/ ~f /\ lock # NoRecord /\ Goto(c, "reprobe") /\ UNCHANGED next
             /\ seen' = [seen EXCEPT ![c] = lock]
  /\ UNCHANGED <<lock, guard, tomb, dead, stopsLeft>>

\* ... and the probe.
RecheckProbe(c) ==
  /\ pc[c] = "reprobe"
  /\ \/ /\ lockReclaimable(seen[c])
        /\ Goto(c, "confirm") /\ UNCHANGED <<next, seen>>
     \/ ~lockReclaimable(seen[c]) /\ Finally(c, "wait")
  /\ UNCHANGED <<lock, guard, tomb, dead, stopsLeft, faultsLeft>>

\* The guard must still be ours; an unreadable guard is not.
ConfirmGuard(c) ==
  /\ pc[c] = "confirm"
  /\ \E f \in BOOLEAN :
       /\ Fault(f)
       /\ \/ guard = c /\ ~f /\ Goto(c, "rename") /\ UNCHANGED <<next, seen>>
          \/ (guard # c \/ f) /\ Finally(c, "wait")
  /\ UNCHANGED <<lock, guard, tomb, dead, stopsLeft>>

\* removeIfUnchanged(lockFile): the rename to a tomb (ENOENT: 'gone').
Rename(c) ==
  /\ pc[c] = "rename"
  /\ \/ /\ lock # NoRecord
        /\ tomb' = [tomb EXCEPT ![c] = lock]
        /\ lock' = NoRecord
        /\ Goto(c, "verify")
        /\ UNCHANGED <<next, seen, faultsLeft>>
     \/ /\ lock = NoRecord
        /\ Finally(c, "try")
        /\ UNCHANGED <<lock, tomb, faultsLeft>>
     \/ /\ Fault(TRUE)
        /\ Finally(c, "idle")
        /\ UNCHANGED <<lock, tomb>>
  /\ UNCHANGED <<guard, dead, stopsLeft>>

\* Inspect the tomb: remove it if it is what we expected and still removable.
Removable(c) ==
  \/ tomb[c] = NoRecord
  \/ /\ recordIdentity(tomb[c]) = recordIdentity(seen[c])
     /\ lockReclaimable(tomb[c])
\* Mutant: the tomb is deleted whatever the inspection answers.
Verify_Unlinks(c) ==
  /\ pc[c] = "verify"
  /\ tomb' = [tomb EXCEPT ![c] = NoRecord]
  /\ \E f \in BOOLEAN :
       /\ Fault(f)
       /\ \/ Removable(c) /\ ~f /\ Finally(c, "try")
          \/ (~Removable(c) \/ f) /\ Goto(c, "putback") /\ UNCHANGED <<next, seen>>
  /\ UNCHANGED <<lock, guard, dead, stopsLeft>>
Verify(c) ==
  /\ pc[c] = "verify"
  /\ \E f \in BOOLEAN :
       /\ Fault(f)
       /\ \/ /\ Removable(c) /\ ~f
             /\ Finally(c, "try")
             /\ tomb' = [tomb EXCEPT ![c] = NoRecord]
          \/ /\ ~Removable(c) \/ f
             /\ Goto(c, "putback")
             /\ UNCHANGED <<tomb, next, seen>>
  /\ UNCHANGED <<lock, guard, dead, stopsLeft>>

\* Mutant: the tomb is renamed back over whatever is there.
CanPutBack_Overwrite(c) == TRUE
\* putBack: link the tomb exclusively; when refused, the tomb is kept.
CanPutBack(c) == lock = NoRecord
PutBack(c) ==
  /\ pc[c] = "putback"
  /\ \E f \in BOOLEAN :
       /\ Fault(f)
       /\ IF CanPutBack(c) /\ ~f
          THEN lock' = tomb[c] /\ tomb' = [tomb EXCEPT ![c] = NoRecord]
          ELSE UNCHANGED <<lock, tomb>>
  /\ Finally(c, "wait")
  /\ UNCHANGED <<guard, dead, stopsLeft>>

\* finally: inspect the guard; what cannot be verified as ours is kept.
Unguard(c) ==
  /\ pc[c] = "unguard"
  /\ \E f \in BOOLEAN :
       /\ Fault(f)
       /\ IF guard = c /\ ~f THEN Goto(c, "grename") /\ UNCHANGED next
                            ELSE Return(c)
  /\ UNCHANGED <<lock, guard, tomb, dead, seen, stopsLeft>>

\* removeIfUnchanged(guard): the rename; a failure is thrown to the caller.
RenameGuard(c) ==
  /\ pc[c] = "grename"
  /\ \/ guard' = NoOne /\ Goto(c, "gverify") /\ UNCHANGED <<next, faultsLeft>>
     \/ /\ Fault(TRUE)
        /\ Goto(c, "idle")
        /\ next' = [next EXCEPT ![c] = "wait"]
        /\ UNCHANGED guard
  /\ UNCHANGED <<lock, tomb, dead, seen, stopsLeft>>

\* Its tomb holds our own guard unless it cannot be read.
VerifyGuard(c) ==
  /\ pc[c] = "gverify"
  /\ \E f \in BOOLEAN :
       /\ Fault(f)
       /\ IF f THEN Goto(c, "gputback") /\ UNCHANGED next ELSE Return(c)
  /\ UNCHANGED <<lock, guard, tomb, dead, seen, stopsLeft>>

PutBackGuard(c) ==
  /\ pc[c] = "gputback"
  /\ \E f \in BOOLEAN :
       /\ Fault(f)
       /\ guard' = IF guard = NoOne /\ ~f THEN c ELSE guard
  /\ Return(c)
  /\ UNCHANGED <<lock, tomb, dead, seen, stopsLeft>>

\* Sleep and try again.
Wait(c) ==
  /\ pc[c] = "wait"
  /\ Goto(c, "try")
  /\ UNCHANGED <<lock, guard, tomb, dead, seen, next, stopsLeft, faultsLeft>>

\* The budget is spent: acquireLock answers false, withLockSync throws (it
\* checks the clock at the loop head, so also before a further attempt).
Timeout(c) ==
  /\ pc[c] \in {"wait", "try"}
  /\ Goto(c, "idle")
  /\ UNCHANGED <<lock, guard, tomb, dead, seen, next, stopsLeft, faultsLeft>>

\* The protected function returns or throws.
Finish(c) ==
  /\ pc[c] = "cs"
  /\ Goto(c, "release")
  /\ UNCHANGED <<lock, guard, tomb, dead, seen, next, stopsLeft, faultsLeft>>

\* releaseLock: read the record; one it cannot read is left behind.
ReleaseRead(c) ==
  /\ pc[c] = "release"
  /\ \E f \in BOOLEAN :
       /\ Fault(f)
       /\ Goto(c, IF lock # NoRecord /\ ~f /\ lock.pid = PidOf[c]
                  THEN "unlink" ELSE "idle")
  /\ UNCHANGED <<lock, guard, tomb, dead, seen, next, stopsLeft>>

ReleaseUnlink(c) ==
  /\ pc[c] = "unlink"
  /\ \/ lock' = NoRecord /\ UNCHANGED faultsLeft
     \/ Fault(TRUE) /\ UNCHANGED lock
  /\ Goto(c, "idle")
  /\ UNCHANGED <<guard, tomb, dead, seen, next, stopsLeft>>
-----------------------------------------------------------------------------
\* A cleaner read a record of p that is no longer the lock, and will probe p.
ProbeWouldMislead(p) ==
  \E k \in Clients : pc[k] = "reprobe" /\ seen[k].pid = p /\ seen[k] # lock

\* The process exits or is killed: its threads stop where they are.
Stop(p) ==
  /\ p \notin dead /\ stopsLeft > 0
  /\ ExitDuringProbe \/ ~ProbeWouldMislead(p)
  /\ dead' = dead \cup {p}
  /\ pc' = [c \in Clients |-> IF PidOf[c] = p THEN "down" ELSE pc[c]]
  /\ seen' = [c \in Clients |-> IF PidOf[c] = p THEN NoRecord ELSE seen[c]]
  /\ next' = [c \in Clients |-> IF PidOf[c] = p THEN "wait" ELSE next[c]]
  /\ stopsLeft' = stopsLeft - 1
  /\ UNCHANGED <<lock, guard, tomb, faultsLeft>>

\* A new process is given the pid.
Start(p) ==
  /\ p \in dead
  /\ dead' = dead \ {p}
  /\ pc' = [c \in Clients |-> IF PidOf[c] = p THEN "idle" ELSE pc[c]]
  /\ UNCHANGED <<lock, guard, tomb, seen, next, stopsLeft, faultsLeft>>

\* Time passes LOCK_RECOVERY_AGE_MS for an unverifiable record.
Age ==
  /\ lock # NoRecord /\ lock.pid = NoPid /\ ~lock.old
  /\ lock' = [lock EXCEPT !.old = TRUE]
  /\ UNCHANGED <<guard, tomb, dead, pc, seen, next, stopsLeft, faultsLeft>>

\* The operator removes an orphan guard once every process is stopped.
OperatorRecovery ==
  /\ dead = Pids /\ guard # NoOne
  /\ guard' = NoOne
  /\ UNCHANGED <<lock, tomb, dead, pc, seen, next, stopsLeft, faultsLeft>>

ClientStep(c) ==
  \/ Begin(c) \/ Publish(c) \/ InspectRead(c) \/ InspectProbe(c)
  \/ PublishGuard(c) \/ InspectGuard(c) \/ Sweep(c) \/ RecheckRead(c)
  \/ RecheckProbe(c) \/ ConfirmGuard(c) \/ Rename(c) \/ Verify(c) \/ PutBack(c)
  \/ Unguard(c) \/ RenameGuard(c) \/ VerifyGuard(c) \/ PutBackGuard(c)
  \/ Wait(c) \/ Timeout(c) \/ Finish(c) \/ ReleaseRead(c) \/ ReleaseUnlink(c)

Next ==
  \/ \E c \in Clients : ClientStep(c)
  \/ \E p \in Pids : Stop(p) \/ Start(p)
  \/ Age \/ OperatorRecovery

Spec == Init /\ [][Next]_vars
\* A thread that is not stopped runs on, the clock advances, and callers do
\* not always spend their whole budget before the first attempt (acquireLock
\* never does).
Fairness ==
  /\ \A c \in Clients : WF_vars(ClientStep(c)) /\ SF_vars(Publish(c))
  /\ WF_vars(Age)
FairSpec == Spec /\ Fairness
-----------------------------------------------------------------------------
TypeOK ==
  /\ lock \in Records
  /\ guard \in Clients \cup {NoOne}
  /\ tomb \in [Clients -> Records]
  /\ dead \in SUBSET Pids
  /\ pc \in [Clients -> Guarded \cup Holding \cup Outside]
  /\ seen \in [Clients -> Records]
  /\ next \in [Clients -> {"try", "wait", "idle"}]
  /\ stopsLeft \in Nat /\ faultsLeft \in Nat

\* withLock runs its function "with an exclusive lock": never two at a time.
MutualExclusion ==
  \A c, d \in Clients : pc[c] = "cs" /\ pc[d] = "cs" => c = d

\* Stronger: as long as a client has the lock, the record on disk is its own.
\* No cleaner, put-back or sweep has moved it away, so releaseLock (which
\* compares pids only) can remove nobody else's record.
HolderOwnsRecord == \A c \in Clients : pc[c] \in Holding => lock.by = c

\* reclaimStaleLock serializes cleanup: one cleaner, and the guard is its own.
OneCleaner == \A c \in Clients : pc[c] \in Guarded => guard = c

\* sweepLockLitter never deletes the tomb a live cleaner has yet to verify or
\* put back, however long that cleaner was suspended.
DisplacedRecordKept ==
  \A c \in Clients : pc[c] \in {"verify", "putback"} => tomb[c] # NoRecord

\* A guard that no cleaner will release needs an operator.  It takes a stopped
\* process or a failed file operation to leave one.
GuardOrphaned ==
  guard # NoOne /\ pc[guard] \notin Guarded
OrphanGuardHasCause ==
  GuardOrphaned => stopsLeft < MaxStops \/ faultsLeft < MaxFaults

\* "An extant cleanup guard is never taken over": a guard disappears in its
\* own cleaner's removal or in the operator's recovery, and never changes hands
\* in one step.
GuardNeverTakenOver ==
  [][guard # NoOne /\ guard' # guard =>
       guard' = NoOne /\ (pc[guard] = "grename" \/ dead = Pids)]_vars

\* A record whose owner is gone, or that is unverifiable, does not block the
\* resource for ever: some client removes it, unless the guard was orphaned,
\* the pid was given to a new process, or no process is left to do it.
OwnerGone == lock # NoRecord /\ (lock.pid = NoPid \/ lock.pid \in dead)
StaleLockRecovered == OwnerGone ~> (~OwnerGone \/ GuardOrphaned \/ dead = Pids)

\* The protocol implements the abstract lock: a client enters only when nobody
\* is inside, through every exit path of withLock, releaseLock and a crash.
Holders == {c \in Clients : pc[c] \in Holding}
Abstract == INSTANCE Mutex WITH holders <- Holders
ImplementsMutex == Abstract!Spec
=============================================================================
