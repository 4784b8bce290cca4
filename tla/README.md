# Kyberion: a TLA+ model of the coordination core

Kyberion runs missions: graphs of steps that call models, tools and services,
delegated to agents, gated by human approvals and started by schedules and
triggers. Many operating-system processes (interactive sessions, daemons,
workers) share one checkout and coordinate only through files in it. This
directory models the part of `libs/core` on which that coordination rests, one
TLA+ module per component, checks the modules with TLC on small instances, and
proves the most important of their properties with TLAPS for every value of
the constants.

Paths below are relative to the repository root.

## 1. Inventory

### 1.1 Components modelled

**Inter-process file lock** — `libs/core/foundation/lock-utils.ts`.
*State*: the lock file with its owner record (pid, millisecond timestamp), a
cleanup guard file `<lock>.reclaim`, and the tombs `*.stale-<pid>-...` into which
a cleaner moves what it is about to delete.
*Operations*: `withLock`, `withLockSync`, `acquireLock`, `releaseLock`; inside
them `reclaimStaleLock`, `removeIfUnchanged`, `putBack`, `sweepLockLitter`.
*Interactions*: nearly every durable read-modify-write of the system runs inside
it: lease records, idempotency reservations, approvals, triggers, the audit chain.
*Hard*: every step is one system call and processes interleave between any two;
owners die with the lock; records are half written; pids are given to new
processes; any call may fail, also in a `finally` block.
*Correct if*: one holder at a time; a holder's record stays in place until the
holder releases it; one cleaner at a time; no guard is ever taken over; a dead
owner's lock is recovered.

**Fenced writer lease** — `libs/core/writer-lease.ts`, over the **lease
backends** in `libs/core/lease/`.
*State*: one durable record per resource: owner, fence, expiry.
*Operations*: `withFencedWriterLease`, `withFencedWriterLeaseSync`, the renewal
timer, `withWriterLeaseSnapshotSync`.
*Interactions*: the backend supplies the record and the critical section. The
local-file backend uses the file lock; the memory backend is a queue on one event
loop that only asynchronous callers go through.
*Hard*: callbacks that outlive their lease; crashes; failed writes of the record;
synchronous and asynchronous writers mixed.
*Correct if*: fences are never reused; writes reach the resource in the order of
their fences; a writer that was overtaken is not told that it succeeded; a stale
writer's `finally` leaves the newer lease alone.

**Mission lease with follower suspension** — `libs/core/mission/mission-lease.ts`.
*State*: the durable fenced record, and per manager (process) a private map of
leases, a slot with the latest generation, and parked contenders.
*Operations*: `acquireLease`, `renewLease`, `releaseLease`, `suspendFollowers`, and
the reads that refresh the private view.
*Hard*: private views that are stale; a `now` captured before the wait for the
lock; expiry at the exact millisecond; a write of the record that throws after the
private view was changed.
*Correct if*: generations only advance, a dead generation stays dead, at most one
holder has an unexpired grant, a parked follower is not forgotten.

**Execution graph** — `deriveExecutionGraph` in `libs/core/graph-scheduler.ts`.
A pure function from declared steps (`depends_on`, `consumes`, `produces`,
`when`) to edges and errors, with a queue-based cycle check. *Correct if* the
check agrees with the definition of a cycle.

**Frontier scheduler** — `executeGraph` in `libs/core/graph-scheduler.ts`, with
the claim rules of `libs/core/tool/tool-call-scheduler.ts` and the node handler
of `libs/core/pipeline/adf-engine.ts`.
*State*: per-node status, running claims, the shared context.
*Hard*: handlers settle in any order and answer the context they were *started*
with; claims are resolved from templates at dispatch; failures, skips and
journal-restored nodes mix.
*Interactions*: the pipeline engine derives the graph, refuses it on a hard error
and otherwise hands it to the scheduler.
*Correct if*: conflicting claims never run together; a node runs only after its
dependencies succeeded; only a cycle can wedge the scheduler; a dependent sees
what its dependencies produced; the run ends.

**Idempotent delegation** — `libs/core/delegation-idempotency.ts`.
*State*: one reservation file per key (absent, in flight, terminal, released),
its heartbeat, the per-process map of running promises.
*Hard*: calls of one process that join; waits across processes and hosts; an
owner that dies, is silent, or whose settlement fails; a liveness verdict formed
before the lock and used under it.
*Correct if*: an execution runs at most once per key; every caller of a living
process is answered; a terminal outcome is final; nobody is given the result of
another payload.

**Approval lifecycle** — in `libs/core/governance/`: `approval-store.ts` (decision,
expiry, cancellation, receipts), `approval-revocation.ts`, `approval-veto-window.ts`,
`approval-apply-claim.ts`, and the two authorities over one effect slot,
`human-execution.ts` and `delegated-execution.ts`, fenced by
`execution-claim-fence.ts`; with the consumer in `secret/secret-introduction.ts`.
*State*: one record per request (status, answers per role, apply claim, result,
consumption, revocation, veto window); a permit per charter execution.
*Operations*: decide, withdraw, revoke, deliver a notification, tick of the veto
timer, check / claim / verify / run / record of each consumer, authorize / claim /
verify / settle of the charter.
*Interactions*: each transition runs under the record's lock; the slot's two
authorities share the execution-identity lock, which is *not* held over the effect.
*Hard*: between any two transitions another surface, the timer, a revocation or a
second consumer acts; workers die around the effect; receipts arrive late; the clock
passes the expiry.
*Correct if*: the effect is claimed before it starts and starts at most once, only
under an authority that still stands; a revoked approval is never used; silence is
consent only after a delivered notice and its active minutes; what is settled stays.

**Trigger runner** — `TriggerRunner.run` and the journal of `libs/core/trigger-runner.ts`.
*State*: the journal of claims and receipts, its rotated segments, the run under way
in each process.
*Operations*: claim, reject, deliver, settle; retention before an append; the
operator's rotation.
*Hard*: delivery happens outside the lock; a lease ends while its owner is alive; an
owner dies and its pid is used again; the journal is trimmed while it is the only
memory of what was delivered; a receipt cannot be written.
*Correct if*: no record is lost; two deliveries of one key do not overlap; nothing is
delivered again inside the dedupe window but for the causes the code names.

**Append-only store** — `libs/core/append-only-store.ts`, the recovery in
`compaction-copy-recovery.ts`, the reader in `jsonl-parked-read.ts`.
*State*: the live file, parked copies, archives and segments; the maintainer's
progress; the position of open appends.
*Operations*: append (open, write), rotate, and the parked rewrite behind compaction
by key, window retention and the merge of leftover copies: park, look, write
survivors, publish, restore, archive, clean up.
*Hard*: appenders and readers take no lock; an open file follows a rename; the live
file comes back in the middle of a rewrite; any file operation fails, also in the
restore; a maintainer dies at any step.
*Correct if*: no line is lost, doubled, or overtaken by an older one of its key; copies
stay exactly when something failed; a reader sees what was there before it began.

### 1.2 Components not modelled yet

| component | source | behaviour to model | main properties |
|---|---|---|---|
| generation scheduler | `libs/core/generation-scheduler.ts` | due check and claim of an occurrence by several daemons | one run per occurrence (lines 358-395 rely on the daemon's leader lease); a registration or a completion survives a write-back of an older copy (line 430) |
| agent input queue | `libs/core/agent/agent-input-queue.ts` | durable entries, consumption, wake-ups | nothing lost between marking and handing over |
| delegation concurrency | `libs/core/mission/delegation-concurrency.ts`, `libs/core/semaphore.ts` | slots, wall-clock budget, abort, child registry | slots are conserved; the registry keeps every child |
| mission lifecycle | `libs/core/mission/mission-status.ts`, `mission-lifecycle.ts`, `mission-orchestration-journal.ts` | transitions, journal replay | replay reaches the state before the crash |
| audit chain | `libs/core/governance/audit-chain.ts` | hash-chained appends, deferred appends | one successor per entry |
| kill switch | `libs/core/governance/kill-switch.ts` | activation against running children | no child starts after it |
| co-sessions | `libs/core/co-session.ts` | relayed approvals | as for approvals |

### 1.3 Components left out

Actuators, presence surfaces, satellites, reasoning providers, media pipelines,
knowledge, schemas and command-line scripts: input/output, formatting, data or
entry points. What an external model or service answers is a free choice here.

## 2. Plan

Done, in this order, because each rests on the one before:

1. `Mutex` (abstract) and `FileLock`, which implements it; proofs.
2. `WriterLease` over `Mutex`; proofs. 3. `MissionLease`; proofs.
4. `ExecutionGraph` and `GraphScheduler`, composed by `AdfPipeline`; proofs of all three.
5. `DelegationIdempotency` over an atomic read-modify-write, which is what `Mutex`
   promises; proofs.
6. `EffectSlot` (abstract) and `ApprovalLifecycle`, which implements it; proofs.
7. `TriggerRunner`; proofs. 8. `AppendOnlyStore`; proofs.

Next:

9. `GenerationScheduler`: one schedule file, a daemon's tick against `register`,
   completion and a restart between claim and submission.
10. `InputQueue`: durable entries, compaction, hand-over to a worker that dies.
11. `DelegationSlots` with the kill switch and the child registry.
12. `MissionLifecycle` with its journal; graph suspension and resumption on top of
    `GraphScheduler`. 13. `AuditChain`.

Theorems to add: those of the modules above as they are written. Every safety property that
a run checks and that holds is a theorem now (§6).

## 3. Modules and the code

| module | models | actions and their code |
|---|---|---|
| `Mutex` | what callers of the lock rely on | `Enter`, `Leave` |
| `FileLock` | `lock-utils.ts` | retry loop: `Begin`, `Publish`, `Wait`, `Timeout`; inspection: `InspectRead`, `InspectProbe`; `reclaimStaleLock`: `PublishGuard`, `InspectGuard`, `Sweep`, `RecheckRead`, `RecheckProbe`, `ConfirmGuard`; `removeIfUnchanged`: `Rename`, `Verify`, `PutBack`; its `finally`: `Unguard`, `RenameGuard`, `VerifyGuard`, `PutBackGuard`; `releaseLock`: `ReleaseRead`, `ReleaseUnlink`; environment: `Stop`, `Start`, `Age`, `OperatorRecovery` |
| `WriterLease` | `writer-lease.ts`, `lease/*.ts` | `Enter`, `Snapshot`, `Reject`, `Acquire`, `AcquireCheck`, `Write`, `Renew`, `Callback`, `FinalCheck`, `Release`, `Crash`, `Tick` |
| `MissionLease` | `mission/mission-lease.ts` | `AcquireSuspended`, `AcquireAgain`, `AcquireTakeover`, `Renew`, `Release`, `SuspendFollowers`, `Read`, `Tick` |
| `GraphNodes` | the steps, shared by the next three | |
| `ExecutionGraph` | `deriveExecutionGraph` | derivation as set expressions; `Visit`, `Finish` for the loop of the cycle check |
| `GraphScheduler` | `executeGraph` | `LoopHead`, `Pass`, `Skip`, `Dispatch`, `EndSweep`, `Settle`, `Suspend` |
| `AdfPipeline` | `adf-engine.ts:255-300`, which calls the two | `Derive`, `Refuse`, `Accept`, `Begin`; then the scheduler's |
| `DelegationIdempotency` | `delegation-idempotency.ts` | `Join`, `Joined`, `JoinAborted`; `Peek`, `Reserve`, `Replay`, `ReserveFails`, `Poll`; `Start`, `Settle`, `ReleaseKey`, `Cleanup`, `Heartbeat`; `LeaseLapses`, `Crash` |
| `EffectSlot` | what an authorization promises about its effect | `Claim`, `Run` |
| `ApprovalLifecycle` | the governance files of 1.1 | record: `Decide`, `Withdraw`, `Revoke`, `Deliver`; timer: `TickStart`, `TickRecord`; consumers: `Check`, `Claim`, `Refused`, `Consume`, `Admit`, `Effect`, `Record`, `Die`; charter: `Authorize`, `ClaimPermit`, `VerifyPermit`, `Settle`; steering: `Steer`, `SteerRecord`, `DeciderDies`; environment: `SetHalt`, `Advance` |
| `TriggerRunner` | `trigger-runner.ts` | `Claim`, `Reject`, `Deliver`, `Settle`, `SettleUnwritten`, `LockTimeout`; retention inside `AppendRecord`; `Rotate`; environment: `Crash`, `Restart`, `Tick` |
| `AppendOnlyStore` | `append-only-store.ts`, `compaction-copy-recovery.ts`, `jsonl-parked-read.ts` | appenders: `Open`, `Write`; maintainer: `Rotate`, `StartRewrite`, `StartMerge`, `Park`, `Look`, `WriteSurvivors`, `Publish`, `RestorePark`, `RestoreMove`, `Archive`, `Cleanup`, `Fault`, `Crash`; reader: `ReadStart`, `ReadCopy`, `ReadLive`, `Relist`, `ReadReturn` |
| `MC*` | | values of the constants for TLC |
| `*Proofs` | | theorems about the module named |

Operators named `X_Something` beside an `X` are mutants: they state how a
plausible mistake in the code would look. No specification uses them; putting
one in the place of `X` must break the property it is paired with in
`PROJECT.json`.

### Grain and abstraction

*FileLock*: one step is one file-system call or one `kill(pid, 0)`. The nonce of a
guard is its writer. Time is a choice: a waiting client may time out, an
unverifiable record may become old. Clients with one pid are tasks or worker
threads of one process. `Stamps` are the possible millisecond timestamps; the
instances use a single one, so that two records of one process are always
identical to the code, the least favourable case.

*WriterLease*: the durable record is read and written inside the backend's lock, so
steps are the points where another writer could act. The variable `backend` is
chosen once: with `local-file-lock` the lock is `Mutex`; with `memory` it is a
queue on one event loop, where an asynchronous callback can be interrupted but a
synchronous writer cannot. Expiry is the time left. `disturbed`, `issued` and
`dataFence` are history.

*MissionLease*: an operation runs under the lock and is one step. A call sees the
clock of up to `Skew` ticks ago, because `now` is taken before the lock is. The write of
the record ends an operation and may throw (`NotPersisted`): then the manager's slot,
rows and contenders stay changed, the record is as it was and the caller is told
nothing. Without a record a manager answers from its own row (`LocalLive`). `grant`
records what each caller was told; `spoiled` is history, the generations whose takeover
failed to write.

*ExecutionGraph*: a step is the five declarations that matter for the edges. Its
initial predicate and next-state relation are `DeriveInit` and `DeriveNext`, so that
`AdfPipeline` can run it before the scheduler, on the same steps.

*GraphScheduler*: a sweep is one turn of the event loop, split per visited node;
handlers settle at the `await` only. The graph is any element of `Graphs` or, in
`AdfPipeline`, the one that was derived; conditions and claims are free choices at dispatch. Of the context only each
node's own output channel is kept.

*DelegationIdempotency*: a read-modify-write under the lock is one step; the
liveness probe that precedes it is another. While a call is between the two, the
calls of its process wait, since `reserve` is synchronous. Which call runs in which
process on which host, and with which payload, is chosen once (`deployment`).

*ApprovalLifecycle*: a transition under a record's lock is one step; checks, claims,
effects and receipts of a worker are separate ones. All requests authorize one effect;
a request's route says which consumer serves it. Time is in minutes; the active hours
are a set of minutes. What a worker compares before it claims (the hash of the record)
is the record.

*TriggerRunner*: a step is what the journal's lock covers. A record has an id, so that
loss and repetition can be told apart. The hysteresis of compaction (a per-process
size) is a free choice to compact or not. `lastOK` and `excused` are history; `excused` has an entry exactly where the code accepts a repetition.

*AppendOnlyStore*: a step is one file operation; an append is two, so that it can be
open across a rename. Lines are numbers in the order their appends began, which is also
their time stamp. Reading a file is one step. A pass over a run's copies chooses among their
places, and `Gather` writes the lines at the chosen places in order. `NoStragglers` states the file's own
assumption ("Residual risk", lines 36-38): an append open on a parked copy
arrives before that copy is read for the last time. The removals of a cleanup are single steps; a failing unlink is passed
over, as `tryUnlink` does.

## 4. Runs

| run | result | what it asks |
|---|---|---|
| `file_lock` | holds | a holder owns the record on disk (hence one holder at a time), no displaced record lost, guards never taken over, every orphaned guard has a cause, the lock implements `Mutex`, a dead or malformed record is recovered |
| `file_lock_exit` | violated | mutual exclusion when an owner may exit between a cleaner's read and probe (finding 1) |
| `writer_lease` | holds | both backends: fences increase, an overtaken writer is told so, a stale one cuts nobody short; over the file lock, writes in fence order and coherent snapshots |
| `mission_lease` | holds | two live holders need a generation whose record failed to be written; generations advance, dead ones stay dead; a follower is only taken off by its own takeover, with calls that see an old clock and a write that throws |
| `mission_lease_stale_release` | violated | monotonic generations under a late release (finding 2) |
| `adf_pipeline` | holds | every pipeline of three steps and one channel, derived, checked and scheduled: soundness of the cycle check, completeness without parallel edges; claims, failure propagation, visible outputs, no wedge but on a hidden cycle; the run ends |
| `delegation_idempotency` | holds | at most once, terminal is final, a running execution stays in its process's map, "interrupted" has a cause, every caller is answered |
| `approval_lifecycle` | holds | the records and the permit implement `EffectSlot`; authority stands when the effect starts; revoked is never used; silent consent is sound; settled stays settled |
| `trigger_runner` | holds | no record lost, no overlapping deliveries, no repetition inside the window without a named cause |
| `append_only_store` | holds | no line lost or doubled, order per key, leftover copies have a cause, a reader is current, unless a cleanup is split (finding 4) |
| `append_only_restore` | violated | no line lost when a line may arrive between the restore's look and its rename (finding 3) |
| `append_only_split` | violated | no line lost when a death or a failing unlink leaves a copy while an earlier one of its run is removed (finding 4) |

No run lists a type invariant: each is part of an invariant proved in section 6, but
for `AppendOnlyStore`'s, which is there to be read and to be run by hand.

`UpstreamOutputVisible` lets one case through by name (`PutsBack`): a channel that had a
value before the run may show that value again after a sibling that does not wait for
the producer merged under any policy but `namespace` (observations, below).

### Bounds, and why they are enough

- *FileLock*: three clients give an owner, a cleaner and a third caller (or two
  cleaners and a victim). Two are in one process, where a pid does not tell them apart,
  and the third in another; both processes may be down at once, which is when the
  operator recovers a guard. `MaxStops = 2` lets the owner and the cleaner die;
  `MaxFaults` makes the operation or its undo fail. Pids return through `Start`. There
  is no symmetry, since liveness is checked. Three clients in three processes are the
  instance of `file_lock_exit`; the theorems of `FileLockProofs` cover any placement.
- *WriterLease*: two of three writers share an owner id, which only the fence tells
  apart; `TTL = 2` separates "about to lapse" from "fresh"; five fences allow each
  writer to be overtaken.
- *MissionLease*: two managers and two holders are the smallest instance in which a
  private view is stale. Two generations allow a takeover that the other manager
  missed; the run on late releases has three. One write that throws (`MaxFailures`) leaves one
  manager with a generation nobody else knows, which is then given out again, renewed or
  overtaken; the theorems have any number. `Skew = 1` with `TTL = 2` makes a call see a lease as live that has just lapsed.
- *Pipelines*: three nodes hold chains, joins, forks and cycles of two and three;
  `Limit = 2` makes the limit bite; the claims are a reader and a writer of one path
  and a plain name, so every pair of claims that may and may not meet is there. The steps declare any
  dependencies on at most two steps, the step itself included, and produce or consume
  one channel; conditions (on the channel or on none) stand in steps that neither
  produce nor consume it, and one declaration names a step that does not exist. One
  node's channel has a value before the run, so that an output and an initial value can
  be confused.
- *Delegation*: three calls, in every placement that differs for the code: all in
  one process (an owner and two joiners), two and one on the same or on different
  hosts, and each in its own process on two hosts; the same payload or two; one
  crash and one fault.
- *Approvals*: three workers (a claimant, a competitor and one to recover), two
  requests plus the charter over one effect, or one request of every other route; a
  window of two active minutes, a deadline of one, a clock of three and a scan of three
  minutes separate early, late and never. A workflow has no role, one (a secret mutation)
  or two of which any may answer; whoever decides may do so for one of them, for another
  role or for none, as `approvals/[id]/route.ts` passes on the member's own. Workers are
  interchangeable.
- *TriggerRunner*: two processes, a stable key and a minute key; a window of one minute
  and leases of up to two make a lease outlast the window; three minutes pass both; a
  journal of two records makes retention and trimming bite; four records and one
  trouble reach every order of claim, outcome and rewrite.
- *AppendOnlyStore*: two appenders, two keys, three lines, one of them there before,
  so that both appenders act; three copies are a rewrite's first one, one that came
  back meanwhile and one of an earlier run; no or one merge round
  (`COMPACT_MAX_PARK_ATTEMPTS` is larger; each round does the same); two troubles fail
  a step and its restore, or interrupt a rewrite and its recovery; the window's first
  line is any line. The two runs on findings 3 and 4 start with two lines and park four
  copies, which is what their traces take. Appenders and keys are interchangeable.

Counters that would grow for ever are bounded in the guards by these constants
(`MaxFence`, `MaxFailures`, `MaxStops`, `MaxFaults`, `MaxCrashes`, `MaxTime`, `MaxNow`, `MaxRecords`,
`MaxLines`, `MaxCopies`, `MaxTrouble`). The proofs do not depend on
their values.

Deadlock checking is off in the pipeline, delegation, approval, trigger and append-only
runs, which end or exhaust their bounds; it is on in the others.

### Fairness

- `FileLock`: a thread that is not stopped takes its next step (weak, per client);
  the clock advances (weak, `Age`); callers do not always exhaust their budget
  before an attempt (strong, `Publish`): `acquireLock` always attempts once.
  `StaleLockRecovered` excuses an orphaned guard, which by design waits for an
  operator, and the state in which no process is left.
- `AdfPipeline`: the event loop runs (weak, `Preflight` and `SchedulerStep`) and some running
  handler settles (weak). The code awaits handlers without a deadline of its own,
  so the second is an assumption on handlers.
- `DelegationIdempotency`: event loops run (weak, per call), which includes that a
  delegated execution ends, as its backend's deadline makes it; and a caller that
  polls again and again reaches `maxWaitMs` (strong, on the time-out of `Poll`).

## 5. Findings

Each is a run whose one property, taken from a comment, document or test, is
violated by what the code does.

1. `lock-utils.ts:319`: a record's pid is probed after the record is read. If its
   owner releases and exits in between and another process acquires, the cleaner
   takes the successor's record for stale and moves it away; a third caller can
   enter before it is put back.
2. `mission-lease.ts:545`: `releaseLease` neither refreshes nor compares the
   generation, so a late release puts an older generation over a live record.
3. `append-only-store.ts:443`: `restoreRawUnion` looks for a live file and then renames
   the union over the live path; a line appended in between, which recreates that
   file, is replaced. The exclusive publish of the normal path has no such gap.

4. `append-only-store.ts:524`: a run's copies are removed one by one, and `tryUnlink`
   (lines 234-240) passes over an unlink that fails. Say a restore gave the live file the
   lines 1, 2, 3 of the copies [1, 2] and [3]; the first copy is removed and the process
   dies, or the second unlink fails. The next merge takes the copy left for older than
   the live file and publishes 3, 1, 2 (lines 582-612); if 2 and 3 have one key, a reader
   that keeps the last row of a key now gets 2, and the next compaction drops 3, the
   newest line, which was acknowledged. The header says of the copies (lines 32-33):
   "They are kept only while they are the sole full-fidelity copy, so no record is lost
   and nothing is kept twice." `NoLineLost`, `OrderKept` and `ReaderIsCurrent` fail on
   this path. Removing the copies from the last to the first, and stopping at an unlink
   that fails, would leave only copies older than what is gone.

What excludes 1 to 4 from the other runs and the theorems are constants
(`ExitDuringProbe`, `StaleRelease`, `AppendInRestore`, `SplitCleanup`), so that these say
exactly what holds without them. `SplitCleanup = FALSE` still lets a maintainer die
before the first removal and after the last one, and lets unlinks fail up to the first
that succeeds.

Observations without a run of their own; each is visible in the model:

- `memory-lease-backend.ts:43`: the synchronous lock neither waits for nor refuses an
  asynchronous holder, so over that backend writes may leave the order of their fences
  (`WritesInFenceOrderLocally` says so of the file lock only).
- `graph-scheduler.ts:226`: the merge policy defaults to `last`, with which, as with every
  policy but `namespace`, a sibling's older context puts a channel's initial value back
  over a producer's output (`PutsBack`).
- `graph-scheduler.ts:239`: distinct dependencies are counted, edges are subtracted, so
  parallel edges hide a cycle (`SimpleCyclesRejected` excludes them); `executeGraph`
  then stops with "Graph scheduler deadlock" at run time.
- `mission-lease.ts:446`: `acquireLease` changes its slot, rows and contenders before the
  write of the record, which may throw. After a failed first write the same manager
  answers `ok` from its own row (lines 348-351) while another one reads no record and
  gives the same generation out: two live holders. With an earlier record there, the
  failed generation can later be renewed by its lease id over another manager's live
  record of that number. And a follower is forgotten (line 445) that has won nothing,
  although a comment says "The winner is the holder, no longer a contender".
  `OneLiveHolder` and `FollowerKeptUntilItsTakeover` name this cause (`spoiled`) and hold
  in every other case. Releasing such a generation over another live record is what
  finding 2 is about; `StaleRelease` excludes both.
- `mission-lease.ts:604`: `suspendFollowers` looks its slot up before the refresh that
  creates it (`SuspendRefused`): a manager that has not yet seen the resource is answered
  `LEASE_NOT_FOUND` although the lease is live.
- `approval-store.ts:975`: while roles are left to answer, a decided record can be decided
  again and takes the last status, next to a comment that says "First decision wins";
  the organization's policy may end such a workflow with one answer. Worse, a decision
  for a role outside the workflow sets the status while the workflow's own role is still
  pending, so that the status can be turned around even after a claim.
  `SettledStays` and `AdmittedIsAuthorized` say what holds all the same.
- `approval-veto-window.ts:302`: the halt is read once per tick; a tick under way still
  decides. `claimApprovalApply` does not look at `consumption`, `consumeApprovalWithin`
  looks at the claim: one request is served by one consumer (its route).
- `approval-store.ts:1330`: the execution of an approved steering request is in memory only.
- `trigger-runner.ts`: a cron receipt of the current minute may be trimmed and its trigger
  fire twice (`shed`); a success whose receipt meets a lock timeout is recorded as
  `failed` and delivered again (line 1188, `loose`); the pid of a dead owner in use again
  keeps its key blocked.
- `append-only-store.ts:523`: a reader whose two listings enclose a whole park, publish
  and unlink misses that copy (`missed`).
- `generation-scheduler.ts`: `register` writes a schedule without its `last_submitted_at`
  and `run_lock`; `markGenerationScheduleSubmitted` and `...Reconciled` write back the
  copy they were given; a death after the claim loses the occurrence.

## 6. Proofs

All theorems hold for any sets of clients, writers, managers and holders, any
durations and any bounds; the assumptions are the named `ASSUME`s of the modules, and
where a theorem needs it the constant that excludes a finding of §5. Every safety
property of the passing runs is proved. Each inductive invariant was first checked by TLC on the instance of
its component's run.

**`FileLockProofs`**
- `CleanupSafe` (`Spec => [](TypeOK /\ OneCleaner /\ DisplacedRecordKept)`) and
  `GuardIsNotTakenOver` need no assumption on exits. Their invariant `GuardInv` adds
  `DownIsDead`, that a thread is stopped exactly when its pid is dead: without it a
  sweep of "dead" cleaners' tombs could hit a live one.
- `LockIsExclusive` and `LockImplementsMutex` assume `ExitDuringProbe = FALSE`.
  Mutual exclusion is not inductive. `MutexInv` adds three facts that follow a
  stale record through its removal: `ReadIsCurrent` (what a cleaner has read is
  still the lock, or will be found alive), `VictimIsStale` (between probe and
  rename the lock is the record judged, and nobody holds it), and
  `HolderOwnsRecord` (a holder's record is the one on disk, hence two holders are
  one). `OneCleaner` is what makes `VictimIsStale` stable: nobody else removes
  records meanwhile. There is one lemma per conjunct with one step per action;
  `StepIsMutexStep` maps every step to `Enter`, `Leave` or a stutter.
- `OrphansHaveCause` rests on `GuardInv`, on budgets of stops and faults that are only
  spent, and on `PutBackHasCause`: until one is spent nobody has to put a guard back.

**`WriterLeaseProofs`**
- `FencesAreNew` (over either backend), `FencedWritesInOrder` and `SnapshotsAreCoherent`
  (over the file lock). `LeaseInv` says that the record is never behind a fence that was
  issued, and that over the file lock whoever has left "idle" is alone inside, the record
  is not behind the fence last written under, and a running callback's fence is the
  record's.
- `OkMeansUndisturbed` and `OwnerReleasesLiveLease` hold over either backend, where the
  memory backend excludes only asynchronous writers from each other. `TurnInv` adds what
  then remains: nobody inside has a fence ahead of the record (`TokensBehind`), everybody
  beside a synchronous writer is behind it (`TurnIsNewest`), and so is who was disturbed
  (`DisturbedIsStale`), which the last check then notices.

**`MissionLeaseProofs`**: all three theorems assume `StaleRelease = FALSE`.
- `GenerationsOnlyAdvance`. `GenerationInv` ties each manager's map to the record
  (`Fits`): a row of a generation that the record has not reached is one whose write
  failed (`spoiled`), and a row of the record's generation names its owner, unless that
  generation is spoiled. `FitsWhatFollows` says that rows fit every record that may
  follow: a newer generation, or the same one with its owner kept, or one that is
  spoiled. So a failed write costs the managers their agreement on one generation and
  never the order of the generations.
- `AtMostOneLiveHolder`: by `GrantsAreCurrent`, an unexpired grant of a generation that
  is not spoiled is of the durable record's, names its owner and ends no later than the
  record.
- `FollowersAreKept` follows step by step from `GenerationInv`.

**`GraphSchedulerProofs`**, for any number of nodes, any graph, limit and claims
- `ConflictsNeverRunTogether`: the list of claims in use has each claim as often as running
  nodes hold it (`ClaimsCounted`, which the removals at a settlement must keep), so that
  what `canClaim` compares with is what runs. It assumes that `Overlap` is symmetric
  (`GraphAssumption`), as the overlap of two paths is.
- `NothingRunsOnFailure`. A success is never taken back, so what was true at dispatch stays.
- `OnlyCyclesDeadlock`: a sweep that found nothing to do has passed over every pending node
  because it waits for another that is not terminal (`SweepIsFruitless`); if nothing
  runs, these nodes are a cycle. Claims and the limit cannot matter: with nothing running
  no claim is in use (`NothingInUse`).
- `OutputsReachDependents`: `ContextKept` says of each channel that it holds its finished
  producer's output unless somebody puts the initial value back, in the merged context
  and in every context a node was started with.
- `AcyclicGraphsAreAccepted` and `CyclesAreRefused`, about `ExecutionGraph`, for any number
  of steps and whatever they declare (`ShapesAssumption` only types the declarations). `CountsAreMissing` relates
  a step's count to the dependencies not yet visited: parallel edges can only make it
  smaller, without them it is exact. So what is left when the queue is empty is a knot, a
  set of steps that depend on each other; and a knot is never entered if the counts are
  exact (`KnotsStay`).
- `AcceptedGraphsNeverWedge` composes the two, as `adf-engine.ts:263` does: a graph that
  was accepted and has no parallel edges never makes the scheduler throw.
- `PipelinesAreSafe` says all of this of `AdfPipeline`, where one behaviour derives,
  checks and schedules: before `Begin` nothing is scheduled (`Idle`), the derivation's
  invariant gives the verdict, and the first state after it satisfies the scheduler's
  invariant.

**`ApprovalLifecycleProofs`**: every safety property of `approval_lifecycle`.
- `ApprovalsImplementSlot` (`Spec => ImplementsEffectSlot`): every step claims the free
  slot, starts the effect of the claimed slot once, or stutters. `SlotInv` is what this
  rests on: `WorkerInv` and `RecordInv` tie a worker's place to the record it works on,
  `OneOwner` and `LockInv` say that the permit and the records never own the slot
  together and that its lock admits one, `SteerInv` and `RunsInv` count the effects.
  `ClaimFindsSlotFree` and its siblings are the steps of the refinement.
- `AuthorityStands`: the conjunct `AuthorityInv` carries an authority from the check to
  the effect; with it `AdmittedIsAuthorized` follows, and that a receipt of success is
  true (`SuccessMeansRan`). `RevokedApprovalsStayUnused` follows from `RecordInv`.
- `SettledRequestsStay` follows step by step from `SlotInv`.
- `SilenceIsConsent`: by `ConsentInv`, a tick's time is never ahead of the clock, and a
  policy decision keeps its notice; `ActiveGrows`, that active minutes only add up, makes
  a late tick harmless.

They assume of the initial records (`ApprovalAssumption`) what the code creates:
steering requests have no workflow (`surface-mission-steering.ts:506`,
`held-effect-request.ts`), and only pipeline steps (`exec`) compare claims of different
requests. The active hours, the window, the deadline and the lengths of scans are
any numbers.

**`DelegationIdempotencyProofs`**: `ExecutesAtMostOnce`, `ExecutionsAreTracked`,
`InterruptionsHaveCause` and `TerminalStays`. At-most-once is not inductive: `ExecOwns` (a
running call's reservation names it) is broken only by its own release, which
`RanIsReserved` shows to come before the start; `RunningIsTracked` is what makes the
verdict "lost in this process" false of a running call, and needs `CallInv`, that two
calls of one process are never in `reserve` together. `CauseInv` follows the reasons for
an interruption from the probe to the answer.

**`TriggerRunnerProofs`**, for any keys, processes, windows, leases and thresholds
- A rewrite copies the journal line by line. `PlacesEnumerate` and `LiveEnumerates` show
  that the places of the kept lines number them without gaps and in order, whatever set is
  kept; from this `KeepCarries` has every record either live or in the segment, and
  `RetainedCarries` and `RotationCarries` that retention and rotation keep the records of
  the dedupe window and the last claims.
- `RecordsAreKept`: also when the rewrite fails or dies after the first of its two renames.
- `DeliveriesDoNotOverlap`: a call under way has its claim in the journal, as the last
  record of its key, or ended a whole window ago and is gone, or its key is `outlived`
  (`ClaimsStand`); `LatestIsFound` has the scan backward find a claim that is there. A
  pid that dies takes its call with it, so a second process is refused in time.
- `EffectsAreNotRepeated`: `SuccessesAreKnown` says that a success inside the window has a
  receipt in the journal, is about to get one or has an excuse, and `DeliveriesAreFresh`
  that the key of a delivery under way has no such success.
The assumption `NoneIsNoReceipt` only says that the value for "nothing found" is no record.

**`AppendOnlyStoreProofs`**, for any appenders, keys, policies and bounds. The first two
hold, unlike the run, also where a death may split a cleanup and a line may arrive between
the restore's look and its rename.
- `LeftoversHaveCause`. `CopyInv` says that a copy has a name never used before and that a
  run's copies are on disk; by `AccountedFor`, without trouble every copy on disk is the
  run's own, so that its cleanup removes it.
- `LinesAreNotDoubled`. `DoubleInv` says in which files a line may be: one whose append is
  under way is in none (`PendingIsNowhere`); until a run's result is in place, its own copies
  share no line with each other or the live file (`OwnIsDisjoint`), and a line that came
  after the first pass is in no other file (`LateIsNowhereElse`). Copies of an earlier
  rewrite do share lines with each other, and the merge keeps of those only the first
  (`SurvivorsFit`). `GatherEnumerates` shows that the file gathered from any set of places
  has each of them once and in order.
- `OlderStaysBeforeNewer` assumes `SplitCleanup = FALSE`. "Not older" is not transitive,
  since appends overlap, so that `OrderKept` says too little about lines that meet only
  after a merge. In every state, however, there is an order of all lines that everything
  agrees with (`Orders`, over the row of files: the copies by their names, then the live
  file): a line ranks above those done before its append began (`Ranks`); the lines of a key
  are in each file by their ranks (`Sorted`); one that is in no earlier file ranks above all
  that are (`NewComesLast`), which is what allows a merge to keep the first of equal lines; and
  what is in the files after one with an open append ranks above all that its line has to
  rank above (`LateComesFirst`). The order is no function of the state: a late line gets a
  rank in the middle when it is written, so each step is shown to have an order that follows
  the one before it on the lines that were there (`OrderGoesOn`). What a
  cleanup removes counts as gone from the first removal on (`Row`): under the assumption
  nothing that was to be removed stays after it. What fails to be removed before is an
  older copy than those that go, so it stands in the row where it stood. A copy that
  stays after an earlier one is gone has no such place, which is finding 4.
- `LinesAreNotLost` assumes `AppendInRestore = FALSE` as well: with it `append_only_restore`
  shows the line that is lost (finding 3). By `AllKept` each line that was acknowledged has one
  of its key in the row that ranks as high, or is out of the window, or is archived. `Placed`
  carries this over a rewrite: the result has what stands for every line of its copies
  (`SurvivorsStand`), and the live file has it before the first copy goes. `Quiet` says why no
  append is on its way to a file without a name.
- `ReadersSeeTheLatest` assumes both. A reader goes by the same order: of the lines of a key
  in a file one ranks as high as any in the files before it (`LastIsBest`), so the file read
  last gives the best row. Until it has read the live file, each line that it must know has
  one that ranks as high among what it has read or in a file still ahead of it
  (`ReaderFinds`); a publication or a restore moves that line to the live file, which is
  always ahead, and a copy parked since makes it list again.
The assumption `NoneIsNoFile` only says that the value for "no file" is no file and no name.
TLC checked the whole invariant (`ReadInv`) on the run's instance, with natural numbers up to
6 and ranks up to the number of lines.

**Only model-checked**: liveness (`StaleLockRecovered`, `PipelineEnds`, `EveryCallAnswered`):
temporal reasoning with fairness and ENABLED is outside TLAPS.

## 7. Limits of the models

- Not modelled in the writer lease: `renewFencedWriterLease`, which takes the lock
  itself, the key-value backend stub, metrics. In the mission lease, what throws around
  an operation (taking the lock, reading the record, releasing the lock after the write)
  is not modelled as such: it leaves the state as before the call, as after a refresh of the
  view, or as after the call with a caller that was not told and has nothing to act on.
- The scheduler's run ends at a suspension; what a resumed run does with nodes that
  were still running is in the plan. Nested pipelines, loops inside a step and
  tool-call batches are inside a handler.
- Delegation is modelled for one key; hashing of payloads is injective here.
- A FileLock client has one tomb; the tombs an earlier cleanup had to leave behind
  are only read by people. Network file systems without atomic hard links are out.
- Malformed arguments rejected before any state is read are left out throughout.
- Approvals: who may decide or revoke, separation of duties, assurance levels, the
  event log's content, the session cache, the withdrawal of standing effects, pipeline
  resumption and the batch gate of `external-operation.ts` are left out.
- Triggers: the leader lease of a tick, the file watch and the wake trigger, which only
  call `run()`; malformed lines.
- Append-only store: where hard links are unsupported the exclusive publish is a
  different operation, here taken as atomic; unreadable and oversized lines, which both
  passes copy as they are; the sizes that decide when maintenance is due.
