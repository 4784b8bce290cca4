---------------------------- MODULE TriggerRunner ----------------------------
(***************************************************************************)
(* The delivery journal of trigger-runner.ts: a run claims its idempotency *)
(* key in the journal, delivers outside the lock, and records the outcome. *)
(* Reads go backwards to a cutoff; an append past the store's threshold    *)
(* first moves what the dedupe window does not need to a segment; an       *)
(* operator may rotate at any time.                                        *)
(*                                                                         *)
(* Everything the store's lock covers is one step; deliveries and deaths   *)
(* come between those.  Sizes count records.  A run that answers           *)
(* `duplicate' or finds the journal unreadable changes nothing and has no  *)
(* action.  The time unit is the minute of a cron key; waiting for the     *)
(* lock takes no time on that scale.  A process is in one run at a time:   *)
(* two runs of one process see each other as runs of two live ones do.     *)
(* Malformed lines, audit entries and the reason why an authority is       *)
(* rejected are left out.                                                  *)
(***************************************************************************)
EXTENDS Integers, Sequences, FiniteSets, FiniteSetsExt

CONSTANTS
  Pids,        \* process ids; a restart reuses one
  StableKeys,  \* idempotency keys that are not scoped to a minute
  CronKeys,    \* minutes in which a cron trigger is due: each is a key of its own
  None,
  Window,      \* DEDUPE_RETENTION_MS
  MaxLease,    \* TRIGGER_STORE_MAX_CLAIM_LEASE_MS
  RecentCron,  \* ROTATE_RECENT_CRON_MS
  MaxStore,    \* maxStoreBytes
  KeepStable,  \* bound: the operator's keepStable
  MaxNow,      \* bound: the clock
  MaxRecords,  \* bound: records ever appended
  MaxTrouble   \* bound: deaths, failing file operations and lock timeouts

ASSUME TriggerAssumption ==
  /\ CronKeys \subseteq Nat
  /\ Window \in Nat /\ MaxLease \in Nat \ {0} /\ RecentCron \in Nat /\ MaxStore \in Nat
  /\ KeepStable \in Nat /\ MaxNow \in Nat /\ MaxRecords \in Nat /\ MaxTrouble \in Nat

VARIABLES
  now,
  journal,   \* the live journal: a sequence of records
  segments,  \* ids of the records in rotated segments
  appended,  \* number of records appended so far: their ids
  alive,     \* pids in use
  call,      \* the run() under way in each process
  lastOK,    \* history: per key, when its last delivery succeeded
  excused,   \* history: <<key, cause>> where a key may be delivered again inside the window
  trouble

vars == <<now, journal, segments, appended, alive, call, lastOK, excused, trouble>>
store == <<journal, segments, appended>>

Keys == StableKeys \cup CronKeys
Status == {"pending", "failed", "delivered", "rejected"}
Receipts ==
  [id : Nat, key : Keys, status : Status, at : Nat, owner : Pids \cup {None}, expires : Nat]
ASSUME NoneIsNoReceipt == None \notin Receipts

IsMinuteScoped(r) == r.key \in CronKeys
NoCall == [pc |-> "idle", key |-> None, since |-> 0, expires |-> 0, ok |-> FALSE]

Init ==
  /\ now = 0 /\ journal = <<>> /\ segments = {} /\ appended = 0
  /\ alive = Pids
  /\ call = [p \in Pids |-> NoCall]
  /\ lastOK = [k \in Keys |-> None]
  /\ excused = {} /\ trouble = 0
-----------------------------------------------------------------------------
(* Reading *)

InFlight(r) == r.status = "pending"
Terminal(r) == r.status \in {"delivered", "rejected"}

\* Mutant: the cutoff leaves no room for the lease of a claim.
ReadCutoff_NoLease == now - Window
ReadCutoff == now - Window - MaxLease

\* Newest first, up to the first finished receipt before the cutoff.
StopsScan(r) == ~InFlight(r) /\ r.at < ReadCutoff
Scanned ==
  LET stops == {i \in DOMAIN journal : StopsScan(journal[i])}
      from == IF stops = {} THEN 1 ELSE Max(stops) + 1
  IN {i \in DOMAIN journal : i >= from}
\* Mutant: the oldest record of the key.
FindLatest_Oldest(k) ==
  LET mine == {i \in Scanned : journal[i].key = k}
  IN IF mine = {} THEN None ELSE journal[Min(mine)]
FindLatest(k) ==
  LET mine == {i \in Scanned : journal[i].key = k}
  IN IF mine = {} THEN None ELSE journal[Max(mine)]

\* The latest record answers for the run.
Blocks(r) ==
  r # None /\ (Terminal(r) \/ (InFlight(r) /\ (r.expires > now \/ r.owner \in alive)))
-----------------------------------------------------------------------------
(* Retention: collectDedupeWindow, retainTriggerDedupeWindow, splitJournal *)

IsAbandoned(r) == r.expires < now - Window
\* The latest record of its key that retention keeps, by its place.
InWindow(r) == IF InFlight(r) THEN ~IsAbandoned(r) ELSE r.at >= now - Window
DedupeWindow ==
  {i \in DOMAIN journal : InWindow(journal[i]) /\ \A j \in DOMAIN journal :
                             journal[j].key = journal[i].key => j <= i}

\* By time, and by place where the times are equal.
Older(i, j) == journal[i].at < journal[j].at \/ (journal[i].at = journal[j].at /\ i < j)
\* Above the target the oldest finished receipts of minute-scoped keys go.
Trimmable(r) == ~InFlight(r) /\ IsMinuteScoped(r)
Retained ==
  LET window == DedupeWindow
      candidates == {i \in window : Trimmable(journal[i])}
      excess == Cardinality(window) - MaxStore \div 2
  IN {i \in window : i \in candidates => Cardinality({j \in candidates : Older(j, i)}) >= excess}
Frees(keep) ==
  Len(journal) - Cardinality(keep) >= Max({MaxStore \div 4, Len(journal) \div 2})

\* The records of keep, in their order.
Place(keep, j) == Cardinality({k \in keep : k <= j})
Live(keep) ==
  [i \in 1..Cardinality(keep) |-> journal[CHOOSE j \in keep : Place(keep, j) = i]]
DroppedIds(keep) == {journal[i].id : i \in DOMAIN journal \ keep}
\* Keys whose terminal receipt is dropped inside the dedupe window; compaction
\* has an excuse for cron keys only.
Shed(keep) == {<<journal[i].key, "shed">> : i \in {j \in DedupeWindow \ keep : Terminal(journal[j])}}

\* What a rewrite leaves: both files replaced; or, when it fails or dies after
\* the first rename, the segment published and the live file as it was.
\* Mutant: the live file is replaced first.
HalfSplit_LiveFirst(keep) == [journal |-> Live(keep), segments |-> segments]
HalfSplit(keep) == [journal |-> journal, segments |-> segments \cup DroppedIds(keep)]
Split(keep) == [journal |-> Live(keep), segments |-> segments \cup DroppedIds(keep)]
AsIs == [journal |-> journal, segments |-> segments]
CompactionDue == Len(journal) + 1 > MaxStore

\* What appendRecord finds before it appends: compaction is attempted past the
\* threshold, unless an earlier attempt of this process is too recent.
Compacted(fault) ==
  {[f |-> AsIs, shed |-> {}]} \cup
  IF ~CompactionDue \/ ~Frees(Retained) THEN {}
  ELSE IF fault THEN {[f |-> HalfSplit(Retained), shed |-> {}]}
  ELSE {[f |-> Split(Retained), shed |-> {e \in Shed(Retained) : e[1] \in CronKeys}]}

\* The owner and the lease of a finished record are never read.
Pending(k, owner, expires) ==
  [id |-> appended + 1, key |-> k, status |-> "pending", at |-> now, owner |-> owner, expires |-> expires]
Finished(k, status) == [Pending(k, None, 0) EXCEPT !.status = status]
Delivering(k) == {p \in Pids : call[p].key = k /\ call[p].pc # "idle"}
AppendRecord(r, fault, excuse) ==
  /\ appended < MaxRecords
  /\ \E x \in Compacted(fault) :
       /\ journal' = Append(x.f.journal, r) /\ segments' = x.f.segments
       /\ excused' = excused \cup x.shed \cup excuse
  /\ appended' = appended + 1
-----------------------------------------------------------------------------
(* TriggerRunner.run *)

\* A claim's lease is clamped.
Leases == 1..MaxLease

Trouble == trouble < MaxTrouble /\ trouble' = trouble + 1
\* A claim that ended a whole window ago no longer keeps its key.
Outlived(k) ==
  IF \E p \in Delivering(k) : call[p].expires + Window < now THEN {<<k, "outlived">>} ELSE {}
\* A cron key is requested in its minute only.
Requestable(k) == k \in StableKeys \/ k = now
Deliverable(k) == ~Blocks(FindLatest(k))

Claim(p, k, lease) ==
  /\ p \in alive /\ call[p].pc = "idle" /\ Requestable(k) /\ Deliverable(k)
  /\ \/ AppendRecord(Pending(k, p, now + lease), FALSE, Outlived(k)) /\ UNCHANGED trouble
     \/ CompactionDue /\ AppendRecord(Pending(k, p, now + lease), TRUE, Outlived(k)) /\ Trouble
  /\ call' = [call EXCEPT ![p] = [pc |-> "deliver", key |-> k, since |-> now,
                                  expires |-> now + lease, ok |-> FALSE]]
  /\ UNCHANGED <<now, alive, lastOK>>

\* The authority does not resolve, or the request escalates.
Reject(k) ==
  /\ alive # {} /\ Requestable(k) /\ Deliverable(k)
  /\ AppendRecord(Finished(k, "rejected"), FALSE, Outlived(k))
  /\ UNCHANGED <<now, alive, call, lastOK, trouble>>

\* The delivery's effect takes place, or it throws before it does.
Deliver(p) ==
  /\ call[p].pc = "deliver"
  /\ \E ok \in BOOLEAN :
       /\ call' = [call EXCEPT ![p].pc = "settle", ![p].ok = ok]
       /\ lastOK' = IF ok THEN [lastOK EXCEPT ![call[p].key] = now] ELSE lastOK
  /\ UNCHANGED <<now, store, alive, excused, trouble>>

Settle(p) ==
  LET k == call[p].key
      outcome == IF call[p].ok THEN "delivered" ELSE "failed"
  IN /\ call[p].pc = "settle"
     /\ AppendRecord(Finished(k, outcome), FALSE, {})
     /\ call' = [call EXCEPT ![p] = NoCall]
     /\ UNCHANGED <<now, alive, lastOK, trouble>>

\* A success that leaves no receipt.
Loose(p) == IF call[p].ok THEN {<<call[p].key, "loose">>} ELSE {}
\* appendOutcomeRecord: a receipt that cannot be written is only logged.
SettleUnwritten(p) ==
  /\ call[p].pc = "settle" /\ Trouble
  /\ call' = [call EXCEPT ![p] = NoCall]
  /\ excused' = excused \cup Loose(p)
  /\ UNCHANGED <<now, store, alive, lastOK>>
\* The lock times out: a delivered outcome is recorded as failed, a failed one
\* throws to the caller and leaves the claim.
LockTimeout(p) ==
  /\ call[p].pc = "settle" /\ Trouble
  /\ call' = [call EXCEPT ![p] = IF call[p].ok THEN [@ EXCEPT !.ok = FALSE] ELSE NoCall]
  /\ excused' = excused \cup Loose(p)
  /\ UNCHANGED <<now, store, alive, lastOK>>
-----------------------------------------------------------------------------
(* The operator, processes and the clock *)

\* rotateTriggerStore: claims, recent cron receipts and the newest stable keys.
RotationKeep(n) ==
  LET window == DedupeWindow
      stable == {i \in window : ~InFlight(journal[i]) /\ ~IsMinuteScoped(journal[i])}
  IN {i \in window :
        \/ InFlight(journal[i])
        \/ IsMinuteScoped(journal[i]) /\ journal[i].at >= now - RecentCron
        \/ i \in stable /\ Cardinality({j \in stable : Older(i, j)}) < n}
Rotate(n) ==
  /\ journal # <<>>
  /\ LET keep == RotationKeep(n)
     IN /\ journal' = Split(keep).journal /\ segments' = Split(keep).segments
        /\ excused' = excused \cup Shed(keep)
  /\ UNCHANGED <<now, appended, alive, call, lastOK, trouble>>

\* A process dies: between two steps, or while it rewrites the journal.
Crash(p) ==
  /\ p \in alive /\ Trouble
  /\ alive' = alive \ {p}
  /\ \E x \in Compacted(FALSE) \cup Compacted(TRUE) :
       /\ journal' = x.f.journal /\ segments' = x.f.segments
       /\ excused' = excused \cup Loose(p) \cup x.shed
  /\ call' = [call EXCEPT ![p] = NoCall]
  /\ UNCHANGED <<now, appended, lastOK>>
\* Another process gets the pid.
Restart(p) ==
  /\ p \notin alive /\ alive' = alive \cup {p}
  /\ UNCHANGED <<now, store, call, lastOK, excused, trouble>>

Tick ==
  /\ now < MaxNow /\ \A p \in Pids : call[p].pc # "settle"
  /\ now' = now + 1
  /\ UNCHANGED <<store, alive, call, lastOK, excused, trouble>>

Next ==
  \/ \E p \in Pids :
       \/ \E k \in Keys, lease \in Leases : Claim(p, k, lease)
       \/ Deliver(p) \/ Settle(p) \/ SettleUnwritten(p) \/ LockTimeout(p)
       \/ Crash(p) \/ Restart(p)
  \/ \E k \in Keys : Reject(k)
  \/ \E n \in 0..KeepStable : Rotate(n)
  \/ Tick
Spec == Init /\ [][Next]_vars
-----------------------------------------------------------------------------
TypeOK ==
  /\ now \in 0..MaxNow /\ appended \in 0..MaxRecords /\ trouble \in 0..MaxTrouble
  /\ journal \in Seq(Receipts)
  /\ \A i \in DOMAIN journal :
       /\ journal[i].id \in 1..appended /\ journal[i].at \in 0..now
       /\ journal[i].expires \in 0..(now + MaxLease)
  /\ segments \subseteq 1..appended /\ alive \subseteq Pids
  /\ excused \subseteq Keys \X {"shed", "loose", "outlived"}
  /\ \A p \in Pids : call[p].pc \in {"idle", "deliver", "settle"} /\ (call[p].pc # "idle" => p \in alive)

\* "A crash in between leaves duplicates at worst, never a gap": every record is
\* in the live journal or in a segment, whatever rewrite failed or died.
NothingLost == 1..appended \subseteq segments \cup {journal[i].id : i \in DOMAIN journal}

\* Two deliveries of one key are under way together only when a claim's lease
\* had ended a whole dedupe window before another run began: until then a live
\* owner keeps its key, past every rewrite and every read cutoff.
NoOverlap ==
  \A p, q \in Pids :
    p # q /\ call[p].pc # "idle" /\ call[q].pc # "idle" /\ call[p].key = call[q].key =>
      <<call[p].key, "outlived">> \in excused

Excused(k) == \E e \in excused : e[1] = k
\* An effect is repeated inside the window only where the success left no
\* receipt, its receipt was shed, or a claim outlived the window.
EffectNotRepeated ==
  [][\A p \in Pids :
       LET k == call[p].key
       IN call[p].pc = "deliver" /\ call'[p].ok /\ lastOK[k] # None =>
            lastOK[k] < now - Window \/ Excused(k)]_vars
=============================================================================
