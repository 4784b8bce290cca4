---------------------------- MODULE MissionLease ----------------------------
(***************************************************************************)
(* Mission leases with follower suspension                                 *)
(* (libs/core/mission/mission-lease.ts) for one resource.  Several lease   *)
(* managers (processes) share a durable fenced record through a lease      *)
(* backend; each also keeps a map of the leases it has seen, a slot with   *)
(* the current generation, and the contenders it has suspended.            *)
(*                                                                         *)
(* Every operation runs under the backend's lock, so it is one step; the   *)
(* synchronous and the asynchronous surface have the same bodies.  A lease *)
(* id is lease-<resource>-<fence>, so leases are indexed by their fence.   *)
(* Malformed arguments, rejected before any state is read, are left out.   *)
(*                                                                         *)
(* Times are relative to the clock: `left' is expires_at_ms - now.  The    *)
(* caller passes its own `now', and an asynchronous call may have waited   *)
(* for the lock, so a call sees the clock of `lag' ticks ago, lag <= Skew. *)
(* What lapsed more than Skew ago is lapsed for everybody.  Released is    *)
(* the left of a record whose expires_at_ms was set to 0.                  *)
(*                                                                         *)
(* The write of the record is the last step of an operation and may throw: *)
(* the manager's slot, rows and contenders keep what was changed before    *)
(* it, the record stays as it was and the caller is told nothing.          *)
(***************************************************************************)
EXTENDS Integers, FiniteSets

CONSTANTS
  Managers, Holders, NoOne,
  TTL,           \* ttlMs and extendMs
  Skew,          \* how far a queued call's `now' may lag
  MaxFence,      \* bound on generations
  MaxFailures,   \* bound on writes of the record that throw
  StaleRelease   \* may a release end a record that is not the released lease's?

ASSUME MissionAssumption ==
  /\ NoOne \notin Holders
  /\ TTL \in Nat \ {0} /\ Skew \in Nat /\ MaxFence \in Nat /\ MaxFailures \in Nat
  /\ StaleRelease \in BOOLEAN

VARIABLES
  durable,      \* the backend's record: owner, fence, left (fence 0: none)
  slot,         \* per manager: known, fence, cur (the latest lease seen)
  leases,       \* per manager and fence: holder, status, left
  contenders,   \* per manager
  grant,        \* what each holder was last told it holds: fence, left (0 once
                \* it lapsed or was given back)
  spoiled,      \* history: the generations whose takeover failed to write
  failures      \* writes that threw

vars == <<durable, slot, leases, contenders, grant, spoiled, failures>>

Fences == 1..MaxFence
Released == -Skew - 1
NoGrant == [fence |-> 0, left |-> 0]
Told(f, left) == IF left > 0 THEN [fence |-> f, left |-> left] ELSE NoGrant
NoLease == [holder |-> NoOne, status |-> "none", left |-> Released]
Larger(a, b) == IF a > b THEN a ELSE b
Smaller(a, b) == IF a < b THEN a ELSE b
Lags == 0..Skew
Times == Released..TTL

Init ==
  /\ durable = [owner |-> NoOne, fence |-> 0, left |-> Released]
  /\ slot = [m \in Managers |-> [known |-> FALSE, fence |-> 0, cur |-> 0]]
  /\ leases = [m \in Managers |-> [f \in Fences |-> NoLease]]
  /\ contenders = [m \in Managers |-> {}]
  /\ grant = [h \in Holders |-> NoGrant]
  /\ spoiled = {} /\ failures = 0
-----------------------------------------------------------------------------
\* Mutant: a lease in its last millisecond counts as lapsed.
IsLive_OffByOne(left, lag) == left + lag > 1
IsLive(left, lag) == left + lag > 0

\* liveLeaseOf: the durable record decides.  A live one is copied into the
\* manager (hydrateFromDurable), a lapsed or released one invalidates the
\* manager's own row of that or an older generation.
DurableLive(lag) == IsLive(durable.left, lag)
Hydrated(m) ==
  [leases[m] EXCEPT ![durable.fence] =
     [holder |-> durable.owner, status |-> "active", left |-> durable.left]]
Invalidated(m) ==
  LET c == slot[m].cur
  IN IF c # 0 /\ c <= durable.fence /\ leases[m][c].status = "active"
     THEN [leases[m] EXCEPT
             ![c].left = Smaller(@, durable.left),
             ![c].status = IF durable.left = Released THEN "released" ELSE @]
     ELSE leases[m]
Rows(m, lag) == IF DurableLive(lag) THEN Hydrated(m)
              ELSE IF durable.fence > 0 THEN Invalidated(m) ELSE leases[m]
SlotAfter(m, lag) ==
  [known |-> slot[m].known \/ DurableLive(lag),
   fence |-> IF slot[m].known \/ DurableLive(lag)
             THEN Larger(slot[m].fence, durable.fence) ELSE slot[m].fence,
   cur   |-> IF DurableLive(lag) THEN durable.fence ELSE slot[m].cur]

\* ... and without a record the manager's own current row does: one whose
\* write failed.
LocalLive(m, lag) ==
  LET c == slot[m].cur
  IN durable.fence = 0 /\ c # 0 /\ leases[m][c].status = "active"
     /\ IsLive(leases[m][c].left, lag)
Live(m, lag) == DurableLive(lag) \/ LocalLive(m, lag)
LiveLease(m, lag) ==
  IF DurableLive(lag) THEN durable
  ELSE LET c == slot[m].cur
       IN [owner |-> leases[m][c].holder, fence |-> c, left |-> leases[m][c].left]

\* input.now + ttlMs, input.now + extendMs.
Deadline(lag) == TTL - lag

Refresh(m, lag) ==
  /\ leases' = [leases EXCEPT ![m] = Rows(m, lag)]
  /\ slot' = [slot EXCEPT ![m] = SlotAfter(m, lag)]

\* getHolder, getResourceLease, listFollowers, isSuspended.
Read(m, lag) ==
  /\ Refresh(m, lag)
  /\ UNCHANGED <<durable, contenders, grant, spoiled, failures>>

\* persistLive, persistReleased: the record, told to the holder as `told';
\* or the write throws.
Persisted(record, h, told) ==
  /\ durable' = record
  /\ grant' = [grant EXCEPT ![h] = told]
  /\ UNCHANGED failures
NotPersisted ==
  /\ failures < MaxFailures /\ failures' = failures + 1
  /\ UNCHANGED <<durable, grant>>

\* acquireLease, somebody else holds it: LEASE_SUSPENDED.
AcquireSuspended(m, h, lag) ==
  /\ Live(m, lag) /\ LiveLease(m, lag).owner # h
  /\ Refresh(m, lag)
  /\ contenders' = [contenders EXCEPT ![m] = @ \cup {h}]
  /\ UNCHANGED <<durable, grant, spoiled, failures>>

\* ... the same holder: idempotent, not extended.
AcquireAgain(m, h, lag) ==
  /\ Live(m, lag) /\ LiveLease(m, lag).owner = h
  /\ Refresh(m, lag)
  /\ grant' = [grant EXCEPT ![h] = Told(LiveLease(m, lag).fence, LiveLease(m, lag).left)]
  /\ UNCHANGED <<durable, contenders, spoiled, failures>>

\* ... the resource is free: the next generation.
\* Mutant: the manager counts generations from its own slot.
NextFence_Local(m) == slot[m].fence + 1
NextFence(m) == Larger(slot[m].fence, durable.fence) + 1
AcquireTakeover(m, h, lag) ==
  /\ ~Live(m, lag)
  /\ LET f == NextFence(m) IN
       /\ f \in Fences
       /\ leases' = [leases EXCEPT ![m] =
            [Rows(m, lag) EXCEPT ![f] =
               [holder |-> h, status |-> "active", left |-> Deadline(lag)]]]
       /\ slot' = [slot EXCEPT ![m] = [known |-> TRUE, fence |-> f, cur |-> f]]
       /\ \/ /\ Persisted([owner |-> h, fence |-> f, left |-> Deadline(lag)], h,
                          Told(f, Deadline(lag)))
             /\ UNCHANGED spoiled
          \/ NotPersisted /\ spoiled' = spoiled \cup {f}
  /\ contenders' = [contenders EXCEPT ![m] = @ \ {h}]

\* renewLease: refuses LEASE_SUPERSEDED, LEASE_RELEASED, LEASE_EXPIRED and
\* LEASE_NOT_HOLDER, after refreshing the durable view.  `stored' was taken out
\* of the map before the refresh: if that replaced the row (the current one was
\* not the durable generation and holder), stored is the row it replaced.
Detached(m, f, lag) ==
  LET c == slot[m].cur IN
    /\ DurableLive(lag) /\ durable.fence = f
    /\ ~(c = f /\ leases[m][f].holder = durable.owner /\ leases[m][f].status = "active")
Stored(m, f, lag) == IF Detached(m, f, lag) THEN leases[m][f] ELSE Rows(m, lag)[f]
\* Mutant: the checks read the manager's rows without refreshing them.
Renewable_NoRefresh(m, f, h, lag) ==
  LET row == leases[m][f] IN
    /\ slot[m].cur = f
    /\ row.status = "active" /\ row.left + lag > 0 /\ row.holder = h
Renewable(m, f, h, lag) ==
  LET row == Stored(m, f, lag) IN
    /\ SlotAfter(m, lag).cur = f
    /\ row.status = "active" /\ row.left + lag > 0 /\ row.holder = h
Renew(m, f, h, lag) ==
  /\ leases[m][f] # NoLease
  /\ slot' = [slot EXCEPT ![m] = SlotAfter(m, lag)]
  /\ \/ /\ Renewable(m, f, h, lag)
        /\ leases' = [leases EXCEPT ![m] =
             [Rows(m, lag) EXCEPT ![f].left =
                IF Detached(m, f, lag) THEN @ ELSE Deadline(lag)]]
        /\ \/ Persisted([owner |-> h, fence |-> f, left |-> Deadline(lag)], h,
                        Told(f, Deadline(lag)))
           \/ NotPersisted
     \/ /\ ~Renewable(m, f, h, lag)
        /\ leases' = [leases EXCEPT ![m] = Rows(m, lag)]
        /\ UNCHANGED <<durable, grant, failures>>
  /\ UNCHANGED <<contenders, spoiled>>

\* releaseLease: refuses LEASE_RELEASED and LEASE_NOT_HOLDER; the durable view
\* is not refreshed and the generation is not compared with the record.  It is
\* the record's own, or one that never reached it and nobody sees it live, when
\* StaleRelease is FALSE.
Releasable(m, f, h) == leases[m][f].status = "active" /\ leases[m][f].holder = h
EndsItsOwn(f) == durable.fence = f \/ (durable.fence < f /\ ~DurableLive(Skew))
Release(m, f, h) ==
  /\ StaleRelease \/ EndsItsOwn(f)
  /\ Releasable(m, f, h)
  /\ leases' = [leases EXCEPT ![m][f].status = "released"]
  /\ \/ Persisted([owner |-> h, fence |-> f, left |-> Released], h,
                  IF grant[h].fence = f THEN NoGrant ELSE grant[h])
     \/ NotPersisted
  /\ UNCHANGED <<slot, contenders, spoiled>>

\* suspendFollowers: refuses LEASE_NOT_FOUND; the slot is looked up before the
\* refresh that creates it.
SuspendRefused(m, lag) == ~(slot[m].known /\ Live(m, lag))
\* Mutant: the followers replace those already parked.
SuspendFollowers_Replaces(m, F, lag) ==
  /\ Refresh(m, lag)
  /\ contenders' = [contenders EXCEPT ![m] =
       IF SuspendRefused(m, lag) THEN @ ELSE F \ {LiveLease(m, lag).owner}]
  /\ UNCHANGED <<durable, grant, spoiled, failures>>
SuspendFollowers(m, F, lag) ==
  /\ Refresh(m, lag)
  /\ contenders' = [contenders EXCEPT ![m] =
       IF SuspendRefused(m, lag) THEN @ ELSE @ \cup (F \ {LiveLease(m, lag).owner})]
  /\ UNCHANGED <<durable, grant, spoiled, failures>>

Older(left) == IF left > -Skew THEN left - 1 ELSE left
Tick ==
  /\ durable' = [durable EXCEPT !.left = Older(@)]
  /\ leases' = [m \in Managers |-> [f \in Fences |->
                  [leases[m][f] EXCEPT !.left = Older(@)]]]
  /\ grant' = [h \in Holders |-> IF grant[h].left <= 1 THEN NoGrant
                                  ELSE [grant[h] EXCEPT !.left = @ - 1]]
  /\ UNCHANGED <<slot, contenders, spoiled, failures>>

Next ==
  \/ \E m \in Managers, h \in Holders, lag \in Lags :
       AcquireSuspended(m, h, lag) \/ AcquireAgain(m, h, lag) \/ AcquireTakeover(m, h, lag)
  \/ \E m \in Managers, h \in Holders, lag \in Lags, f \in Fences : Renew(m, f, h, lag)
  \/ \E m \in Managers, h \in Holders, f \in Fences : Release(m, f, h)
  \/ \E m \in Managers, lag \in Lags, h \in Holders : SuspendFollowers(m, {h}, lag)
  \/ \E m \in Managers, lag \in Lags : Read(m, lag)
  \/ Tick
Spec == Init /\ [][Next]_vars
-----------------------------------------------------------------------------
TypeOK ==
  /\ durable \in [owner : Holders \cup {NoOne}, fence : 0..MaxFence, left : Times]
  /\ slot \in [Managers -> [known : BOOLEAN, fence : 0..MaxFence, cur : 0..MaxFence]]
  /\ leases \in [Managers -> [Fences ->
       [holder : Holders \cup {NoOne}, status : {"none", "active", "released"}, left : Times]]]
  /\ contenders \in [Managers -> SUBSET Holders]
  /\ grant \in [Holders -> [fence : 0..MaxFence, left : 0..TTL]]
  /\ spoiled \subseteq Fences /\ failures \in 0..MaxFailures

\* "Monotonic per-resource generation; survives release/expiry": the durable
\* generation never goes back, through takeovers and releases of any manager.
FenceNeverRegresses == [][durable'.fence >= durable.fence]_vars

\* Of all holders that were told they hold the resource, gave nothing back and
\* have not lapsed, there is at most one, across managers: two need a generation
\* whose record failed to be written (acquireLease, persistLive), which another
\* manager gave out again or which was renewed over the newer record.
OneLiveHolder ==
  \A g, h \in Holders : grant[g].left > 0 /\ grant[h].left > 0 /\ g # h =>
    grant[g].fence \in spoiled \/ grant[h].fence \in spoiled

\* A generation that was released or superseded is never live again: only a
\* takeover with a newer fence follows it, whichever manager renews.
DeadGenerationStaysDead ==
  [][durable.left = Released => durable'.left = Released \/ durable'.fence > durable.fence]_vars

\* A follower parked on a manager stays registered until its own takeover there,
\* through every takeover by others; one that is taken off without winning the
\* record has met a failing write (acquireLease forgets it before persistLive).
FollowerKeptUntilItsTakeover ==
  [][\A m \in Managers : \A h \in contenders[m] \ contenders'[m] :
       LET f == slot'[m].cur IN
         /\ f > slot[m].fence /\ leases'[m][f].holder = h
         /\ (durable'.owner = h /\ durable'.fence = f) \/ f \in spoiled']_vars
=============================================================================
