-------------------------- MODULE ApprovalLifecycle --------------------------
(***************************************************************************)
(* Approval requests of libs/core/governance: decision, expiry,            *)
(* cancellation and revocation (approval-store.ts, approval-revocation.ts),*)
(* the veto window that turns silence into consent (approval-veto-window), *)
(* the durable apply claim (approval-apply-claim.ts) and the effect slot   *)
(* that human approvals and charter permits share (human-execution.ts,     *)
(* delegated-execution.ts, execution-claim-fence.ts).                      *)
(*                                                                         *)
(* Every transition of a record runs under the record's lock on a fresh    *)
(* read, so it is one step; that the lock excludes is FileLock's theorem.  *)
(* What happens between two such steps interleaves.  All requests of the   *)
(* model authorize the same effect.  A request's route says which consumer *)
(* serves it:                                                              *)
(*   exec     a pipeline step, under the execution-identity lock           *)
(*   secret   a secret mutation, under the lock of its service             *)
(*   apply    a caller of claimApprovalApply that takes no other lock      *)
(*   consume  a caller of consumeApprovalWithin                            *)
(*   steer    the decision itself starts the effect                        *)
(* Who may decide or revoke, separation of duties, assurance levels and    *)
(* the event log are left out.  Time is counted in minutes.                *)
(***************************************************************************)
EXTENDS Integers, FiniteSets

CONSTANTS
  Procs,        \* worker processes
  Setups,       \* the sets of requests to try: functions from ids to kinds
  None,
  MaxTime,
  Window,       \* windowMinutes of the veto window
  Deadline,     \* deliveryDeadlineAt
  MaxScan       \* MAX_SCAN_MINUTES

\* A kind also has the roles of an any_of workflow, none without one, and the
\* set of its active minutes.
Routes == {"exec", "secret", "apply", "consume", "steer"}
ASSUME ApprovalAssumption ==
  /\ MaxTime \in Nat /\ Window \in Nat \ {0} /\ Deadline \in Nat /\ MaxScan \in Nat
  /\ None \notin Procs \cup {"success", "failed", "policy"}
  /\ \A s \in Setups :
       /\ None \notin DOMAIN s
       /\ \A r \in DOMAIN s :
            /\ s[r].route \in Routes /\ s[r].veto \in {"none", "window", "shadow"}
            /\ s[r].expires \in Nat
            \* A steering request has no workflow.
            /\ s[r].route = "steer" => s[r].roles = {}
       \* Only pipeline steps compare the claims of different requests.
       /\ \/ \A r \in DOMAIN s : s[r].route = "exec"
          \/ \A q, r \in DOMAIN s : q = r

VARIABLES
  kind,      \* the requests, fixed
  rec,       \* their records
  permit,    \* the charter's permit for the same effect
  now, halted,
  tick,      \* tickVetoWindows: the time it read and the requests it has left
  slotLock,  \* holder of the execution-identity lock, or of the service lock
  w,         \* workers
  steering,  \* background execution of an approved steering request
  runs       \* how often the effect was started

vars == <<kind, rec, permit, now, halted, tick, slotLock, w, steering, runs>>
Requests == DOMAIN kind
Expired(r) == kind[r].expires <= now
Decided == {"approved", "rejected", "applied", "failed"}
Idle == [pc |-> "idle", req |-> None, snap |-> None]

NewRecord(r) ==
  [status |-> "pending", by |-> None, roles |-> [x \in kind[r].roles |-> "pending"],
   claim |-> None, result |-> None, consumed |-> FALSE, revoked |-> FALSE,
   delivered |-> None, fallback |-> FALSE, shadowElapsed |-> FALSE]

Init ==
  /\ kind \in Setups
  /\ rec = [r \in Requests |-> NewRecord(r)]
  /\ permit = "none"
  /\ now = 0 /\ halted = FALSE
  /\ tick = [now |-> 0, todo |-> {}]
  /\ slotLock = None
  /\ w = [p \in Procs |-> Idle]
  /\ steering = "none"
  /\ runs = 0
-----------------------------------------------------------------------------
(* Decision, expiry, cancellation, revocation *)

Put(r, record) == rec' = [rec EXCEPT ![r] = record]

awaitingOtherRoles(r) == \E x \in DOMAIN rec[r].roles : rec[r].roles[x] = "pending"
\* Mutant: a settled record is decided again.
Decidable_Again(r) == rec[r].status \in {"pending"} \cup Decided
Decidable(r) ==
  \/ rec[r].status = "pending"
  \/ rec[r].status \in Decided /\ awaitingOtherRoles(r)

\* decideApprovalRequestUnlocked.  Without a role the decision answers for all
\* that are pending; the status is always the last decision's.
DecidedRecord(r, d, role, by) ==
  [rec[r] EXCEPT !.status = d, !.by = by,
     !.roles = [x \in DOMAIN @ |->
                  IF x = role \/ (role = None /\ @[x] = "pending") THEN d ELSE @[x]]]
decide(r, d, role, by) ==
  /\ Decidable(r)
  /\ IF rec[r].status = "pending" /\ Expired(r)
     THEN Put(r, [rec[r] EXCEPT !.status = "expired"]) /\ UNCHANGED steering
     ELSE /\ Put(r, DecidedRecord(r, d, role, by))
          \* An event that cannot be appended ends the call before it gets here.
          /\ steering' \in IF kind[r].route = "steer" /\ d = "approved"
                           THEN {"scheduled", steering} ELSE {steering}

\* The decider answers for a role of the workflow, for another role or for all.
Answers(r) == kind[r].roles \cup {"other", None}
Decide(r, d, role) ==
  /\ role \in Answers(r)
  /\ decide(r, d, role, "human")
  /\ UNCHANGED <<kind, permit, now, halted, tick, slotLock, w, runs>>

\* expireApprovalRequest and cancelApprovalRequest, for whatever reason.
Withdraw(r) ==
  /\ rec[r].status = "pending"
  /\ \E s \in {"expired", "cancelled"} : Put(r, [rec[r] EXCEPT !.status = s])
  /\ UNCHANGED <<kind, permit, now, halted, tick, slotLock, w, steering, runs>>

\* Mutant: a claim does not stop the revocation.
Revocable_Claimed(r) == rec[r].status = "approved" /\ ~rec[r].revoked /\ ~rec[r].consumed
Revocable(r) ==
  /\ rec[r].status = "approved" /\ ~rec[r].revoked
  /\ rec[r].claim = None /\ rec[r].result = None
  /\ ~rec[r].consumed
  /\ kind[r].route # "steer"
Revoke(r) ==
  /\ Revocable(r)
  /\ Put(r, [rec[r] EXCEPT !.revoked = TRUE])
  /\ UNCHANGED <<kind, permit, now, halted, tick, slotLock, w, steering, runs>>
-----------------------------------------------------------------------------
(* Veto window *)

\* computeVetoDeadline: scan minute by minute, count the active ones.  The
\* window proceeds at the first of the deadlines.
activeMinutes(r, from, to) == Cardinality({m \in from..(to - 1) : m \in kind[r].active})
Deadlines(r, from) == {t \in from..(from + MaxScan) : activeMinutes(r, from, t) >= Window}
\* Mutant: the minutes outside the active hours count.
Proceeds_WallClock(r, at) == rec[r].delivered + Window <= at
Proceeds(r, at) == \E t \in Deadlines(r, rec[r].delivered) : t <= at

evaluateVetoWindow(r, at) ==
  IF rec[r].fallback THEN "undelivered"
  ELSE IF rec[r].delivered = None
  THEN IF Deadline <= at THEN "undelivered" ELSE "awaiting_delivery"
  ELSE IF ~Proceeds(r, at) THEN "counting"
  ELSE IF kind[r].veto = "shadow" THEN "elapsed_shadow" ELSE "elapsed"

\* markApprovalNotificationDelivered: the receipt carries the time of the
\* delivery and may arrive later.  A window that never fits falls back too.
Deliver(r, at) ==
  /\ kind[r].veto # "none" /\ rec[r].status = "pending" /\ rec[r].delivered = None
  /\ Put(r, IF evaluateVetoWindow(r, at) = "undelivered"
            THEN [rec[r] EXCEPT !.fallback = TRUE]
            ELSE [rec[r] EXCEPT !.delivered = at, !.fallback = Deadlines(r, at) = {}])
  /\ UNCHANGED <<kind, permit, now, halted, tick, slotLock, w, steering, runs>>

\* tickVetoWindows: the halt, the time and the list are read once; each record
\* listed is then looked at again under its lock.
TickStart ==
  /\ ~halted /\ tick.todo = {}
  /\ tick' = [now |-> now,
              todo |-> {r \in Requests :
                          /\ kind[r].veto # "none" /\ rec[r].status = "pending"
                          /\ evaluateVetoWindow(r, now) \in {"undelivered", "elapsed", "elapsed_shadow"}}]
  /\ tick'.todo # {}
  /\ UNCHANGED <<kind, rec, permit, now, halted, slotLock, w, steering, runs>>

StillPending(r) == rec[r].status = "pending"
TickRecord(r) ==
  /\ r \in tick.todo
  /\ tick' = [tick EXCEPT !.todo = @ \ {r}]
  /\ LET state == evaluateVetoWindow(r, tick.now)
     IN \/ /\ ~StillPending(r) \/ state \in {"counting", "awaiting_delivery"}
           /\ UNCHANGED <<rec, steering>>
        \/ /\ StillPending(r) /\ state = "undelivered"
           /\ Put(r, [rec[r] EXCEPT !.fallback = TRUE]) /\ UNCHANGED steering
        \/ /\ StillPending(r) /\ state = "elapsed_shadow"
           /\ Put(r, [rec[r] EXCEPT !.shadowElapsed = TRUE]) /\ UNCHANGED steering
        \/ StillPending(r) /\ state = "elapsed" /\ decide(r, "approved", None, "policy")
  /\ UNCHANGED <<kind, permit, now, halted, slotLock, w, runs>>

SetHalt ==
  /\ halted' \in BOOLEAN
  /\ UNCHANGED <<kind, rec, permit, now, tick, slotLock, w, steering, runs>>
-----------------------------------------------------------------------------
(* Workers that turn an approved record into the effect *)

Locking(r) == kind[r].route \in {"exec", "secret"}
Goto(p, pc) == w' = [w EXCEPT ![p].pc = pc]
Stop(p) ==
  /\ w' = [w EXCEPT ![p] = Idle]
  /\ slotLock' = IF slotLock = p THEN None ELSE slotLock

\* isDelegatedExecutionReplayBlocked and assertNoHumanClaim.
\* Mutant: only the request at hand is looked at.
SlotFree_Own(r) == rec[r].claim = None /\ rec[r].result = None
SlotFree(r) ==
  /\ permit \in {"none", "issued"}
  /\ \A q \in Requests : rec[q].claim = None /\ rec[q].result = None

\* The consumer reads the record, under its lock if it has one.
Check(p, r) ==
  /\ w[p].pc = "idle"
  /\ kind[r].route \in {"exec", "secret", "apply"}
  /\ Locking(r) => slotLock = None
  /\ kind[r].route = "exec" => SlotFree(r)
  /\ w' = [w EXCEPT ![p] = [pc |-> "checked", req |-> r, snap |-> rec[r]]]
  /\ slotLock' = IF Locking(r) THEN p ELSE slotLock
  /\ UNCHANGED <<kind, rec, permit, now, halted, tick, steering, runs>>

\* claimApprovalApply.
\* Mutant: the record is not compared with the one that was read.
Claimable_AnySnapshot(p, r) == rec[r].status = "approved"
Claimable(p, r) ==
  /\ w[p].snap = rec[r]
  /\ rec[r].status = "approved" /\ ~Expired(r)
  /\ rec[r].claim = None /\ rec[r].result = None
  /\ ~rec[r].revoked
Claim(p) ==
  /\ w[p].pc = "checked"
  /\ LET r == w[p].req
     IN /\ Claimable(p, r)
        /\ Put(r, [rec[r] EXCEPT !.claim = p])
        \* Written, then the event fails: the claim stays and the effect is off.
        /\ \/ w' = [w EXCEPT ![p] = [pc |-> "claimed", req |-> r, snap |-> None]]
           \/ w' = [w EXCEPT ![p] = Idle]
        /\ slotLock' = IF slotLock = p /\ (kind[r].route = "exec" \/ w'[p] = Idle)
                       THEN None ELSE slotLock
  /\ UNCHANGED <<kind, permit, now, halted, tick, steering, runs>>

\* The claim is refused, or the lock or the file system fails before it.
Refused(p) ==
  /\ w[p].pc \in {"checked", "authorized"}
  /\ Stop(p)
  /\ UNCHANGED <<kind, rec, permit, now, halted, tick, steering, runs>>

\* consumeApprovalWithin: checked and consumed in one step, before the effect.
Consumable(r) ==
  /\ rec[r].status = "approved"
  /\ ~rec[r].consumed /\ rec[r].claim = None /\ rec[r].result = None
  /\ ~rec[r].revoked
Consume(p, r) ==
  /\ w[p].pc = "idle" /\ kind[r].route = "consume"
  /\ Consumable(r)
  /\ Put(r, [rec[r] EXCEPT !.consumed = TRUE])
  /\ w' = [w EXCEPT ![p] = [pc |-> "admitted", req |-> r, snap |-> None]]
  /\ UNCHANGED <<kind, permit, now, halted, tick, slotLock, steering, runs>>

\* The last look before the effect: `verify' of human-execution.ts; the other
\* consumers start the effect on the claim alone.
Admit(p) ==
  /\ w[p].pc = "claimed"
  /\ LET r == w[p].req
     IN \/ kind[r].route # "exec" /\ Goto(p, "admitted")
        \/ /\ kind[r].route = "exec"
           /\ rec[r].status = "approved" /\ rec[r].result = None /\ ~Expired(r)
           /\ rec[r].claim = p /\ ~rec[r].revoked
           /\ Goto(p, "admitted")
  /\ UNCHANGED <<kind, rec, permit, now, halted, tick, slotLock, steering, runs>>

Effect(p) ==
  /\ w[p].pc \in {"admitted", "verified"}
  /\ runs' = runs + 1
  /\ Goto(p, IF w[p].pc = "admitted" THEN "ran" ELSE "executed")
  /\ UNCHANGED <<kind, rec, permit, now, halted, tick, slotLock, steering>>

\* recordApprovalApplyResult with the claim's id, after the effect.
ResultRecord(r, result) ==
  [rec[r] EXCEPT !.result = result,
     !.status = IF kind[r].route # "secret" THEN @
                ELSE IF result = "success" THEN "applied" ELSE "failed"]
Record(p) ==
  /\ w[p].pc = "ran" /\ kind[w[p].req].route # "consume"
  /\ rec[w[p].req].claim = p /\ rec[w[p].req].result = None
  /\ \E result \in {"success", "failed"} :
       /\ result = "failed" => kind[w[p].req].route # "exec"
       /\ Put(w[p].req, ResultRecord(w[p].req, result))
  /\ Stop(p)
  /\ UNCHANGED <<kind, permit, now, halted, tick, steering, runs>>

\* The worker's process dies, or an exception ends the call, at any point.
Die(p) ==
  /\ w[p].pc \in {"claimed", "admitted", "ran", "executing", "verified", "executed"}
  /\ Stop(p)
  /\ UNCHANGED <<kind, rec, permit, now, halted, tick, steering, runs>>
-----------------------------------------------------------------------------
(* Charter permits: authorizeDelegatedExecution and runDelegatedExecution *)

HumanClaimed == \E q \in Requests : rec[q].claim # None \/ rec[q].result # None
ExecSlot == \E r \in Requests : kind[r].route = "exec"

\* The budget is reserved, then the permit is issued; dying in between leaves
\* a reservation that blocks every later attempt.
Authorize(p) ==
  /\ ExecSlot /\ w[p].pc = "idle" /\ slotLock = None
  /\ ~HumanClaimed /\ permit \in {"none", "issued"}
  /\ \/ permit' = "issued" /\ w' = [w EXCEPT ![p].pc = "authorized"]
     \/ permit = "none" /\ permit' = "reserved" /\ UNCHANGED w
  /\ UNCHANGED <<kind, rec, now, halted, tick, slotLock, steering, runs>>

PermitClaimable == permit = "issued" /\ ~HumanClaimed
ClaimPermit(p) ==
  /\ w[p].pc = "authorized" /\ slotLock = None
  /\ PermitClaimable
  /\ permit' = "executing"
  /\ Goto(p, "executing")
  /\ UNCHANGED <<kind, rec, now, halted, tick, slotLock, steering, runs>>

\* verifyDelegatedExecution right before the effect; a charter that changed
\* makes the outcome unknown although nothing ran.
VerifyPermit(p) ==
  /\ w[p].pc = "executing"
  /\ \/ Goto(p, "verified") /\ UNCHANGED permit
     \/ Goto(p, "idle") /\ permit' = "unknown"
  /\ UNCHANGED <<kind, rec, now, halted, tick, slotLock, steering, runs>>

Settle(p) ==
  /\ w[p].pc = "executed"
  /\ permit' \in {"succeeded", "unknown"}
  /\ Goto(p, "idle")
  /\ UNCHANGED <<kind, rec, now, halted, tick, slotLock, steering, runs>>
-----------------------------------------------------------------------------
(* scheduleSteeringApprovalExecution: in memory, after the decision *)

Steer ==
  /\ steering = "scheduled" /\ steering' = "ran" /\ runs' = runs + 1
  /\ UNCHANGED <<kind, rec, permit, now, halted, tick, slotLock, w>>
SteerRecord(r) ==
  /\ kind[r].route = "steer" /\ steering = "ran" /\ steering' = "recorded"
  /\ \E result \in {"success", "failed"} : Put(r, [rec[r] EXCEPT !.result = result])
  /\ UNCHANGED <<kind, permit, now, halted, tick, slotLock, w, runs>>
\* The process that decided, or that ticks, dies.
DeciderDies ==
  /\ steering \in {"scheduled", "ran"} \/ tick.todo # {}
  /\ steering' = IF steering \in {"scheduled", "ran"} THEN "lost" ELSE steering
  /\ tick' = [tick EXCEPT !.todo = {}]
  /\ UNCHANGED <<kind, rec, permit, now, halted, slotLock, w, runs>>

Advance ==
  /\ now < MaxTime /\ now' = now + 1
  /\ UNCHANGED <<kind, rec, permit, halted, tick, slotLock, w, steering, runs>>

Next ==
  \/ Advance \/ SetHalt \/ TickStart \/ Steer \/ DeciderDies
  \/ \E r \in Requests :
       \/ \E d \in {"approved", "rejected"}, role \in Answers(r) : Decide(r, d, role)
       \/ \E at \in 0..now : Deliver(r, at)
       \/ Withdraw(r) \/ Revoke(r) \/ TickRecord(r) \/ SteerRecord(r)
       \/ \E p \in Procs : Check(p, r) \/ Consume(p, r)
  \/ \E p \in Procs :
       \/ Claim(p) \/ Refused(p) \/ Admit(p) \/ Effect(p) \/ Record(p) \/ Die(p)
       \/ Authorize(p) \/ ClaimPermit(p) \/ VerifyPermit(p) \/ Settle(p)
Spec == Init /\ [][Next]_vars
-----------------------------------------------------------------------------
WorkerPcs == {"idle", "checked", "claimed", "admitted", "ran",
              "authorized", "executing", "verified", "executed"}
Statuses == Decided \cup {"pending", "cancelled", "expired"}
TypeOK ==
  /\ now \in 0..MaxTime /\ halted \in BOOLEAN /\ runs \in Nat
  /\ permit \in {"none", "reserved", "issued", "executing", "succeeded", "unknown"}
  /\ tick.todo \subseteq Requests /\ tick.now \in 0..MaxTime
  /\ slotLock \in Procs \cup {None}
  /\ steering \in {"none", "scheduled", "ran", "recorded", "lost"}
  /\ \A p \in Procs : w[p].pc \in WorkerPcs /\ w[p].req \in Requests \cup {None}
  /\ \A r \in Requests :
       /\ rec[r].status \in Statuses
       /\ rec[r].claim \in Procs \cup {None}
       /\ rec[r].result \in {None, "success", "failed"}
       /\ rec[r].delivered \in {None} \cup 0..MaxTime

\* The effect is claimed durably before it starts and starts at most once,
\* although two approvals and a charter permit may all authorize it, workers
\* die between claim, effect and receipt, and others try again.
SlotClaimed ==
  \/ permit \in {"executing", "succeeded", "unknown"}
  \/ \E r \in Requests :
       \/ rec[r].claim # None \/ rec[r].consumed
       \/ kind[r].route = "steer" /\ rec[r].status = "approved"
Slot == INSTANCE EffectSlot WITH claimed <- SlotClaimed
ImplementsEffectSlot == Slot!Spec

\* A worker admitted to the effect still has its authority when the effect
\* starts: no cancellation, expiry, revocation or decision slipped in since it
\* looked.  (A workflow with roles left to answer can still be decided.)
AdmittedIsAuthorized ==
  \A p \in Procs : w[p].pc = "admitted" =>
    LET r == w[p].req
    IN /\ ~rec[r].revoked
       /\ rec[r].claim = p \/ rec[r].consumed
       /\ kind[r].roles = {} => rec[r].status = "approved"

\* A revoked approval never authorized the effect, neither before the
\* revocation nor after it.
RevokedNeverUsed ==
  \A r \in Requests : rec[r].revoked =>
    /\ rec[r].claim = None /\ rec[r].result = None /\ ~rec[r].consumed
    /\ \A p \in Procs : w[p].req = r => w[p].pc = "checked"

\* A receipt of success means the effect ran, whoever wrote it and whatever
\* died in between.
SuccessMeansRan ==
  permit = "succeeded" \/ (\E r \in Requests : rec[r].result = "success") => runs = 1

\* Silence is consent only if the notification was delivered before the
\* deadline and Window active minutes have passed since, for a window that is
\* not a shadow; a late receipt or a record decided while the tick worked
\* through its list never makes it so.
ConsentIsSound ==
  \A r \in Requests : rec[r].by = "policy" =>
    /\ kind[r].veto = "window" /\ ~rec[r].fallback
    /\ rec[r].delivered # None /\ rec[r].delivered < Deadline
    /\ activeMinutes(r, rec[r].delivered, now) >= Window

\* What is settled stays settled: only a claimed secret mutation moves on, to
\* the outcome of its own claim, and is still approved then.  (Without that a
\* role that had not answered may have rejected it since the claim.)
Settled(r) ==
  \/ rec[r].status \in {"cancelled", "expired"}
  \/ rec[r].status \in Decided /\ ~awaitingOtherRoles(r)
StatusStays(r) == rec'[r].status = rec[r].status
Concluded(r) ==
  /\ rec[r].claim # None
  /\ kind[r].roles = {} => rec[r].status = "approved"
  /\ rec'[r].status \in {"applied", "failed"}
SettledStays ==
  [][\A r \in Requests : Settled(r) => StatusStays(r) \/ Concluded(r)]_vars
=============================================================================
