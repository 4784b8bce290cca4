----------------------- MODULE ApprovalLifecycleProofs -----------------------
(***************************************************************************)
(* Proofs about ApprovalLifecycle: whatever requests, workers and bounds,  *)
(* an effect is started on an authority that still stands, never on a      *)
(* revoked approval, and every behaviour is one of EffectSlot, so that it  *)
(* starts at most once.  SlotInv is the inductive invariant: one conjunct  *)
(* per piece of state it ties to the others, one lemma per conjunct, one   *)
(* step per action.                                                        *)
(***************************************************************************)
EXTENDS ApprovalLifecycle, FiniteSetTheorems, TLAPS

\* Where a worker has a request at hand, where a permit, and where the effect
\* is its own.
Human == {"checked", "claimed", "admitted", "ran"}
Charter == {"authorized", "executing", "verified", "executed"}
Busy == {"claimed", "admitted", "ran", "executing", "verified", "executed"}
Spent == {"executing", "succeeded", "unknown"}
Routed == {"exec", "secret", "apply"}

RecordOf(r) ==
  [status : Statuses, by : {None, "human", "policy"},
   roles : [kind[r].roles -> Decided \cup {"pending"}],
   claim : Procs \cup {None}, result : {None, "success", "failed"},
   consumed : BOOLEAN, revoked : BOOLEAN, delivered : {None} \cup 0..MaxTime,
   fallback : BOOLEAN, shadowElapsed : BOOLEAN]
Worker(x) == [pc |-> x.pc, req |-> x.req, snap |-> x.snap]
RecTypes == rec = [r \in Requests |-> rec[r]] /\ \A r \in Requests : rec[r] \in RecordOf(r)
WorkerTypes ==
  /\ w = [p \in Procs |-> w[p]]
  /\ \A p \in Procs : w[p] = Worker(w[p]) /\ w[p].pc \in WorkerPcs /\ w[p].req \in Requests \cup {None}
Types ==
  /\ kind \in Setups /\ RecTypes /\ WorkerTypes
  /\ permit \in {"none", "reserved", "issued"} \cup Spent
  /\ slotLock \in Procs \cup {None}
  /\ steering \in {"none", "scheduled", "ran", "recorded", "lost"}
  /\ runs \in Nat
  /\ now \in 0..MaxTime /\ halted \in BOOLEAN
  /\ tick \in [now : 0..MaxTime, todo : SUBSET Requests]

\* What a worker holds at each place.
WorkerInv == \A p \in Procs :
  /\ w[p].pc \in Human <=> w[p].req # None
  /\ w[p].pc \in {"checked", "claimed"} => kind[w[p].req].route \in Routed
  /\ w[p].pc = "claimed" => rec[w[p].req].claim = p
  /\ w[p].pc \in {"admitted", "ran"} => rec[w[p].req].claim = p \/ rec[w[p].req].consumed
  /\ w[p].pc \in Charter => ExecSlot
  /\ w[p].pc \in {"executing", "verified", "executed"} => permit = "executing"

\* What the fields of a record say about each other.
RecordInv == \A r \in Requests :
  /\ rec[r].claim # None => kind[r].route \in Routed
  /\ rec[r].consumed => kind[r].route = "consume"
  /\ rec[r].result # None => rec[r].claim # None \/ kind[r].route = "steer"
  /\ rec[r].revoked => /\ kind[r].route # "steer" /\ ~rec[r].consumed
                       /\ rec[r].claim = None /\ rec[r].result = None

\* From the claim to the receipt the authority stands.
AuthorityInv == \A p \in Procs :
  w[p].pc \in {"claimed", "admitted", "ran"} =>
    /\ ~rec[w[p].req].revoked
    /\ kind[w[p].req].roles = {} => rec[w[p].req].status = "approved"

\* The slot has one owner: one worker, one claim, a claim or a permit.
OneOwner ==
  /\ \A p, q \in Procs : w[p].pc \in Busy /\ w[q].pc \in Busy => p = q
  /\ \A q, r \in Requests : rec[q].claim # None /\ rec[r].claim # None => q = r
  /\ permit # "none" => ExecSlot
  /\ permit \in Spent => \A r \in Requests : rec[r].claim = None
\* A pipeline step that passed its check under the lock finds the slot free.
LockInv == \A p \in Procs :
  w[p].pc = "checked" /\ kind[w[p].req].route = "exec" =>
    /\ slotLock = p
    /\ permit \in {"none", "issued"}
    /\ \A r \in Requests : rec[r].claim = None

SteerInv ==
  steering # "none" => \E r \in Requests : kind[r].route = "steer" /\ rec[r].status = "approved"

\* Who counts on the effect not having run, and who on its having run.
RunsInv ==
  /\ runs \in {0, 1} /\ (~SlotClaimed => runs = 0)
  /\ \A p \in Procs : /\ w[p].pc \in {"claimed", "admitted", "executing", "verified"} => runs = 0
                      /\ w[p].pc \in {"ran", "executed"} => runs = 1
  /\ steering = "scheduled" => runs = 0
  /\ steering \in {"ran", "recorded"} => runs = 1
  /\ permit = "succeeded" => runs = 1
  /\ \A r \in Requests : rec[r].result = "success" => runs = 1

SlotInv ==
  Types /\ WorkerInv /\ RecordInv /\ AuthorityInv /\ OneOwner /\ LockInv /\ SteerInv /\ RunsInv
-----------------------------------------------------------------------------
(* The setups, and the steps as the proofs see them *)

\* What the assumption says of the requests at hand.
Setting ==
  /\ None \notin Procs \cup Requests \cup {"success", "failed", "policy"}
  /\ \A r \in Requests : kind[r].route \in Routes /\ (kind[r].route = "steer" => kind[r].roles = {})
  /\ \/ \A r \in Requests : kind[r].route = "exec"
     \/ \A q, r \in Requests : q = r

\* A decision, a withdrawal, a delivery or the tick's work on one record: no
\* claim, receipt or revocation is touched, a settled status stays unless
\* roles are left to answer, and an approval may schedule a steering execution.
Answered(r) ==
  /\ rec' = [rec EXCEPT ![r] = rec'[r]]
  /\ rec'[r].claim = rec[r].claim /\ rec'[r].result = rec[r].result
  /\ rec'[r].consumed = rec[r].consumed /\ rec'[r].revoked = rec[r].revoked
  /\ kind[r].roles = {} /\ rec[r].status # "pending" => rec'[r].status = rec[r].status
  /\ \/ steering' = steering
     \/ /\ kind[r].route = "steer" /\ rec[r].status = "pending"
        /\ rec'[r].status = "approved" /\ steering' = "scheduled"
  /\ UNCHANGED <<kind, permit, slotLock, w, runs>>

\* Time, the halt, the tick's list, the death of its process.
Quiet ==
  /\ steering' \in {steering, "lost"} /\ (steering = "none" => steering' = "none")
  /\ UNCHANGED <<kind, rec, permit, slotLock, w, runs>>

Step ==
  \/ Quiet \/ Steer
  \/ \E r \in Requests : \/ Answered(r) \/ Revoke(r) \/ SteerRecord(r)
                         \/ \E p \in Procs : Check(p, r) \/ Consume(p, r)
  \/ \E p \in Procs : \/ Claim(p) \/ Refused(p) \/ Admit(p) \/ Effect(p) \/ Record(p) \/ Die(p)
                      \/ Authorize(p) \/ ClaimPermit(p) \/ VerifyPermit(p) \/ Settle(p)

\* Every set of requests to try is such a setting.
LEMMA SettingHolds == Types => Setting
BY ApprovalAssumption DEF Types, Setting, Requests

\* At the start nothing is claimed and nobody is at work.
LEMMA InitInv == Init => SlotInv
<1> SUFFICES ASSUME Init PROVE SlotInv
  OBVIOUS
<1>1. Setting
  BY ApprovalAssumption DEF Init, Setting, Requests
<1>2. /\ \A r \in Requests : rec[r] = NewRecord(r)
      /\ \A p \in Procs : w[p] = Idle
      /\ rec = [r \in Requests |-> rec[r]] /\ w = [p \in Procs |-> w[p]]
  BY DEF Init, Idle
<1>3. Types
  <2>1. \A r \in Requests : rec[r] \in RecordOf(r)
    <3> TAKE r \in Requests
    <3>1. [x \in kind[r].roles |-> "pending"] \in [kind[r].roles -> Decided \cup {"pending"}]
      OBVIOUS
    <3>2. NewRecord(r) \in RecordOf(r)
      BY <3>1 DEF NewRecord, RecordOf, Statuses
    <3> QED BY <1>2, <3>2
  <2>2. 0 \in 0..MaxTime
    BY ApprovalAssumption
  <2>3. \A p \in Procs : w[p] = Worker(w[p]) /\ w[p].pc \in WorkerPcs /\ w[p].req = None
    BY <1>2 DEF Idle, Worker, WorkerPcs
  <2> QED BY <1>2, <2>1, <2>2, <2>3 DEF Types, RecTypes, WorkerTypes, Init
<1>4. \A r \in Requests : /\ rec[r].claim = None /\ rec[r].result = None /\ ~rec[r].consumed
                          /\ ~rec[r].revoked /\ rec[r].status = "pending"
  BY <1>2 DEF NewRecord
<1>5. \A p \in Procs : w[p].pc = "idle" /\ w[p].req = None
  BY <1>2 DEF Idle
<1>6. permit = "none" /\ steering = "none" /\ runs = 0
  BY DEF Init
<1>7. WorkerInv /\ RecordInv /\ AuthorityInv /\ OneOwner /\ LockInv /\ SteerInv
  BY <1>4, <1>5, <1>6 DEF WorkerInv, RecordInv, AuthorityInv, OneOwner, LockInv, SteerInv,
     Human, Charter, Busy, Spent
<1>8. RunsInv
  BY <1>1, <1>4, <1>5, <1>6 DEF RunsInv, Setting
<1> QED BY <1>3, <1>7, <1>8 DEF SlotInv

-----------------------------------------------------------------------------
(* Types *)

\* decideApprovalRequestUnlocked, whoever calls it.
LEMMA DecideAnswers ==
  ASSUME Types, UNCHANGED <<kind, permit, slotLock, w, runs>>,
         NEW r \in Requests, NEW d \in {"approved", "rejected"},
         NEW role, NEW by \in {"human", "policy"}, decide(r, d, role, by)
  PROVE  Answered(r) /\ rec'[r] \in RecordOf(r)
<1>1. /\ rec[r] \in RecordOf(r) /\ DOMAIN rec[r].roles = kind[r].roles
      /\ rec = [x \in Requests |-> rec[x]] /\ Setting
  BY SettingHolds DEF Types, RecTypes, RecordOf
<1>2. CASE rec[r].status = "pending" /\ Expired(r)
  BY <1>1, <1>2 DEF decide, Put, Answered, RecordOf, Statuses
<1>3. CASE ~(rec[r].status = "pending" /\ Expired(r))
  <2> DEFINE record == DecidedRecord(r, d, role, by)
  <2>1. /\ rec' = [rec EXCEPT ![r] = record] /\ Decidable(r)
        /\ steering' \in IF kind[r].route = "steer" /\ d = "approved"
                         THEN {"scheduled", steering} ELSE {steering}
    BY <1>3 DEF decide, Put
  <2>2. [x \in DOMAIN rec[r].roles |->
           IF x = role \/ (role = None /\ rec[r].roles[x] = "pending") THEN d ELSE rec[r].roles[x]]
        \in [kind[r].roles -> Decided \cup {"pending"}]
    BY <1>1 DEF RecordOf, Decided
  <2>3. /\ record \in RecordOf(r) /\ record.status = d
        /\ record.claim = rec[r].claim /\ record.result = rec[r].result
        /\ record.consumed = rec[r].consumed /\ record.revoked = rec[r].revoked
    BY <1>1, <2>2 DEF DecidedRecord, RecordOf, Statuses, Decided
  <2>4. rec'[r] = record
    BY <1>1, <2>1
  <2>5. kind[r].roles = {} => rec[r].status = "pending"
    BY <1>1, <2>1 DEF Decidable, awaitingOtherRoles
  <2> HIDE DEF record
  <2> QED BY <1>1, <2>1, <2>3, <2>4, <2>5 DEF Answered, Setting
<1> QED BY <1>2, <1>3

\* A delivery and its fallback.
LEMMA DeliverAnswers ==
  ASSUME Types, NEW r \in Requests, NEW at \in 0..now, Deliver(r, at)
  PROVE  Answered(r) /\ rec'[r] \in RecordOf(r)
<1>1. /\ rec[r] \in RecordOf(r) /\ rec = [x \in Requests |-> rec[x]]
      /\ rec[r].status = "pending" /\ at \in 0..MaxTime
  BY ApprovalAssumption DEF Types, RecTypes, Deliver
<1> DEFINE late == [rec[r] EXCEPT !.fallback = TRUE]
           inTime == [rec[r] EXCEPT !.delivered = at, !.fallback = Deadlines(r, at) = {}]
<1>2. late \in RecordOf(r) /\ inTime \in RecordOf(r)
  BY <1>1 DEF RecordOf
<1>3. \A x \in {late, inTime} : /\ x.claim = rec[r].claim /\ x.result = rec[r].result
                                /\ x.consumed = rec[r].consumed /\ x.revoked = rec[r].revoked
  BY <1>1 DEF RecordOf
<1>4. \E x \in {late, inTime} : rec' = [rec EXCEPT ![r] = x]
  BY DEF Deliver, Put
<1> HIDE DEF late, inTime
<1> QED BY <1>1, <1>2, <1>3, <1>4 DEF Deliver, Answered

\* An expiry or a cancellation.
LEMMA WithdrawAnswers ==
  ASSUME Types, NEW r \in Requests, Withdraw(r)
  PROVE  Answered(r) /\ rec'[r] \in RecordOf(r)
<1>1. /\ rec[r] \in RecordOf(r) /\ rec = [x \in Requests |-> rec[x]]
      /\ rec[r].status = "pending" /\ UNCHANGED <<kind, permit, slotLock, w, steering, runs>>
  BY DEF Types, RecTypes, Withdraw
<1>2. PICK s \in {"expired", "cancelled"} : rec' = [rec EXCEPT ![r] = [rec[r] EXCEPT !.status = s]]
  BY DEF Withdraw, Put
<1> QED BY <1>1, <1>2 DEF RecordOf, Statuses, Answered

\* The tick's work on one record.
LEMMA TickAnswers ==
  ASSUME Types, NEW r \in Requests, TickRecord(r)
  PROVE  Answered(r) /\ rec'[r] \in RecordOf(r)
<1>1. /\ rec[r] \in RecordOf(r) /\ rec = [x \in Requests |-> rec[x]]
      /\ UNCHANGED <<kind, permit, slotLock, w, runs>>
  BY DEF Types, RecTypes, TickRecord
<1>2. CASE UNCHANGED <<rec, steering>>
  BY <1>1, <1>2 DEF Answered
<1>3. CASE Put(r, [rec[r] EXCEPT !.fallback = TRUE]) /\ UNCHANGED steering
  BY <1>1, <1>3 DEF Put, Answered, RecordOf
<1>4. CASE Put(r, [rec[r] EXCEPT !.shadowElapsed = TRUE]) /\ UNCHANGED steering
  BY <1>1, <1>4 DEF Put, Answered, RecordOf
<1>5. CASE decide(r, "approved", None, "policy")
  BY <1>1, <1>5, DecideAnswers
<1> QED BY <1>2, <1>3, <1>4, <1>5 DEF TickRecord

\* Every step of the specification is one of these.
LEMMA Steps == Types /\ [Next]_vars => Step
<1> SUFFICES ASSUME Types, [Next]_vars PROVE Step
  OBVIOUS
<1>1. CASE Advance \/ SetHalt \/ TickStart \/ DeciderDies \/ UNCHANGED vars
  BY <1>1 DEF Advance, SetHalt, TickStart, DeciderDies, vars, Quiet, Step
<1>2. CASE Steer
  BY <1>2 DEF Step
<1>3. ASSUME NEW r \in Requests,
             \/ \E d \in {"approved", "rejected"}, role \in Answers(r) : Decide(r, d, role)
             \/ \E at \in 0..now : Deliver(r, at)
             \/ Withdraw(r) \/ TickRecord(r)
      PROVE  Step
  <2>1. Answered(r)
    BY <1>3, DecideAnswers, DeliverAnswers, WithdrawAnswers, TickAnswers DEF Decide
  <2> QED BY <2>1 DEF Step
<1>4. ASSUME NEW r \in Requests,
             Revoke(r) \/ SteerRecord(r) \/ \E p \in Procs : Check(p, r) \/ Consume(p, r)
      PROVE  Step
  BY <1>4 DEF Step
<1>5. ASSUME NEW p \in Procs,
             \/ Claim(p) \/ Refused(p) \/ Admit(p) \/ Effect(p) \/ Record(p) \/ Die(p)
             \/ Authorize(p) \/ ClaimPermit(p) \/ VerifyPermit(p) \/ Settle(p)
      PROVE  Step
  BY <1>5 DEF Step
<1> QED BY <1>1, <1>2, <1>3, <1>4, <1>5 DEF Next

\* Writing a record keeps the types.
LEMMA PutTyped ==
  ASSUME RecTypes, NEW r \in Requests, NEW record \in RecordOf(r),
         rec' = [rec EXCEPT ![r] = record], kind' = kind
  PROVE  RecTypes'
BY DEF RecTypes, RecordOf, Requests

\* The same for a worker that takes up a request.
LEMMA MoveTyped ==
  ASSUME WorkerTypes, NEW p \in Procs, NEW x, x = Worker(x),
         x.pc \in WorkerPcs, x.req \in Requests \cup {None},
         w' = [w EXCEPT ![p] = x], kind' = kind
  PROVE  WorkerTypes'
BY DEF WorkerTypes, Worker, Requests

\* A worker that moves on.
LEMMA GotoTyped ==
  ASSUME WorkerTypes, NEW p \in Procs, NEW pc \in WorkerPcs, Goto(p, pc), kind' = kind
  PROVE  WorkerTypes'
<1> DEFINE x == [w[p] EXCEPT !.pc = pc]
<1>1. x = Worker(x) /\ x.pc \in WorkerPcs /\ x.req \in Requests \cup {None}
  BY DEF WorkerTypes, Worker
<1>2. w' = [w EXCEPT ![p] = x]
  BY DEF WorkerTypes, Goto
<1> HIDE DEF x
<1> QED BY <1>1, <1>2, MoveTyped

\* A worker that gives up, with the lock it may hold.
LEMMA StopTyped ==
  ASSUME WorkerTypes, slotLock \in Procs \cup {None}, NEW p \in Procs, Stop(p), kind' = kind
  PROVE  WorkerTypes' /\ slotLock' \in Procs \cup {None}
<1>1. Idle = Worker(Idle) /\ Idle.pc \in WorkerPcs /\ Idle.req = None
  BY DEF Idle, Worker, WorkerPcs
<1> QED BY <1>1, MoveTyped DEF Stop

\* A worker on a request has one.
LEMMA HasRequest ==
  ASSUME Types, WorkerInv, NEW p \in Procs, w[p].pc \in Human
  PROVE  w[p].req \in Requests
BY DEF Types, WorkerTypes, WorkerInv

\* Every step keeps the types.
LEMMA TypesKept ==
  ASSUME Types, WorkerInv, [Next]_vars
  PROVE  Types'
<1>1. CASE Advance \/ SetHalt \/ DeciderDies \/ TickStart \/ UNCHANGED vars
  <2>1. UNCHANGED <<kind, rec, permit, slotLock, w, runs>> /\ steering' \in {steering, "lost"}
    BY <1>1 DEF Advance, SetHalt, DeciderDies, TickStart, vars
  <2>2. now' \in 0..MaxTime /\ halted' \in BOOLEAN
    <3>1. MaxTime \in Nat /\ now \in 0..MaxTime /\ halted \in BOOLEAN
      BY ApprovalAssumption DEF Types
    <3>2. (now < MaxTime /\ now' = now + 1) \/ now' = now
      BY <1>1 DEF Advance, SetHalt, DeciderDies, TickStart, vars
    <3>3. halted' \in BOOLEAN
      BY <1>1, <3>1 DEF Advance, SetHalt, DeciderDies, TickStart, vars
    <3> QED BY <3>1, <3>2, <3>3
  <2>3. tick' \in [now : 0..MaxTime, todo : SUBSET Requests]
    BY <1>1 DEF Types, Advance, SetHalt, DeciderDies, TickStart, vars
  <2> QED BY <2>1, <2>2, <2>3 DEF Types, RecTypes, WorkerTypes, RecordOf, Requests
<1>3. CASE Steer
  BY <1>3 DEF Types, RecTypes, WorkerTypes, RecordOf, Requests, Steer
<1>4. ASSUME NEW r \in Requests,
             \/ \E d \in {"approved", "rejected"}, role \in Answers(r) : Decide(r, d, role)
             \/ \E at \in 0..now : Deliver(r, at)
             \/ Withdraw(r) \/ TickRecord(r)
      PROVE  Types'
  <2>1. Answered(r) /\ rec'[r] \in RecordOf(r)
    BY <1>4, DecideAnswers, DeliverAnswers, WithdrawAnswers, TickAnswers DEF Decide
  <2>2. RecTypes'
    BY <2>1, PutTyped DEF Types, Answered
  <2>3. WorkerTypes'
    BY <2>1 DEF Types, WorkerTypes, Answered, Requests
  <2>4. UNCHANGED <<now, halted>> /\ tick' \in {tick, [tick EXCEPT !.todo = @ \ {r}]}
    BY <1>4 DEF Decide, Deliver, Withdraw, TickRecord
  <2> QED BY <2>1, <2>2, <2>3, <2>4 DEF Types, Answered, Requests
<1>5. ASSUME NEW r \in Requests, Revoke(r) \/ SteerRecord(r)
      PROVE  Types'
  <2>1. rec[r] \in RecordOf(r) /\ kind' = kind
    BY <1>5 DEF Types, RecTypes, Revoke, SteerRecord
  <2>2. \E x \in RecordOf(r) : rec' = [rec EXCEPT ![r] = x]
    BY <1>5, <2>1 DEF Revoke, SteerRecord, Put, RecordOf
  <2>3. RecTypes'
    BY <2>1, <2>2, PutTyped DEF Types
  <2> QED BY <1>5, <2>3 DEF Types, WorkerTypes, Requests, Revoke, SteerRecord
<1>6. ASSUME NEW r \in Requests, NEW p \in Procs, Check(p, r)
      PROVE  Types'
  <2> DEFINE x == [pc |-> "checked", req |-> r, snap |-> rec[r]]
  <2>1. x = Worker(x) /\ x.pc \in WorkerPcs /\ x.req \in Requests /\ w' = [w EXCEPT ![p] = x]
    BY <1>6 DEF Worker, WorkerPcs, Check
  <2> HIDE DEF x
  <2>2. WorkerTypes'
    BY <1>6, <2>1, MoveTyped DEF Types, Check
  <2> QED BY <1>6, <2>2 DEF Types, RecTypes, RecordOf, Requests, Check
<1>7. ASSUME NEW r \in Requests, NEW p \in Procs, Consume(p, r)
      PROVE  Types'
  <2> DEFINE x == [pc |-> "admitted", req |-> r, snap |-> None]
  <2>1. x = Worker(x) /\ x.pc \in WorkerPcs /\ x.req \in Requests /\ w' = [w EXCEPT ![p] = x]
    BY <1>7 DEF Worker, WorkerPcs, Consume
  <2> HIDE DEF x
  <2>2. WorkerTypes'
    BY <1>7, <2>1, MoveTyped DEF Types, Consume
  <2>3. [rec[r] EXCEPT !.consumed = TRUE] \in RecordOf(r)
    <3>1. rec[r] \in RecordOf(r)
      BY DEF Types, RecTypes
    <3> QED BY <3>1 DEF RecordOf
  <2>4. RecTypes'
    BY <1>7, <2>3, PutTyped DEF Types, Consume, Put
  <2> QED BY <1>7, <2>2, <2>4 DEF Types, Requests, Consume
<1>8. ASSUME NEW p \in Procs, Claim(p)
      PROVE  Types'
  <2> DEFINE r == w[p].req
             x == [pc |-> "claimed", req |-> r, snap |-> None]
  <2>1. Worker(x) = x /\ x.pc \in WorkerPcs /\ x.req \in Requests \cup {None}
    BY <1>8, HasRequest DEF Worker, WorkerPcs, Human, Claim
  <2>2. Worker(Idle) = Idle /\ Idle.pc \in WorkerPcs /\ Idle.req \in Requests \cup {None}
    BY DEF Idle, Worker, WorkerPcs
  <2>3. w' = [w EXCEPT ![p] = x] \/ w' = [w EXCEPT ![p] = Idle]
    BY <1>8 DEF Types, WorkerTypes, Claim
  <2> HIDE DEF x
  <2>4. WorkerTypes'
    BY <1>8, <2>1, <2>2, <2>3, MoveTyped DEF Types, Claim
  <2>5. r \in Requests /\ [rec[r] EXCEPT !.claim = p] \in RecordOf(r)
    <3>1. r \in Requests
      BY <1>8, HasRequest DEF Claim, Human
    <3>2. rec[r] \in RecordOf(r)
      BY <3>1 DEF Types, RecTypes
    <3> QED BY <3>1, <3>2 DEF RecordOf
  <2>6. RecTypes'
    BY <1>8, <2>5, PutTyped DEF Types, Claim, Put
  <2> QED BY <1>8, <2>4, <2>6 DEF Types, Requests, Claim
<1>9. ASSUME NEW p \in Procs, Refused(p) \/ Die(p)
      PROVE  Types'
  BY <1>9, StopTyped DEF Types, RecTypes, RecordOf, Requests, Refused, Die
<1>10. ASSUME NEW p \in Procs, Record(p)
       PROVE  Types'
  <2> DEFINE r == w[p].req
  <2>1. r \in Requests
    BY <1>10, HasRequest DEF Record, Human
  <2>2. \A result \in {"success", "failed"} : ResultRecord(r, result) \in RecordOf(r)
    <3>1. rec[r] \in RecordOf(r)
      BY <2>1 DEF Types, RecTypes
    <3> HIDE DEF r
    <3>2. ASSUME NEW result \in {"success", "failed"}, NEW s \in Statuses
          PROVE  [rec[r] EXCEPT !.result = result, !.status = s] \in RecordOf(r)
      BY <3>1 DEF RecordOf
    <3>3. rec[r].status \in Statuses /\ "applied" \in Statuses /\ "failed" \in Statuses
      BY <3>1 DEF RecordOf, Statuses, Decided
    <3>4. ASSUME NEW result \in {"success", "failed"}
          PROVE  \E s \in Statuses :
                   ResultRecord(r, result) = [rec[r] EXCEPT !.result = result, !.status = s]
      BY <3>3 DEF ResultRecord
    <3> QED BY <3>2, <3>4
  <2>3. \E result \in {"success", "failed"} : rec' = [rec EXCEPT ![r] = ResultRecord(r, result)]
    BY <1>10 DEF Record, Put
  <2>4. RecTypes'
    BY <1>10, <2>1, <2>2, <2>3, PutTyped DEF Types, Record
  <2> QED BY <1>10, <2>4, StopTyped DEF Types, Requests, Record
<1>11. ASSUME NEW p \in Procs,
              Admit(p) \/ Effect(p) \/ Authorize(p) \/ ClaimPermit(p) \/ VerifyPermit(p) \/ Settle(p)
       PROVE  Types'
  <2>1. \/ w' = w
        \/ \E pc \in WorkerPcs : Goto(p, pc)
    BY <1>11 DEF Admit, Effect, Authorize, ClaimPermit, VerifyPermit, Settle, Goto, WorkerPcs
  <2>2. UNCHANGED <<kind, rec, now, halted, tick, slotLock, steering>>
    BY <1>11 DEF Admit, Effect, Authorize, ClaimPermit, VerifyPermit, Settle
  <2>3. WorkerTypes'
    BY <2>1, <2>2, GotoTyped DEF Types, WorkerTypes, Requests
  <2>4. permit' \in {"none", "reserved", "issued"} \cup Spent /\ runs' \in Nat
    BY <1>11 DEF Types, Spent, Admit, Effect, Authorize, ClaimPermit, VerifyPermit, Settle
  <2> QED BY <2>2, <2>3, <2>4 DEF Types, RecTypes, RecordOf, Requests
<1> QED BY <1>1, <1>3, <1>4, <1>5, <1>6, <1>7, <1>8, <1>9, <1>10, <1>11 DEF Next

-----------------------------------------------------------------------------
(* What a step leaves alone *)

\* Moving on leaves the other workers and the request at hand alone.
LEMMA GotoFrame ==
  ASSUME Types, NEW p \in Procs, NEW pc, Goto(p, pc)
  PROVE  \A q \in Procs : w'[q].req = w[q].req /\ w'[q].pc = IF q = p THEN pc ELSE w[q].pc
BY DEF Types, WorkerTypes, Worker, Goto

\* Admitting a worker moves that worker and nothing else.
LEMMA AdmitFrame ==
  ASSUME Types, NEW p \in Procs, Admit(p)
  PROVE  /\ w[p].pc = "claimed" /\ UNCHANGED <<kind, rec, permit, slotLock, runs>>
         /\ Requests' = Requests
         /\ \A q \in Procs : /\ w'[q].req = w[q].req
                             /\ w'[q].pc = IF q = p THEN "admitted" ELSE w[q].pc
<1>1. w[p].pc = "claimed" /\ Goto(p, "admitted") /\ UNCHANGED <<kind, rec, permit, slotLock, runs>>
  BY DEF Admit
<1> QED BY <1>1, GotoFrame DEF Requests

\* Answering a record leaves the claims, receipts and other records alone.
LEMMA AnsweredFrame ==
  ASSUME Types, NEW r \in Requests, Answered(r)
  PROVE  /\ kind' = kind /\ Requests' = Requests
         /\ \A q \in Requests : /\ q # r => rec'[q] = rec[q]
                                /\ rec'[q].claim = rec[q].claim /\ rec'[q].result = rec[q].result
                                /\ rec'[q].consumed = rec[q].consumed
                                /\ rec'[q].revoked = rec[q].revoked
BY DEF Types, RecTypes, Answered, Requests

\* A claim changes one record's claim and one worker.
LEMMA ClaimFrame ==
  ASSUME Types, WorkerInv, NEW p \in Procs, Claim(p)
  PROVE  /\ w[p].req \in Requests /\ kind' = kind /\ Requests' = Requests
         /\ \A q \in Requests : /\ rec'[q].claim = IF q = w[p].req THEN p ELSE rec[q].claim
                                /\ rec'[q].result = rec[q].result /\ rec'[q].status = rec[q].status
                                /\ rec'[q].revoked = rec[q].revoked
         /\ \A q \in Procs : q # p => w'[q] = w[q]
         /\ w'[p] = Idle \/ (w'[p].pc = "claimed" /\ w'[p].req = w[p].req)
<1>1. w[p].req \in Requests
  BY HasRequest DEF Claim, Human
<1>2. \A q \in Requests : rec[q] \in RecordOf(q)
  BY DEF Types, RecTypes
<1> QED BY <1>1, <1>2 DEF Types, RecTypes, WorkerTypes, RecordOf, Claim, Put, Requests

-----------------------------------------------------------------------------
(* Who finds the slot free *)

\* While nothing is claimed nobody is at the effect and it has not started.
LEMMA SlotIsFree ==
  ASSUME SlotInv, ~SlotClaimed
  PROVE  runs = 0 /\ \A p \in Procs : w[p].pc \notin Busy
BY SettingHolds DEF SlotInv, Setting, Types, WorkerTypes, WorkerInv, RunsInv, SlotClaimed, Busy, Human

\* A claim, a consumption and the claim of a permit find the slot free,
\* whatever has happened since their check.
LEMMA ClaimFindsSlotFree ==
  ASSUME SlotInv, NEW p \in Procs, Claim(p)
  PROVE  ~SlotClaimed
<1> DEFINE r == w[p].req
<1>1. /\ r \in Requests /\ kind[r].route \in Routed /\ w[p].pc = "checked"
      /\ rec[r].claim = None /\ Setting
  BY HasRequest, SettingHolds DEF SlotInv, WorkerInv, Human, Claim, Claimable
<1>2. CASE kind[r].route = "exec"
  <2>1. permit \in {"none", "issued"} /\ \A q \in Requests : rec[q].claim = None
    BY <1>1, <1>2 DEF SlotInv, LockInv
  <2>2. \A q \in Requests : kind[q].route = "exec"
    BY <1>1, <1>2 DEF Setting
  <2> QED BY <2>1, <2>2 DEF SlotInv, RecordInv, SlotClaimed
<1>3. CASE kind[r].route # "exec"
  <2>1. \A q \in Requests : q = r
    BY <1>1, <1>3 DEF Setting
  <2>2. permit = "none"
    BY <1>3, <2>1 DEF SlotInv, OneOwner, ExecSlot
  <2>3. ~rec[r].consumed /\ kind[r].route # "steer"
    BY <1>1 DEF SlotInv, RecordInv, Routed
  <2> QED BY <1>1, <2>1, <2>2, <2>3 DEF SlotClaimed
<1> QED BY <1>2, <1>3

\* The consumption checks and takes in one step.
LEMMA ConsumeFindsSlotFree ==
  ASSUME SlotInv, NEW p \in Procs, NEW r \in Requests, Consume(p, r)
  PROVE  ~SlotClaimed
<1>1. /\ kind[r].route = "consume" /\ rec[r].claim = None /\ ~rec[r].consumed /\ Setting
  BY SettingHolds DEF SlotInv, Consume, Consumable
<1>2. \A q \in Requests : q = r
  BY <1>1 DEF Setting
<1>3. permit = "none"
  BY <1>1, <1>2 DEF SlotInv, OneOwner, ExecSlot
<1> QED BY <1>1, <1>2, <1>3 DEF SlotClaimed

\* The permit is compared with the human claims under the same lock.
LEMMA PermitFindsSlotFree ==
  ASSUME SlotInv, NEW p \in Procs, ClaimPermit(p)
  PROVE  ~SlotClaimed
<1>1. Setting /\ ExecSlot /\ permit = "issued" /\ \A q \in Requests : rec[q].claim = None
  BY SettingHolds DEF SlotInv, WorkerInv, Charter, ClaimPermit, PermitClaimable, HumanClaimed
<1>2. \A q \in Requests : kind[q].route = "exec"
  BY <1>1 DEF Setting, ExecSlot
<1> QED BY <1>1, <1>2 DEF SlotInv, RecordInv, SlotClaimed

\* The execution of a steering request is alone with it.
LEMMA SteerIsAlone ==
  ASSUME SlotInv, NEW r \in Requests, kind[r].route = "steer"
  PROVE  /\ \A q \in Requests : q = r
         /\ permit = "none" /\ ~rec[r].consumed /\ rec[r].claim = None
         /\ \A p \in Procs : w[p].pc = "idle"
<1>1. Setting
  BY SettingHolds DEF SlotInv
<1>2. \A q \in Requests : q = r
  BY <1>1 DEF Setting
<1>3. ~ExecSlot
  BY <1>2 DEF ExecSlot
<1>4. ~rec[r].consumed /\ rec[r].claim = None /\ permit = "none"
  BY <1>3 DEF SlotInv, RecordInv, OneOwner, Routed
<1>5. \A p \in Procs : w[p].pc \notin Charter
  BY <1>3 DEF SlotInv, WorkerInv
<1>6. \A p \in Procs : w[p].pc \in Human => w[p].req = r
  BY <1>2, HasRequest DEF SlotInv
<1>7. \A p \in Procs : w[p].pc \notin Human
  BY <1>1, <1>4, <1>6 DEF SlotInv, WorkerInv, Human, Routed, Setting
<1> QED BY <1>2, <1>4, <1>5, <1>7 DEF SlotInv, Types, WorkerTypes, WorkerPcs, Human, Charter

-----------------------------------------------------------------------------
(* One lemma per conjunct, one step per kind of step *)

\* Workers hold what their place says; a claim, once written, stays.
LEMMA WorkerKept ==
  ASSUME Types, WorkerInv, OneOwner, Setting, Step
  PROVE  WorkerInv'
<1> USE DEF Types, RecTypes, WorkerTypes, RecordOf, Worker, Requests, WorkerInv, Human, Charter,
    ExecSlot, Setting
<1>1. CASE Quiet  BY <1>1 DEF Quiet
<1>2. CASE Steer  BY <1>2 DEF Steer
<1>3. ASSUME NEW r \in Requests, Answered(r) PROVE WorkerInv'  BY <1>3 DEF Answered
<1>4. ASSUME NEW r \in Requests, Revoke(r) PROVE WorkerInv'  BY <1>4 DEF Revoke, Revocable, Put
<1>5. ASSUME NEW r \in Requests, SteerRecord(r) PROVE WorkerInv'  BY <1>5 DEF SteerRecord, Put
<1>6. ASSUME NEW p \in Procs, NEW r \in Requests, Check(p, r) PROVE WorkerInv'
  BY <1>6 DEF Check, Locking, SlotFree, Routed
<1>7. ASSUME NEW p \in Procs, NEW r \in Requests, Consume(p, r) PROVE WorkerInv'
  BY <1>7 DEF Consume, Consumable, Put
<1>8. ASSUME NEW p \in Procs, Claim(p) PROVE WorkerInv'
  BY <1>8 DEF Claim, Claimable, Put, Idle, Routed
<1>9. ASSUME NEW p \in Procs, Refused(p) PROVE WorkerInv'  BY <1>9 DEF Refused, Stop, Idle
<1>10. ASSUME NEW p \in Procs, Admit(p) PROVE WorkerInv'
  <2>1. /\ Goto(p, "admitted") /\ w[p].pc = "claimed"
        /\ UNCHANGED <<kind, rec, permit, slotLock, steering, runs>>
    BY <1>10 DEF Admit
  <2> QED BY <2>1, GotoFrame
<1>11. ASSUME NEW p \in Procs, Effect(p) PROVE WorkerInv'  BY <1>11 DEF Effect, Goto
<1>12. ASSUME NEW p \in Procs, Record(p) PROVE WorkerInv'
  BY <1>12 DEF Record, ResultRecord, Put, Stop, Idle
<1>13. ASSUME NEW p \in Procs, Die(p) PROVE WorkerInv'  BY <1>13 DEF Die, Stop, Idle
<1>14. ASSUME NEW p \in Procs, Authorize(p) PROVE WorkerInv'  BY <1>14 DEF Authorize, HumanClaimed
<1>15. ASSUME NEW p \in Procs, ClaimPermit(p) PROVE WorkerInv'
  BY <1>15 DEF ClaimPermit, PermitClaimable, HumanClaimed, Goto
<1>16. ASSUME NEW p \in Procs, VerifyPermit(p) PROVE WorkerInv'
  BY <1>16 DEF VerifyPermit, Goto, OneOwner, Busy
<1>17. ASSUME NEW p \in Procs, Settle(p) PROVE WorkerInv'  BY <1>17 DEF Settle, Goto, OneOwner, Busy
<1> QED BY <1>1, <1>2, <1>3, <1>4, <1>5, <1>6, <1>7, <1>8, <1>9, <1>10, <1>11, <1>12, <1>13,
    <1>14, <1>15, <1>16, <1>17 DEF Step

\* A claim and a consumption keep to their route; a revoked record stays unused.
LEMMA RecordKept ==
  ASSUME Types, WorkerInv, RecordInv, Setting, Step
  PROVE  RecordInv'
<1> USE DEF Types, RecTypes, WorkerTypes, RecordOf, Worker, Requests, RecordInv, Setting
<1>1. CASE Quiet  BY <1>1 DEF Quiet
<1>2. CASE Steer  BY <1>2 DEF Steer
<1>3. ASSUME NEW r \in Requests, Answered(r) PROVE RecordInv'  BY <1>3 DEF Answered
<1>4. ASSUME NEW r \in Requests, Revoke(r) PROVE RecordInv'  BY <1>4 DEF Revoke, Revocable, Put
<1>5. ASSUME NEW r \in Requests, SteerRecord(r) PROVE RecordInv'  BY <1>5 DEF SteerRecord, Put
<1>6. ASSUME NEW p \in Procs, NEW r \in Requests, Check(p, r) PROVE RecordInv'
  BY <1>6 DEF Check, Locking, SlotFree
<1>7. ASSUME NEW p \in Procs, NEW r \in Requests, Consume(p, r) PROVE RecordInv'
  BY <1>7 DEF Consume, Consumable, Put, Routed, Human
<1>8. ASSUME NEW p \in Procs, Claim(p) PROVE RecordInv'
  BY <1>8 DEF Claim, Claimable, Put, Idle, WorkerInv, Routed
<1>9. ASSUME NEW p \in Procs, Refused(p) PROVE RecordInv'  BY <1>9 DEF Refused, Stop, Idle
<1>10. ASSUME NEW p \in Procs, Admit(p) PROVE RecordInv'  BY <1>10 DEF Admit, Goto
<1>11. ASSUME NEW p \in Procs, Effect(p) PROVE RecordInv'  BY <1>11 DEF Effect, Goto
<1>12. ASSUME NEW p \in Procs, Record(p) PROVE RecordInv'
  BY <1>12 DEF Record, ResultRecord, Put, Stop, Idle, WorkerInv, Human
<1>13. ASSUME NEW p \in Procs, Die(p) PROVE RecordInv'  BY <1>13 DEF Die, Stop, Idle
<1>14. ASSUME NEW p \in Procs, Authorize(p) PROVE RecordInv'
  BY <1>14 DEF Authorize, HumanClaimed, ExecSlot
<1>15. ASSUME NEW p \in Procs, ClaimPermit(p) PROVE RecordInv'
  BY <1>15 DEF ClaimPermit, PermitClaimable, HumanClaimed, Goto
<1>16. ASSUME NEW p \in Procs, VerifyPermit(p) PROVE RecordInv'  BY <1>16 DEF VerifyPermit, Goto
<1>17. ASSUME NEW p \in Procs, Settle(p) PROVE RecordInv'  BY <1>17 DEF Settle, Goto
<1> QED BY <1>1, <1>2, <1>3, <1>4, <1>5, <1>6, <1>7, <1>8, <1>9, <1>10, <1>11, <1>12, <1>13,
    <1>14, <1>15, <1>16, <1>17 DEF Step

\* Nothing takes a claimed or consumed approval back.
LEMMA AuthorityKept ==
  ASSUME Types, WorkerInv, AuthorityInv, OneOwner, Setting, Step
  PROVE  AuthorityInv'
<1> USE DEF Types, RecTypes, WorkerTypes, RecordOf, Worker, Requests, AuthorityInv, WorkerInv,
    Human, Setting
<1>1. CASE Quiet  BY <1>1 DEF Quiet
<1>2. CASE Steer  BY <1>2 DEF Steer
<1>3. ASSUME NEW r \in Requests, Answered(r) PROVE AuthorityInv'
  BY <1>3, AnsweredFrame, SMTT(30) DEF Answered
<1>4. ASSUME NEW r \in Requests, Revoke(r) PROVE AuthorityInv'  BY <1>4 DEF Revoke, Revocable, Put
<1>5. ASSUME NEW r \in Requests, SteerRecord(r) PROVE AuthorityInv'  BY <1>5 DEF SteerRecord, Put
<1>6. ASSUME NEW p \in Procs, NEW r \in Requests, Check(p, r) PROVE AuthorityInv'
  BY <1>6 DEF Check, Locking, SlotFree
<1>7. ASSUME NEW p \in Procs, NEW r \in Requests, Consume(p, r) PROVE AuthorityInv'
  BY <1>7 DEF Consume, Consumable, Put
<1>8. ASSUME NEW p \in Procs, Claim(p) PROVE AuthorityInv'
  <2>1. LET r == w[p].req IN rec[r].status = "approved" /\ ~rec[r].revoked
    BY <1>8 DEF Claim, Claimable
  <2> QED BY <1>8, <2>1, ClaimFrame DEF Idle
<1>9. ASSUME NEW p \in Procs, Refused(p) PROVE AuthorityInv'  BY <1>9 DEF Refused, Stop, Idle
<1>10. ASSUME NEW p \in Procs, Admit(p) PROVE AuthorityInv'  BY <1>10, AdmitFrame
<1>11. ASSUME NEW p \in Procs, Effect(p) PROVE AuthorityInv'  BY <1>11 DEF Effect, Goto
<1>12. ASSUME NEW p \in Procs, Record(p) PROVE AuthorityInv'
  BY <1>12 DEF Record, ResultRecord, Put, Stop, Idle, OneOwner, Busy
<1>13. ASSUME NEW p \in Procs, Die(p) PROVE AuthorityInv'  BY <1>13 DEF Die, Stop, Idle
<1>14. ASSUME NEW p \in Procs, Authorize(p) PROVE AuthorityInv'
  BY <1>14 DEF Authorize, HumanClaimed, ExecSlot
<1>15. ASSUME NEW p \in Procs, ClaimPermit(p) PROVE AuthorityInv'
  BY <1>15 DEF ClaimPermit, PermitClaimable, HumanClaimed, Goto
<1>16. ASSUME NEW p \in Procs, VerifyPermit(p) PROVE AuthorityInv'
  <2>1. PICK pc \in {"verified", "idle"} : Goto(p, pc)
    BY <1>16 DEF VerifyPermit
  <2> QED BY <1>16, <2>1, GotoFrame DEF AuthorityInv, VerifyPermit
<1>17. ASSUME NEW p \in Procs, Settle(p) PROVE AuthorityInv'  BY <1>17 DEF Settle, Goto
<1> QED BY <1>1, <1>2, <1>3, <1>4, <1>5, <1>6, <1>7, <1>8, <1>9, <1>10, <1>11, <1>12, <1>13,
    <1>14, <1>15, <1>16, <1>17 DEF Step

\* The slot changes hands only while it is free.
LEMMA OwnerKept ==
  ASSUME SlotInv, Setting, Step
  PROVE  OneOwner'
<1> USE DEF SlotInv, Types, RecTypes, WorkerTypes, RecordOf, Worker, Requests, OneOwner,
    WorkerInv, Busy, Spent, ExecSlot, SlotClaimed, Setting
<1>1. CASE Quiet  BY <1>1 DEF Quiet
<1>2. CASE Steer  BY <1>2 DEF Steer
<1>3. ASSUME NEW r \in Requests, Answered(r) PROVE OneOwner'
  BY <1>3, AnsweredFrame DEF SlotInv, OneOwner, ExecSlot, Answered
<1>4. ASSUME NEW r \in Requests, Revoke(r) PROVE OneOwner'  BY <1>4 DEF Revoke, Revocable, Put
<1>5. ASSUME NEW r \in Requests, SteerRecord(r) PROVE OneOwner'  BY <1>5 DEF SteerRecord, Put
<1>6. ASSUME NEW p \in Procs, NEW r \in Requests, Check(p, r) PROVE OneOwner'
  BY <1>6 DEF Check, Locking, SlotFree
<1>7. ASSUME NEW p \in Procs, NEW r \in Requests, Consume(p, r) PROVE OneOwner'
  BY <1>7, ConsumeFindsSlotFree, SlotIsFree DEF Consume, Consumable, Put
<1>8. ASSUME NEW p \in Procs, Claim(p) PROVE OneOwner'
  <2>1. /\ ~SlotClaimed
        /\ \A q \in Procs : w[q].pc \notin Busy
        /\ \A q \in Requests : rec[q].claim = None
    BY <1>8, ClaimFindsSlotFree, SlotIsFree DEF SlotClaimed
  <2>2. permit' = permit /\ permit \notin Spent
    BY <1>8, <2>1 DEF Claim, SlotClaimed, Spent
  <2>3. \A q \in Procs : q # p => w'[q].pc \notin Busy
    BY <1>8, <2>1, ClaimFrame
  <2>4. \A q \in Requests : rec'[q].claim # None => q = w[p].req
    BY <1>8, <2>1, ClaimFrame
  <2>5. UNCHANGED <<kind, permit>>
    BY <1>8 DEF Claim
  <2> HIDE DEF WorkerInv, SlotClaimed
  <2> QED BY <2>2, <2>3, <2>4, <2>5
<1>9. ASSUME NEW p \in Procs, Refused(p) PROVE OneOwner'  BY <1>9 DEF Refused, Stop, Idle
<1>10. ASSUME NEW p \in Procs, Admit(p) PROVE OneOwner'  BY <1>10, AdmitFrame
<1>11. ASSUME NEW p \in Procs, Effect(p) PROVE OneOwner'  BY <1>11 DEF Effect, Goto
<1>12. ASSUME NEW p \in Procs, Record(p) PROVE OneOwner'
  BY <1>12 DEF Record, ResultRecord, Put, Stop, Idle
<1>13. ASSUME NEW p \in Procs, Die(p) PROVE OneOwner'  BY <1>13 DEF Die, Stop, Idle
<1>14. ASSUME NEW p \in Procs, Authorize(p) PROVE OneOwner'  BY <1>14 DEF Authorize, HumanClaimed
<1>15. ASSUME NEW p \in Procs, ClaimPermit(p) PROVE OneOwner'
  <2>1. ~SlotClaimed
    BY <1>15, PermitFindsSlotFree
  <2>2. /\ \A q \in Procs : w[q].pc \notin Busy
        /\ \A q \in Requests : rec[q].claim = None
    BY <2>1, SlotIsFree
  <2>3. Goto(p, "executing") /\ UNCHANGED <<kind, rec>> /\ ExecSlot
    BY <1>15 DEF ClaimPermit, Charter
  <2>4. \A q \in Procs : q # p => w'[q].pc \notin Busy
    BY <2>2, <2>3, GotoFrame
  <2> HIDE DEF WorkerInv, SlotClaimed
  <2> QED BY <2>2, <2>3, <2>4
<1>16. ASSUME NEW p \in Procs, VerifyPermit(p) PROVE OneOwner'  BY <1>16 DEF VerifyPermit, Goto
<1>17. ASSUME NEW p \in Procs, Settle(p) PROVE OneOwner'  BY <1>17 DEF Settle, Goto
<1> QED BY <1>1, <1>2, <1>3, <1>4, <1>5, <1>6, <1>7, <1>8, <1>9, <1>10, <1>11, <1>12, <1>13,
    <1>14, <1>15, <1>16, <1>17 DEF Step

\* A checked pipeline step keeps the lock, which keeps the others out.
LEMMA LockKept ==
  ASSUME Types, WorkerInv, RecordInv, LockInv, Setting, Step
  PROVE  LockInv'
<1> USE DEF Types, RecTypes, WorkerTypes, RecordOf, Worker, Requests, LockInv, WorkerInv, Human,
    Setting
<1>1. CASE Quiet  BY <1>1 DEF Quiet
<1>2. CASE Steer  BY <1>2 DEF Steer
<1>3. ASSUME NEW r \in Requests, Answered(r) PROVE LockInv'  BY <1>3 DEF Answered
<1>4. ASSUME NEW r \in Requests, Revoke(r) PROVE LockInv'  BY <1>4 DEF Revoke, Revocable, Put
<1>5. ASSUME NEW r \in Requests, SteerRecord(r) PROVE LockInv'  BY <1>5 DEF SteerRecord, Put
<1>6. ASSUME NEW p \in Procs, NEW r \in Requests, Check(p, r) PROVE LockInv'
  BY <1>6 DEF Check, Locking, SlotFree
<1>7. ASSUME NEW p \in Procs, NEW r \in Requests, Consume(p, r) PROVE LockInv'
  BY <1>7 DEF Consume, Consumable, Put
<1>8. ASSUME NEW p \in Procs, Claim(p) PROVE LockInv'
  <2> DEFINE r == w[p].req
  <2>1. w[p].pc = "checked" /\ UNCHANGED <<permit, kind>>
    BY <1>8 DEF Claim
  <2>2. ASSUME NEW q \in Procs, w'[q].pc = "checked", kind'[w'[q].req].route = "exec"
        PROVE  FALSE
    <3>1. /\ q # p /\ w[q].pc = "checked" /\ w[q].req \in Requests
          /\ kind[w[q].req].route = "exec" /\ slotLock = q
      BY <1>8, <2>2, ClaimFrame, HasRequest DEF Idle, LockInv, Human
    <3>2. kind[r].route = "exec"
      BY <1>8, <3>1, ClaimFrame DEF Setting
    <3>3. slotLock = p
      BY <2>1, <3>2 DEF LockInv
    <3> QED BY <3>1, <3>3
  <2> QED BY <2>2 DEF LockInv
<1>9. ASSUME NEW p \in Procs, Refused(p) PROVE LockInv'  BY <1>9 DEF Refused, Stop, Idle
<1>10. ASSUME NEW p \in Procs, Admit(p) PROVE LockInv'  BY <1>10, AdmitFrame
<1>11. ASSUME NEW p \in Procs, Effect(p) PROVE LockInv'  BY <1>11 DEF Effect, Goto
<1>12. ASSUME NEW p \in Procs, Record(p) PROVE LockInv'
  BY <1>12 DEF Record, ResultRecord, Put, Stop, Idle
<1>13. ASSUME NEW p \in Procs, Die(p) PROVE LockInv'  BY <1>13 DEF Die, Stop, Idle
<1>14. ASSUME NEW p \in Procs, Authorize(p) PROVE LockInv'
  BY <1>14 DEF Authorize, HumanClaimed, ExecSlot
<1>15. ASSUME NEW p \in Procs, ClaimPermit(p) PROVE LockInv'
  BY <1>15 DEF ClaimPermit, PermitClaimable, HumanClaimed, Goto
<1>16. ASSUME NEW p \in Procs, VerifyPermit(p) PROVE LockInv'
  <2>1. PICK pc \in {"verified", "idle"} : Goto(p, pc)
    BY <1>16 DEF VerifyPermit
  <2>2. permit = "executing" /\ UNCHANGED <<kind, rec, slotLock>>
    BY <1>16 DEF VerifyPermit, WorkerInv
  <2> QED BY <2>1, <2>2, GotoFrame DEF LockInv, Requests
<1>17. ASSUME NEW p \in Procs, Settle(p) PROVE LockInv'  BY <1>17 DEF Settle, Goto
<1> QED BY <1>1, <1>2, <1>3, <1>4, <1>5, <1>6, <1>7, <1>8, <1>9, <1>10, <1>11, <1>12, <1>13,
    <1>14, <1>15, <1>16, <1>17 DEF Step

\* An approved steering request stays approved.
LEMMA SteerKept ==
  ASSUME SlotInv, Setting, Step
  PROVE  SteerInv'
<1> USE DEF SlotInv, Types, RecTypes, WorkerTypes, RecordOf, Worker, Requests, SteerInv, Setting
<1>1. CASE Quiet  BY <1>1 DEF Quiet
<1>2. CASE Steer  BY <1>2 DEF Steer
<1>3. ASSUME NEW r \in Requests, Answered(r) PROVE SteerInv'  BY <1>3 DEF Answered
<1>4. ASSUME NEW r \in Requests, Revoke(r) PROVE SteerInv'  BY <1>4 DEF Revoke, Revocable, Put
<1>5. ASSUME NEW r \in Requests, SteerRecord(r) PROVE SteerInv'  BY <1>5 DEF SteerRecord, Put
<1>6. ASSUME NEW p \in Procs, NEW r \in Requests, Check(p, r) PROVE SteerInv'
  BY <1>6 DEF Check, Locking, SlotFree
<1>7. ASSUME NEW p \in Procs, NEW r \in Requests, Consume(p, r) PROVE SteerInv'
  BY <1>7 DEF Consume, Consumable, Put
<1>8. ASSUME NEW p \in Procs, Claim(p) PROVE SteerInv'  BY <1>8 DEF Claim, Claimable, Put, Idle
<1>9. ASSUME NEW p \in Procs, Refused(p) PROVE SteerInv'  BY <1>9 DEF Refused, Stop, Idle
<1>10. ASSUME NEW p \in Procs, Admit(p) PROVE SteerInv'  BY <1>10 DEF Admit, Goto
<1>11. ASSUME NEW p \in Procs, Effect(p) PROVE SteerInv'  BY <1>11 DEF Effect, Goto
<1>12. ASSUME NEW p \in Procs, Record(p) PROVE SteerInv'
  BY <1>12, SteerIsAlone DEF Record, ResultRecord, Put, Stop, Idle
<1>13. ASSUME NEW p \in Procs, Die(p) PROVE SteerInv'  BY <1>13 DEF Die, Stop, Idle
<1>14. ASSUME NEW p \in Procs, Authorize(p) PROVE SteerInv'
  BY <1>14 DEF Authorize, HumanClaimed, ExecSlot
<1>15. ASSUME NEW p \in Procs, ClaimPermit(p) PROVE SteerInv'
  BY <1>15 DEF ClaimPermit, PermitClaimable, HumanClaimed, Goto
<1>16. ASSUME NEW p \in Procs, VerifyPermit(p) PROVE SteerInv'  BY <1>16 DEF VerifyPermit, Goto
<1>17. ASSUME NEW p \in Procs, Settle(p) PROVE SteerInv'  BY <1>17 DEF Settle, Goto
<1> QED BY <1>1, <1>2, <1>3, <1>4, <1>5, <1>6, <1>7, <1>8, <1>9, <1>10, <1>11, <1>12, <1>13,
    <1>14, <1>15, <1>16, <1>17 DEF Step

\* What is claimed stays claimed.
LEMMA ClaimIsKept ==
  ASSUME SlotInv, Setting, SlotClaimed, Step
  PROVE  SlotClaimed'
<1> USE DEF SlotInv, Types, RecTypes, WorkerTypes, RecordOf, Worker, Requests, SlotClaimed,
    Setting
<1>1. CASE Quiet  BY <1>1 DEF Quiet
<1>2. CASE Steer  BY <1>2 DEF Steer
<1>3. ASSUME NEW r \in Requests, Answered(r) PROVE SlotClaimed'  BY <1>3 DEF Answered
<1>4. ASSUME NEW r \in Requests, Revoke(r) PROVE SlotClaimed'  BY <1>4 DEF Revoke, Revocable, Put
<1>5. ASSUME NEW r \in Requests, SteerRecord(r) PROVE SlotClaimed'  BY <1>5 DEF SteerRecord, Put
<1>6. ASSUME NEW p \in Procs, NEW r \in Requests, Check(p, r) PROVE SlotClaimed'
  BY <1>6 DEF Check, Locking, SlotFree
<1>7. ASSUME NEW p \in Procs, NEW r \in Requests, Consume(p, r) PROVE SlotClaimed'
  BY <1>7 DEF Consume, Consumable, Put
<1>8. ASSUME NEW p \in Procs, Claim(p) PROVE SlotClaimed'  BY <1>8 DEF Claim, Claimable, Put, Idle
<1>9. ASSUME NEW p \in Procs, Refused(p) PROVE SlotClaimed'  BY <1>9 DEF Refused, Stop, Idle
<1>10. ASSUME NEW p \in Procs, Admit(p) PROVE SlotClaimed'  BY <1>10 DEF Admit, Goto
<1>11. ASSUME NEW p \in Procs, Effect(p) PROVE SlotClaimed'  BY <1>11 DEF Effect, Goto
<1>12. ASSUME NEW p \in Procs, Record(p) PROVE SlotClaimed'
  BY <1>12, SteerIsAlone DEF Record, ResultRecord, Put, Stop, Idle
<1>13. ASSUME NEW p \in Procs, Die(p) PROVE SlotClaimed'  BY <1>13 DEF Die, Stop, Idle
<1>14. ASSUME NEW p \in Procs, Authorize(p) PROVE SlotClaimed'
  BY <1>14 DEF Authorize, HumanClaimed, ExecSlot, Spent
<1>15. ASSUME NEW p \in Procs, ClaimPermit(p) PROVE SlotClaimed'
  BY <1>15 DEF ClaimPermit, PermitClaimable, HumanClaimed, Goto, Spent
<1>16. ASSUME NEW p \in Procs, VerifyPermit(p) PROVE SlotClaimed'
  BY <1>16 DEF VerifyPermit, Goto, WorkerInv
<1>17. ASSUME NEW p \in Procs, Settle(p) PROVE SlotClaimed'  BY <1>17 DEF Settle, Goto, WorkerInv
<1> QED BY <1>1, <1>2, <1>3, <1>4, <1>5, <1>6, <1>7, <1>8, <1>9, <1>10, <1>11, <1>12, <1>13,
    <1>14, <1>15, <1>16, <1>17 DEF Step

\* Nobody counts on more than one start, and receipts are true.
LEMMA RunsKept ==
  ASSUME SlotInv, Setting, SlotClaimed => SlotClaimed', Step
  PROVE  RunsInv'
<1> USE DEF SlotInv, Types, RecTypes, WorkerTypes, RecordOf, Worker, Requests, RunsInv, Setting
<1>1. CASE Quiet  BY <1>1 DEF Quiet
<1>2. CASE Steer
  <2>1. PICK r \in Requests : kind[r].route = "steer" /\ rec[r].status = "approved"
    BY <1>2 DEF Steer, SlotInv, SteerInv
  <2>2. permit = "none" /\ runs = 0 /\ \A p \in Procs : w[p].pc = "idle"
    BY <1>2, <2>1, SteerIsAlone DEF Steer, SlotInv, RunsInv
  <2>3. SlotClaimed'
    BY <2>1 DEF SlotClaimed
  <2> QED BY <1>2, <2>2, <2>3 DEF Steer, RunsInv
<1>3. ASSUME NEW r \in Requests, Answered(r) PROVE RunsInv'
  <2>1. CASE steering' = steering
    BY <1>3, <2>1, AnsweredFrame DEF SlotInv, RunsInv, Answered
  <2>2. CASE kind[r].route = "steer" /\ rec[r].status = "pending" /\ steering' = "scheduled"
    <3>1. runs = 0
      BY <2>2, SteerIsAlone DEF SlotInv, RunsInv, SlotClaimed
    <3> QED BY <1>3, <2>2, <3>1, AnsweredFrame, SteerIsAlone DEF SlotInv, RunsInv, Answered
  <2> QED BY <1>3, <2>1, <2>2 DEF Answered
<1>4. ASSUME NEW r \in Requests, Revoke(r) PROVE RunsInv'  BY <1>4 DEF Revoke, Revocable, Put
<1>5. ASSUME NEW r \in Requests, SteerRecord(r) PROVE RunsInv'  BY <1>5 DEF SteerRecord, Put
<1>6. ASSUME NEW p \in Procs, NEW r \in Requests, Check(p, r) PROVE RunsInv'
  BY <1>6 DEF Check, Locking, SlotFree
<1>7. ASSUME NEW p \in Procs, NEW r \in Requests, Consume(p, r) PROVE RunsInv'
  <2>1. runs = 0 /\ runs' = runs /\ UNCHANGED <<kind, permit, steering>>
    BY <1>7, ConsumeFindsSlotFree, SlotIsFree DEF Consume
  <2>2. \A q \in Requests : rec'[q].result = rec[q].result
    BY <1>7 DEF Consume, Put, SlotInv, Types, RecTypes, RecordOf
  <2>3. \A q \in Procs : w'[q].pc \in {w[q].pc, "admitted"}
    BY <1>7 DEF Consume, SlotInv, Types, WorkerTypes
  <2> QED BY <2>1, <2>2, <2>3 DEF SlotInv, RunsInv, Requests
<1>8. ASSUME NEW p \in Procs, Claim(p) PROVE RunsInv'
  <2>1. runs = 0 /\ runs' = runs /\ UNCHANGED <<kind, permit, steering>>
    BY <1>8, ClaimFindsSlotFree, SlotIsFree DEF Claim
  <2>2. /\ \A q \in Requests : rec'[q].result = rec[q].result
        /\ \A q \in Procs : w'[q].pc \in {w[q].pc, "claimed", "idle"}
    BY <1>8, ClaimFrame DEF SlotInv, Idle
  <2> QED BY <2>1, <2>2 DEF SlotInv, RunsInv, Requests
<1>9. ASSUME NEW p \in Procs, Refused(p) PROVE RunsInv'  BY <1>9 DEF Refused, Stop, Idle
<1>10. ASSUME NEW p \in Procs, Admit(p) PROVE RunsInv'
  <2>1. /\ Goto(p, "admitted") /\ w[p].pc = "claimed"
        /\ UNCHANGED <<kind, rec, permit, slotLock, steering, runs>>
    BY <1>10 DEF Admit
  <2> QED BY <2>1, GotoFrame
<1>11. ASSUME NEW p \in Procs, Effect(p) PROVE RunsInv'
  <2>1. /\ runs = 0 /\ runs' = 1 /\ w[p].pc \in Busy
        /\ UNCHANGED <<kind, rec, permit, steering>>
    BY <1>11 DEF Effect, SlotInv, RunsInv, Busy
  <2>2. steering = "none"
    BY <2>1, SteerIsAlone DEF SlotInv, SteerInv, Busy
  <2>3. SlotClaimed
    BY <2>1, SlotIsFree
  <2>4. PICK pc \in {"ran", "executed"} : Goto(p, pc)
    BY <1>11 DEF Effect
  <2>5. \A q \in Procs : q # p => w'[q].pc = w[q].pc /\ w[q].pc \notin Busy
    BY <2>1, <2>4, GotoFrame DEF SlotInv, OneOwner
  <2>6. w'[p].pc = pc
    BY <2>4, GotoFrame DEF SlotInv
  <2> QED BY <2>1, <2>2, <2>3, <2>5, <2>6 DEF RunsInv, Busy
<1>12. ASSUME NEW p \in Procs, Record(p) PROVE RunsInv'
  BY <1>12 DEF Record, ResultRecord, Put, Stop, Idle
<1>13. ASSUME NEW p \in Procs, Die(p) PROVE RunsInv'  BY <1>13 DEF Die, Stop, Idle
<1>14. ASSUME NEW p \in Procs, Authorize(p) PROVE RunsInv'
  <2>1. UNCHANGED <<kind, rec, steering, runs>> /\ permit' # "succeeded"
    BY <1>14 DEF Authorize
  <2>2. \A q \in Procs : w'[q].pc \in {w[q].pc, "authorized"}
    BY <1>14 DEF Authorize, SlotInv, Types, WorkerTypes, Worker
  <2> QED BY <2>1, <2>2 DEF SlotInv, RunsInv, Requests
<1>15. ASSUME NEW p \in Procs, ClaimPermit(p) PROVE RunsInv'
  <2>1. runs = 0 /\ permit' = "executing" /\ UNCHANGED <<kind, rec, steering, runs>>
    BY <1>15, PermitFindsSlotFree, SlotIsFree DEF ClaimPermit
  <2>2. \A q \in Procs : w'[q].pc \in {w[q].pc, "executing"}
    BY <1>15, GotoFrame DEF ClaimPermit, SlotInv
  <2> QED BY <2>1, <2>2 DEF SlotInv, RunsInv, Requests
<1>16. ASSUME NEW p \in Procs, VerifyPermit(p) PROVE RunsInv'
  <2>1. /\ UNCHANGED <<kind, rec, steering, runs>> /\ permit' \in {permit, "unknown"}
        /\ w[p].pc = "executing"
    BY <1>16 DEF VerifyPermit
  <2>2. \A q \in Procs : w'[q].pc = w[q].pc \/ (q = p /\ w'[q].pc \in {"verified", "idle"})
    BY <1>16, GotoFrame DEF VerifyPermit, SlotInv
  <2> QED BY <2>1, <2>2 DEF SlotInv, RunsInv, Requests
<1>17. ASSUME NEW p \in Procs, Settle(p) PROVE RunsInv'  BY <1>17 DEF Settle, Goto
<1> QED BY <1>1, <1>2, <1>3, <1>4, <1>5, <1>6, <1>7, <1>8, <1>9, <1>10, <1>11, <1>12, <1>13,
    <1>14, <1>15, <1>16, <1>17 DEF Step

\* The invariant is inductive.
LEMMA SlotInvKept == SlotInv /\ [Next]_vars => SlotInv'
<1> SUFFICES ASSUME SlotInv, [Next]_vars PROVE SlotInv'
  OBVIOUS
<1>1. Step /\ Setting
  BY Steps, SettingHolds DEF SlotInv
<1>2. Types'
  BY TypesKept DEF SlotInv
<1>3. WorkerInv' /\ RecordInv' /\ AuthorityInv' /\ OneOwner' /\ LockInv' /\ SteerInv'
  BY <1>1, WorkerKept, RecordKept, AuthorityKept, OwnerKept, LockKept, SteerKept DEF SlotInv
<1>4. RunsInv'
  BY <1>1, ClaimIsKept, RunsKept
<1> QED BY <1>2, <1>3, <1>4 DEF SlotInv

\* The invariant holds in every state.
LEMMA SlotInvariant == Spec => []SlotInv
BY InitInv, SlotInvKept, PTL DEF Spec

-----------------------------------------------------------------------------
\* An effect starts only on an authority that still stands (the last checks of
\* human-execution.ts, approval-apply-claim.ts and approval-store.ts), and a
\* receipt of success is true: for any requests, workers and bounds.
THEOREM AuthorityStands == Spec => [](TypeOK /\ AdmittedIsAuthorized /\ SuccessMeansRan)
<1>1. SlotInv => TypeOK
  BY DEF SlotInv, Types, RecTypes, WorkerTypes, RecordOf, TypeOK, Spent
<1>2. SlotInv => AdmittedIsAuthorized
  BY HasRequest DEF SlotInv, WorkerInv, AuthorityInv, Human, AdmittedIsAuthorized
<1>3. SlotInv => SuccessMeansRan
  BY DEF SlotInv, RunsInv, SuccessMeansRan
<1> QED BY <1>1, <1>2, <1>3, SlotInvariant, PTL

\* A revocation that was acknowledged (approval-revocation.ts) found the
\* approval unused, and it is not used afterwards.
THEOREM RevokedApprovalsStayUnused == Spec => []RevokedNeverUsed
<1>1. SlotInv => RevokedNeverUsed
  <2> SUFFICES ASSUME SlotInv, NEW r \in Requests, rec[r].revoked
               PROVE  /\ rec[r].claim = None /\ rec[r].result = None /\ ~rec[r].consumed
                      /\ \A p \in Procs : w[p].req = r => w[p].pc = "checked"
    BY DEF RevokedNeverUsed
  <2>1. rec[r].claim = None /\ rec[r].result = None /\ ~rec[r].consumed
    BY DEF SlotInv, RecordInv
  <2>2. None \notin Procs \cup Requests
    BY SettingHolds DEF SlotInv, Setting
  <2> QED BY <2>1, <2>2 DEF SlotInv, WorkerInv, Human
<1> QED BY <1>1, SlotInvariant, PTL

\* A settled request stays settled (approval-store.ts: first decision wins),
\* whoever decides, expires, cancels or ticks, and whichever worker reports.
THEOREM SettledRequestsStay == Spec => SettledStays
<1>1. ASSUME SlotInv, [Next]_vars, NEW r \in Requests, Settled(r)
      PROVE  StatusStays(r) \/ Concluded(r)
  <2> USE <1>1 DEF StatusStays
  <2>1. rec = [x \in Requests |-> rec[x]] /\ \A x \in Requests : rec[x] \in RecordOf(x)
    BY DEF SlotInv, Types, RecTypes
  <2>2. ASSUME NEW x \in Requests, NEW d, NEW role, NEW by, decide(x, d, role, by)
        PROVE  StatusStays(r)
    BY <2>1, <2>2 DEF decide, Decidable, Settled, Put, Decided
  <2>3. ASSUME NEW x \in Requests, NEW at \in 0..now, Deliver(x, at)
        PROVE  StatusStays(r)
    BY <2>1, <2>3 DEF Deliver, Put, RecordOf
  <2>4. ASSUME NEW x \in Requests, Withdraw(x) \/ Revoke(x) \/ SteerRecord(x)
        PROVE  StatusStays(r)
    BY <2>1, <2>4 DEF Withdraw, Revoke, SteerRecord, Settled, Put, RecordOf, Decided
  <2>5. ASSUME NEW x \in Requests, TickRecord(x)
        PROVE  StatusStays(r)
    BY <2>1, <2>2, <2>5 DEF TickRecord, Put, RecordOf
  <2>6. ASSUME NEW x \in Requests, NEW p \in Procs, Check(p, x) \/ Consume(p, x)
        PROVE  StatusStays(r)
    BY <2>1, <2>6 DEF Check, Consume, Put, RecordOf
  <2>7. ASSUME NEW p \in Procs, Claim(p)
        PROVE  StatusStays(r)
    BY <2>1, <2>7 DEF Claim, Put, RecordOf
  <2>8. ASSUME NEW p \in Procs, Record(p)
        PROVE  StatusStays(r) \/ Concluded(r)
    <3> DEFINE q == w[p].req
    <3>1. /\ w[p].pc = "ran" /\ q \in Requests /\ rec[q].claim = p /\ p # None
          /\ kind[q].roles = {} => rec[q].status = "approved"
      BY <2>8, HasRequest, SettingHolds DEF SlotInv, AuthorityInv, Record, Human, Setting
    <3>2. PICK result \in {"success", "failed"} : rec' = [rec EXCEPT ![q] = ResultRecord(q, result)]
      BY <2>8 DEF Record, Put
    <3>3. ResultRecord(q, result).status \in {rec[q].status, "applied", "failed"}
      BY <2>1, <3>1 DEF ResultRecord, RecordOf
    <3> HIDE DEF q
    <3> QED BY <2>1, <3>1, <3>2, <3>3 DEF Concluded
  <2>9. CASE UNCHANGED rec
    BY <2>9
  <2> QED BY <2>2, <2>3, <2>4, <2>5, <2>6, <2>7, <2>8, <2>9 DEF Next, vars, Decide, Advance, SetHalt,
       TickStart, Steer, DeciderDies, Refused, Admit, Effect, Die, Authorize, ClaimPermit, VerifyPermit, Settle
<1>2. SlotInv /\ [Next]_vars => [\A r \in Requests : Settled(r) => StatusStays(r) \/ Concluded(r)]_vars
  BY <1>1
<1> QED BY <1>2, SlotInvariant, PTL DEF Spec, SettledStays

-----------------------------------------------------------------------------
(* Silence as consent *)

\* What the tick knows when it decides for a silent human.
RecordConsent(r) ==
  /\ rec[r].status = "pending" => rec[r].by # "policy"
  /\ rec[r].delivered # None => rec[r].delivered < Deadline
  /\ rec[r].by = "policy" =>
       /\ kind[r].veto = "window" /\ ~rec[r].fallback /\ rec[r].delivered # None
       /\ activeMinutes(r, rec[r].delivered, now) >= Window
ConsentInv ==
  /\ tick.now <= now /\ \A r \in tick.todo : kind[r].veto # "none"
  /\ \A r \in Requests : RecordConsent(r)

\* Active minutes only add up.
LEMMA ActiveGrows ==
  ASSUME NEW r \in Requests, NEW from \in Nat, NEW t \in Nat, NEW u \in Nat, t <= u
  PROVE  /\ activeMinutes(r, from, t) \in Nat /\ activeMinutes(r, from, u) \in Nat
         /\ activeMinutes(r, from, t) <= activeMinutes(r, from, u)
<1> DEFINE M(x) == {m \in from..(x - 1) : m \in kind[r].active}
<1>1. ASSUME NEW x \in Nat PROVE IsFiniteSet(M(x)) /\ Cardinality(M(x)) \in Nat
  <2>1. IsFiniteSet(from..(x - 1))
    BY FS_Interval
  <2> QED BY <2>1, FS_Subset, FS_CardinalityType
<1>2. M(t) \subseteq M(u)
  OBVIOUS
<1> QED BY <1>1, <1>2, FS_Subset DEF activeMinutes

\* A step that neither answers a record nor touches the clock or the tick's
\* list leaves its consent alone.
LEMMA ConsentFrame ==
  ASSUME ConsentInv, UNCHANGED <<kind, now, tick>>,
         \A r \in Requests : /\ rec'[r].by = rec[r].by /\ rec'[r].delivered = rec[r].delivered
                             /\ rec'[r].fallback = rec[r].fallback
                             /\ rec'[r].status = "pending" => rec[r].status = "pending"
  PROVE  ConsentInv'
BY DEF ConsentInv, RecordConsent, activeMinutes, Requests

\* A step on one record only has to answer for that record.
LEMMA ConsentPut ==
  ASSUME ConsentInv, NEW r \in Requests, rec = [x \in Requests |-> rec[x]],
         UNCHANGED <<kind, now>>, tick' \in {tick, [tick EXCEPT !.todo = @ \ {r}]},
         tick \in [now : 0..MaxTime, todo : SUBSET Requests],
         rec' = [rec EXCEPT ![r] = rec'[r]], RecordConsent(r)'
  PROVE  ConsentInv'
<1>1. tick'.now = tick.now /\ tick'.todo \subseteq tick.todo
  OBVIOUS
<1>2. ASSUME NEW x \in Requests, x # r PROVE RecordConsent(x)'
  <2>1. rec'[x] = rec[x] /\ RecordConsent(x)
    BY <1>2 DEF ConsentInv
  <2> QED BY <2>1 DEF RecordConsent, activeMinutes
<1> QED BY <1>1, <1>2 DEF ConsentInv, Requests

LEMMA ConsentKept ==
  ASSUME SlotInv, ConsentInv, [Next]_vars
  PROVE  ConsentInv'
<1>1. /\ rec = [x \in Requests |-> rec[x]] /\ \A x \in Requests : rec[x] \in RecordOf(x)
      /\ now \in Nat /\ tick.now \in Nat /\ Setting /\ kind \in Setups /\ None # "policy"
      /\ tick \in [now : 0..MaxTime, todo : SUBSET Requests]
  BY SettingHolds, ApprovalAssumption DEF SlotInv, Types, RecTypes
<1>2. CASE Advance
  <2>1. now' = now + 1 /\ UNCHANGED <<kind, rec, tick>>
    BY <1>2 DEF Advance
  <2>2. ASSUME NEW r \in Requests PROVE RecordConsent(r)'
    <3>1. CASE rec[r].by = "policy"
      <4>1. rec[r].delivered \in Nat /\ activeMinutes(r, rec[r].delivered, now) >= Window
        BY <1>1, <3>1, ApprovalAssumption DEF RecordOf, ConsentInv, RecordConsent
      <4>2. now + 1 \in Nat /\ now <= now + 1
        BY <1>1
      <4>3. activeMinutes(r, rec[r].delivered, now + 1) >= Window
        BY <1>1, <4>1, <4>2, ActiveGrows, ApprovalAssumption
      <4>4. activeMinutes(r, rec[r].delivered, now)' = activeMinutes(r, rec[r].delivered, now + 1)
        BY <2>1 DEF activeMinutes
      <4> QED BY <2>1, <4>3, <4>4 DEF ConsentInv, RecordConsent
    <3>2. CASE rec[r].by # "policy"
      BY <2>1, <3>2 DEF ConsentInv, RecordConsent
    <3> QED BY <3>1, <3>2
  <2> QED BY <1>1, <2>1, <2>2 DEF ConsentInv, Requests
<1>3. CASE SetHalt \/ DeciderDies \/ UNCHANGED vars
  BY <1>1, <1>3 DEF ConsentInv, RecordConsent, activeMinutes, Requests, SetHalt, DeciderDies, vars
<1>4. CASE TickStart
  BY <1>1, <1>4 DEF ConsentInv, RecordConsent, activeMinutes, Requests, TickStart
<1>5. ASSUME NEW r \in Requests, NEW d \in {"approved", "rejected"}, NEW role, NEW by,
             decide(r, d, role, by), UNCHANGED <<kind, now>>,
             tick' \in {tick, [tick EXCEPT !.todo = @ \ {r}]},
             by = "policy" =>
               /\ kind[r].veto = "window" /\ ~rec[r].fallback /\ rec[r].delivered # None
               /\ activeMinutes(r, rec[r].delivered, now) >= Window
      PROVE  ConsentInv'
  <2>1. rec[r] \in RecordOf(r) /\ RecordConsent(r)
    BY <1>1 DEF ConsentInv
  <2>2. /\ rec' = [rec EXCEPT ![r] = rec'[r]]
        /\ rec'[r].delivered = rec[r].delivered /\ rec'[r].fallback = rec[r].fallback
        /\ \/ rec'[r].status = "expired" /\ rec[r].status = "pending" /\ rec'[r].by = rec[r].by
           \/ rec'[r].status = d /\ rec'[r].by = by
    <3> DEFINE record == DecidedRecord(r, d, role, by)
               late == [rec[r] EXCEPT !.status = "expired"]
    <3>1. /\ record.status = d /\ record.by = by
          /\ record.delivered = rec[r].delivered /\ record.fallback = rec[r].fallback
      BY <2>1 DEF DecidedRecord, RecordOf
    <3>2. /\ late.status = "expired" /\ late.by = rec[r].by
          /\ late.delivered = rec[r].delivered /\ late.fallback = rec[r].fallback
      BY <2>1 DEF RecordOf
    <3>3. \/ rec[r].status = "pending" /\ rec' = [rec EXCEPT ![r] = late]
          \/ rec' = [rec EXCEPT ![r] = record]
      BY <1>5 DEF decide, Put
    <3> HIDE DEF record, late
    <3> QED BY <1>1, <3>1, <3>2, <3>3
  <2>3. RecordConsent(r)'
    BY <1>5, <2>1, <2>2 DEF RecordConsent, activeMinutes
  <2> QED BY <1>1, <1>5, <2>2, <2>3, ConsentPut
<1>6. ASSUME NEW r \in Requests, NEW at \in 0..now, Deliver(r, at)
      PROVE  ConsentInv'
  <2>1. rec[r] \in RecordOf(r) /\ RecordConsent(r) /\ rec[r].by # "policy" /\ rec[r].delivered = None
    BY <1>1, <1>6 DEF ConsentInv, RecordConsent, Deliver
  <2>2. evaluateVetoWindow(r, at) # "undelivered" => at < Deadline
    BY <1>1, <2>1, ApprovalAssumption DEF evaluateVetoWindow
  <2>3. /\ rec' = [rec EXCEPT ![r] = rec'[r]] /\ rec'[r].by = rec[r].by
        /\ rec'[r].delivered = None \/ (rec'[r].delivered = at /\ at < Deadline)
    BY <1>1, <1>6, <2>1, <2>2 DEF Deliver, Put, RecordOf
  <2>4. RecordConsent(r)'
    BY <2>1, <2>3 DEF RecordConsent
  <2>5. UNCHANGED <<kind, now, tick>>
    BY <1>6 DEF Deliver
  <2> QED BY <1>1, <2>3, <2>4, <2>5, ConsentPut
<1>7. ASSUME NEW r \in Requests, TickRecord(r)
      PROVE  ConsentInv'
  <2>1. /\ rec[r] \in RecordOf(r) /\ RecordConsent(r) /\ kind[r].veto \in {"window", "shadow"}
        /\ UNCHANGED <<kind, now>> /\ tick' = [tick EXCEPT !.todo = @ \ {r}]
    BY <1>1, <1>7, ApprovalAssumption DEF ConsentInv, TickRecord, Requests
  <2>2. CASE UNCHANGED rec
    <3>1. RecordConsent(r)'
      BY <2>1, <2>2 DEF RecordConsent, activeMinutes
    <3> QED BY <1>1, <2>1, <2>2, <3>1, ConsentPut
  <2>3. CASE /\ StillPending(r)
             /\ \/ Put(r, [rec[r] EXCEPT !.fallback = TRUE])
                \/ Put(r, [rec[r] EXCEPT !.shadowElapsed = TRUE])
    <3>1. /\ rec' = [rec EXCEPT ![r] = rec'[r]]
          /\ rec'[r].by = rec[r].by /\ rec'[r].delivered = rec[r].delivered
      BY <1>1, <2>1, <2>3 DEF Put, RecordOf
    <3>2. RecordConsent(r)'
      BY <2>1, <2>3, <3>1 DEF RecordConsent, StillPending
    <3> QED BY <1>1, <2>1, <3>1, <3>2, ConsentPut
  <2>4. CASE evaluateVetoWindow(r, tick.now) = "elapsed" /\ decide(r, "approved", None, "policy")
    <3>1. /\ ~rec[r].fallback /\ rec[r].delivered # None /\ kind[r].veto = "window"
          /\ Proceeds(r, tick.now)
      BY <2>1, <2>4 DEF evaluateVetoWindow
    <3>2. PICK t \in Deadlines(r, rec[r].delivered) : t <= tick.now
      BY <3>1 DEF Proceeds
    <3>3. /\ rec[r].delivered \in Nat /\ t \in Nat /\ t <= now
          /\ activeMinutes(r, rec[r].delivered, t) >= Window
      BY <1>1, <2>1, <3>1, <3>2, ApprovalAssumption DEF RecordOf, Deadlines, ConsentInv
    <3>4. activeMinutes(r, rec[r].delivered, now) >= Window
      BY <1>1, <3>3, ActiveGrows, ApprovalAssumption
    <3> QED BY <1>5, <2>1, <2>4, <3>1, <3>4
  <2> QED BY <1>7, <2>2, <2>3, <2>4 DEF TickRecord
<1>8. ASSUME NEW r \in Requests, Withdraw(r) \/ Revoke(r) \/ SteerRecord(r)
      PROVE  ConsentInv'
  <2>1. CASE Withdraw(r)
    BY <1>1, <2>1, ConsentFrame DEF Withdraw, Put, RecordOf
  <2>2. CASE Revoke(r)
    BY <1>1, <2>2, ConsentFrame DEF Revoke, Put, RecordOf
  <2>3. CASE SteerRecord(r)
    BY <1>1, <2>3, ConsentFrame DEF SteerRecord, Put, RecordOf
  <2> QED BY <1>8, <2>1, <2>2, <2>3
<1>9. ASSUME NEW p \in Procs, NEW r \in Requests, Check(p, r) \/ Consume(p, r)
      PROVE  ConsentInv'
  <2>1. CASE Check(p, r)
    BY <1>1, <2>1, ConsentFrame DEF Check
  <2>2. CASE Consume(p, r)
    BY <1>1, <2>2, ConsentFrame DEF Consume, Put, RecordOf
  <2> QED BY <1>9, <2>1, <2>2
<1>10. ASSUME NEW p \in Procs, Claim(p)
       PROVE  ConsentInv'
  BY <1>1, <1>10, ConsentFrame DEF Claim, Put, RecordOf
<1>11. ASSUME NEW p \in Procs, Record(p)
       PROVE  ConsentInv'
  BY <1>1, <1>11, ConsentFrame DEF Record, ResultRecord, Put, RecordOf
<1>12. CASE UNCHANGED <<kind, rec, now, tick>>
  BY <1>12, ConsentFrame
<1>13. ASSUME NEW r \in Requests, NEW d \in {"approved", "rejected"}, NEW role, Decide(r, d, role)
       PROVE  ConsentInv'
  BY <1>5, <1>13 DEF Decide
<1> QED BY <1>2, <1>3, <1>4, <1>6, <1>7, <1>8, <1>9, <1>10, <1>11, <1>12, <1>13 DEF Next, Steer,
     Refused, Admit, Effect, Die, Authorize, ClaimPermit, VerifyPermit, Settle

\* Silence is consent only after a notification delivered before its deadline
\* and Window active minutes since (approval-veto-window.ts), however late
\* receipts arrive and ticks work through their list.
THEOREM SilenceIsConsent == Spec => []ConsentIsSound
<1>1. Init => ConsentInv
  <2> SUFFICES ASSUME Init PROVE ConsentInv
    OBVIOUS
  <2>1. rec = [r \in Requests |-> NewRecord(r)] /\ tick = [now |-> 0, todo |-> {}] /\ now = 0
    BY DEF Init
  <2>2. ASSUME NEW r \in Requests PROVE rec[r].by = None /\ rec[r].delivered = None
    BY <2>1 DEF NewRecord
  <2> QED BY <2>1, <2>2, ApprovalAssumption DEF ConsentInv, RecordConsent
<1>2. ConsentInv => ConsentIsSound
  BY DEF ConsentInv, RecordConsent, ConsentIsSound
<1> QED BY <1>1, <1>2, ConsentKept, SlotInvariant, PTL DEF Spec

\* Every step claims the slot, starts the effect of a claimed slot once, or
\* does neither.
LEMMA StepIsSlotStep ==
  SlotInv /\ [Next]_vars => [Slot!Next]_(Slot!vars)
<1> SUFFICES ASSUME SlotInv, [Next]_vars PROVE Slot!Next \/ UNCHANGED Slot!vars
  OBVIOUS
<1>1. Step /\ Setting /\ (SlotClaimed => SlotClaimed')
  BY Steps, SettingHolds, ClaimIsKept DEF SlotInv
<1>2. CASE runs' = runs
  BY <1>1, <1>2 DEF Slot!Next, Slot!Claim, Slot!vars, SlotClaimed
<1>3. CASE runs' # runs
  <2>1. Steer \/ \E p \in Procs : Effect(p)
    BY <1>1, <1>3 DEF Step, Quiet, Answered, Revoke, SteerRecord, Check, Consume, Claim, Refused,
       Admit, Record, Die, Authorize, ClaimPermit, VerifyPermit, Settle
  <2>2. runs = 0 /\ runs' = 1
    BY <2>1 DEF SlotInv, RunsInv, Steer, Effect
  <2>3. SlotClaimed
    BY <2>1, SlotIsFree DEF SlotInv, SteerInv, Steer, Effect, Busy, SlotClaimed
  <2> QED BY <1>1, <2>2, <2>3 DEF Slot!Next, Slot!Run
<1> QED BY <1>2, <1>3

\* Whatever dies or interleaves, the effect is claimed before it starts, starts
\* at most once, and the claim is never given back: the records, the permit and
\* the workers implement the abstract slot.
THEOREM ApprovalsImplementSlot == Spec => ImplementsEffectSlot
<1>1. Init => SlotInv /\ Slot!Init
  <2> SUFFICES ASSUME Init PROVE SlotInv /\ Slot!Init
    OBVIOUS
  <2>1. rec = [r \in Requests |-> NewRecord(r)]
    BY DEF Init
  <2>2. ASSUME NEW r \in Requests
        PROVE  rec[r].claim = None /\ ~rec[r].consumed /\ rec[r].status = "pending"
    <3>1. rec[r] = NewRecord(r)
      BY <2>1
    <3> QED BY <3>1 DEF NewRecord
  <2>3. permit = "none" /\ runs = 0
    BY DEF Init
  <2>4. ~SlotClaimed
    BY <2>2, <2>3 DEF SlotClaimed
  <2> QED BY <2>3, <2>4, InitInv DEF Slot!Init, SlotClaimed
<1>2. SlotInv /\ [Next]_vars => SlotInv'
  BY SlotInvKept
<1>3. SlotInv /\ [Next]_vars => [Slot!Next]_(Slot!vars)
  BY StepIsSlotStep
<1> QED BY <1>1, <1>2, <1>3, PTL DEF Spec, ImplementsEffectSlot, Slot!Spec
=============================================================================
