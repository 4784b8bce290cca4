----------------------- MODULE DelegationIdempotency ------------------------
(***************************************************************************)
(* Idempotent delegation (libs/core/delegation-idempotency.ts) for one     *)
(* idempotency key: at most one execution, joined while it runs and        *)
(* replayed afterwards, across the calls of one process, the processes of  *)
(* one host and other hosts.                                               *)
(*                                                                         *)
(* The reservation file is read and written under a file lock (Mutex), so  *)
(* a read-modify-write is one step; the liveness probe of `reserve' comes  *)
(* before the lock and is a step of its own, during which other processes  *)
(* run but not the calls of the same process (reserve is synchronous).     *)
(*                                                                         *)
(* A process stands for one module instance (OWNER_INSTANCE).  `call' is   *)
(* what reserved_at tells apart.  Any read may find the file unreadable    *)
(* and any settlement may fail on all its attempts (faults).  Calls        *)
(* without a key, and nested ones, pass through and are left out.          *)
(***************************************************************************)
EXTENDS Naturals, FiniteSets

CONSTANTS
  Calls, Procs,
  Deployments,   \* where calls run and what they ask for: [proc, host, payload]
  NoCall, NoProc,
  MaxFaults,     \* unreadable reservations and failed settlements
  MaxCrashes

ASSUME CallsAssumption ==
  /\ \A d \in Deployments : d.proc \in [Calls -> Procs]
  /\ NoCall \notin Calls /\ NoProc \notin Procs
  /\ MaxFaults \in Nat /\ MaxCrashes \in Nat

VARIABLES
  deployment, \* fixed
  record,     \* the reservation: status, owner, call, hash, result
  fresh,      \* its heartbeat is younger than the lease
  inFlight,   \* per process: the call whose promise the map holds
  pc,
  peeked,     \* per call: the in-flight reservation whose owner it found gone
  joined,     \* per call: the call whose promise it awaits
  answer,     \* what the caller was told
  ran,        \* calls whose delegated execution has started
  up,         \* processes that run
  lapsed,     \* has a heartbeat ever been late?
  faultsLeft

vars == <<deployment, record, fresh, inFlight, pc, peeked, joined, answer, ran, up, lapsed,
          faultsLeft>>

ProcOf == deployment.proc        \* the process a call runs in
HostOf == deployment.host        \* the host of a process
PayloadOf == deployment.payload  \* the payload hash of a call

Absent == [status |-> "absent", owner |-> NoProc, call |-> NoCall, result |-> "none"]
Answers == {"none", "value", "failed", "interrupted", "conflict", "timeout", "notStarted"}

Init ==
  /\ deployment \in Deployments
  /\ record = Absent
  /\ fresh = FALSE
  /\ inFlight = [p \in Procs |-> NoCall]
  /\ pc = [c \in Calls |-> "top"]
  /\ peeked = [c \in Calls |-> NoCall]
  /\ joined = [c \in Calls |-> NoCall]
  /\ answer = [c \in Calls |-> "none"]
  /\ ran = {}
  /\ up = Procs
  /\ lapsed = FALSE
  /\ faultsLeft = MaxFaults
-----------------------------------------------------------------------------
Goto(c, l) == pc' = [pc EXCEPT ![c] = l]
Tell(c, a) == Goto(c, "done") /\ answer' = [answer EXCEPT ![c] = a]
Fault == faultsLeft > 0 /\ faultsLeft' = faultsLeft - 1

\* The call's turn of the event loop: nobody in its process is in `reserve'.
Turn(c, l) ==
  /\ pc[c] = l
  /\ \A d \in Calls \ {c} : ProcOf[d] = ProcOf[c] => pc[d] # "reserve"

SamePayload(c, d) == PayloadOf[c] = PayloadOf[d]

\* Join the execution of this process, or refuse another payload.
Join(c) ==
  LET d == inFlight[ProcOf[c]] IN
    /\ Turn(c, "top") /\ d # NoCall
    /\ \/ /\ SamePayload(c, d)
          /\ joined' = [joined EXCEPT ![c] = d]
          /\ Goto(c, "join") /\ UNCHANGED answer
       \/ ~SamePayload(c, d) /\ Tell(c, "conflict") /\ UNCHANGED joined
    /\ UNCHANGED <<deployment, record, fresh, inFlight, peeked, ran, up, lapsed, faultsLeft>>

\* ownerGoneReason: lost in this process, exited on this host, or silent on
\* another one.
\* Mutant: a pid of another host is probed locally.
OwnerGone_Probe(p) == record.owner = p \/ record.owner \notin up \/ HostOf[record.owner] # HostOf[p]
OwnerGone(p) ==
  \/ record.owner = p
  \/ HostOf[record.owner] = HostOf[p] /\ record.owner \notin up
  \/ HostOf[record.owner] # HostOf[p] /\ ~fresh

\* reserve: the peek and the probe, before the lock ...
Peek(c) ==
  /\ Turn(c, "top") /\ inFlight[ProcOf[c]] = NoCall
  /\ \/ /\ peeked' = [peeked EXCEPT ![c] =
             IF record.status = "in_flight" /\ SamePayload(c, record.call) /\ OwnerGone(ProcOf[c])
             THEN record.call ELSE NoCall]
        /\ Goto(c, "reserve") /\ UNCHANGED <<answer, faultsLeft>>
     \/ Fault /\ Tell(c, "notStarted") /\ UNCHANGED peeked
  /\ UNCHANGED <<deployment, record, fresh, inFlight, joined, ran, up, lapsed>>

\* ... and the decision under the lock: reserve, ...
Reservable(c) == record.status \in {"absent", "released"}
Reserve(c) ==
  /\ pc[c] = "reserve" /\ Reservable(c)
  /\ record' = [status |-> "in_flight", owner |-> ProcOf[c], call |-> c, result |-> "none"]
  /\ fresh' = TRUE
  /\ inFlight' = [inFlight EXCEPT ![ProcOf[c]] = c]
  /\ peeked' = [peeked EXCEPT ![c] = NoCall]
  /\ Goto(c, "exec")
  /\ UNCHANGED <<deployment, joined, answer, ran, up, lapsed, faultsLeft>>

\* ... refuse, replay or wait; an in-flight reservation is settled as
\* interrupted only if it is the one that was probed.
VerdictApplies(c) == peeked[c] # NoCall /\ peeked[c] = record.call
Interrupted(r) == [r EXCEPT !.status = "terminal", !.result = "interrupted"]
Replay(c) ==
  /\ pc[c] = "reserve" /\ record.status \in {"in_flight", "terminal"}
  /\ peeked' = [peeked EXCEPT ![c] = NoCall]
  /\ \/ ~SamePayload(c, record.call) /\ Tell(c, "conflict") /\ UNCHANGED record
     \/ /\ SamePayload(c, record.call) /\ record.status = "terminal"
        /\ Tell(c, record.result) /\ UNCHANGED record
     \/ /\ SamePayload(c, record.call) /\ record.status = "in_flight" /\ ~VerdictApplies(c)
        /\ Goto(c, "wait") /\ UNCHANGED <<record, answer>>
     \/ /\ SamePayload(c, record.call) /\ record.status = "in_flight" /\ VerdictApplies(c)
        /\ record' = Interrupted(record)
        /\ Tell(c, "interrupted")
  /\ UNCHANGED <<deployment, fresh, inFlight, joined, ran, up, lapsed, faultsLeft>>

\* The lock or the file fails inside reserve.
ReserveFails(c) ==
  /\ pc[c] = "reserve" /\ Fault
  /\ Tell(c, "notStarted")
  /\ peeked' = [peeked EXCEPT ![c] = NoCall]
  /\ UNCHANGED <<deployment, record, fresh, inFlight, joined, ran, up, lapsed>>

\* Mutant: a caller polls without a deadline.
Poll_NoDeadline(c) ==
  /\ Turn(c, "wait") /\ Goto(c, "top")
  /\ UNCHANGED <<deployment, record, fresh, inFlight, peeked, joined, answer, ran, up, lapsed, faultsLeft>>
\* Sleep and poll again, until maxWaitMs or the caller's own abort.
Poll(c) ==
  /\ Turn(c, "wait")
  /\ \/ Goto(c, "top") /\ UNCHANGED answer
     \/ Tell(c, "timeout")
  /\ UNCHANGED <<deployment, record, fresh, inFlight, peeked, joined, ran, up, lapsed, faultsLeft>>
-----------------------------------------------------------------------------
\* The delegated execution starts (tracker.started).
Start(c) ==
  /\ Turn(c, "exec") /\ c \notin ran
  /\ ran' = ran \cup {c}
  /\ UNCHANGED <<deployment, record, fresh, inFlight, pc, peeked, joined, answer, up, lapsed, faultsLeft>>

\* Mutant: the owner also overwrites what another caller has settled.
Updatable_OwnerOnly(c) == record.owner = ProcOf[c]
Updatable(c) == record.owner = ProcOf[c] /\ record.status = "in_flight"
\* The owner's update of its own in-flight reservation; it may find it settled
\* by another caller, and it may fail.
Update(c, new) ==
  \/ Updatable(c) /\ record' = new /\ UNCHANGED faultsLeft
  \/ ~Updatable(c) /\ UNCHANGED <<record, faultsLeft>>
  \/ Fault /\ UNCHANGED record

\* The execution answers or fails once it has started, or fails without a
\* proof that it has not.
Settle(c) ==
  /\ Turn(c, "exec")
  /\ \E a \in {"value", "failed"} :
       /\ a = "value" => c \in ran
       /\ Update(c, [record EXCEPT !.status = "terminal", !.result = a])
       /\ answer' = [answer EXCEPT ![c] = a]
  /\ Goto(c, "settled")
  /\ UNCHANGED <<deployment, fresh, inFlight, peeked, joined, ran, up, lapsed>>

\* Mutant: any failure releases the key.
NotStarted_Assumed(c) == TRUE
\* It fails provably before its start (spawn failure, aborted before dispatch):
\* the key is released.
NotStarted(c) == c \notin ran
ReleaseKey(c) ==
  /\ Turn(c, "exec") /\ NotStarted(c)
  /\ Update(c, [record EXCEPT !.status = "released"])
  /\ answer' = [answer EXCEPT ![c] = "notStarted"]
  /\ Goto(c, "settled")
  /\ UNCHANGED <<deployment, fresh, inFlight, peeked, joined, ran, up, lapsed>>

\* The owner's finally: it removes its own promise only.
Cleanup(c) ==
  /\ Turn(c, "settled")
  /\ inFlight' = [inFlight EXCEPT ![ProcOf[c]] = IF @ = c THEN NoCall ELSE @]
  /\ Goto(c, "done")
  /\ UNCHANGED <<deployment, record, fresh, peeked, joined, answer, ran, up, lapsed, faultsLeft>>

\* Mutant: a joiner drops whatever promise is there.
DropJoined_Any(c) == NoCall
DropJoined(c) ==
  LET d == inFlight[ProcOf[c]] IN IF d = joined[c] THEN NoCall ELSE d
\* A joiner gets the answer; if the key was released it competes for it.
Joined(c) ==
  LET d == joined[c] IN
    /\ Turn(c, "join") /\ answer[d] # "none"
    /\ \/ /\ answer[d] = "notStarted"
          /\ inFlight' = [inFlight EXCEPT ![ProcOf[c]] = DropJoined(c)]
          /\ Goto(c, "top") /\ UNCHANGED answer
       \/ answer[d] # "notStarted" /\ Tell(c, answer[d]) /\ UNCHANGED inFlight
    /\ joined' = [joined EXCEPT ![c] = NoCall]
    /\ UNCHANGED <<deployment, record, fresh, peeked, ran, up, lapsed, faultsLeft>>

\* A joiner's own signal: it stops waiting, the execution goes on.
JoinAborted(c) ==
  /\ Turn(c, "join")
  /\ Tell(c, "timeout")
  /\ joined' = [joined EXCEPT ![c] = NoCall]
  /\ UNCHANGED <<deployment, record, fresh, inFlight, peeked, ran, up, lapsed, faultsLeft>>
-----------------------------------------------------------------------------
\* The owner's timer, and a lease that runs out without it: the owner is gone,
\* its event loop was blocked, or the clocks of the hosts differ.
Heartbeat(c) ==
  /\ Turn(c, "exec") /\ Updatable(c)
  /\ fresh' = TRUE
  /\ UNCHANGED <<deployment, record, inFlight, pc, peeked, joined, answer, ran, up, lapsed, faultsLeft>>
LeaseLapses ==
  /\ record.status = "in_flight" /\ fresh
  /\ fresh' = FALSE
  /\ lapsed' = TRUE
  /\ UNCHANGED <<deployment, record, inFlight, pc, peeked, joined, answer, ran, up, faultsLeft>>

Crash(p) ==
  /\ p \in up /\ Cardinality(Procs \ up) < MaxCrashes
  /\ up' = up \ {p}
  /\ pc' = [c \in Calls |-> IF ProcOf[c] = p THEN "dead" ELSE pc[c]]
  /\ inFlight' = [inFlight EXCEPT ![p] = NoCall]
  /\ peeked' = [c \in Calls |-> IF ProcOf[c] = p THEN NoCall ELSE peeked[c]]
  /\ joined' = [c \in Calls |-> IF ProcOf[c] = p THEN NoCall ELSE joined[c]]
  /\ UNCHANGED <<deployment, record, fresh, answer, ran, lapsed, faultsLeft>>

CallStep(c) ==
  \/ Join(c) \/ Peek(c) \/ Reserve(c) \/ Replay(c) \/ ReserveFails(c) \/ Poll(c)
  \/ Settle(c) \/ ReleaseKey(c) \/ Cleanup(c) \/ Joined(c) \/ JoinAborted(c)
Next ==
  \/ \E c \in Calls : CallStep(c) \/ Start(c) \/ Heartbeat(c)
  \/ \E p \in Procs : Crash(p)
  \/ LeaseLapses
Spec == Init /\ [][Next]_vars
\* Event loops run, delegated executions end (their backends have deadlines of
\* their own), and a caller that polls for ever reaches its maxWaitMs.
FairSpec ==
  /\ Spec
  /\ \A c \in Calls :
       WF_vars(CallStep(c)) /\ SF_vars(Poll(c) /\ answer'[c] = "timeout")
-----------------------------------------------------------------------------
TypeOK ==
  /\ deployment \in Deployments
  /\ record \in [status : {"absent", "in_flight", "terminal", "released"},
                 owner : Procs \cup {NoProc}, call : Calls \cup {NoCall}, result : Answers]
  /\ fresh \in BOOLEAN /\ lapsed \in BOOLEAN
  /\ inFlight \in [Procs -> Calls \cup {NoCall}]
  /\ pc \in [Calls -> {"top", "reserve", "wait", "exec", "settled", "join", "done", "dead"}]
  /\ peeked \in [Calls -> Calls \cup {NoCall}]
  /\ joined \in [Calls -> Calls \cup {NoCall}]
  /\ answer \in [Calls -> Answers]
  /\ ran \in SUBSET Calls /\ up \in SUBSET Procs
  /\ faultsLeft \in 0..MaxFaults

\* "Run execute at most once per options.idempotencyKey": through crashes,
\* late heartbeats, releases, joins and failed settlements.
AtMostOnce == \A c, d \in ran : c = d

\* A terminal reservation is never written again, not by the late owner it was
\* taken from: later replays agree with earlier ones.
TerminalIsFinal == [][record.status = "terminal" => record' = record]_vars

\* "The owning execution was lost in this process" is never said of one that
\* runs: the promise map tracks it until it has settled, whatever its joiners do.
RunningIsTracked ==
  \A c \in Calls : pc[c] = "exec" => inFlight[ProcOf[c]] = c

\* Nobody is told "interrupted" without a crash, a late heartbeat or a failed
\* settlement.
InterruptedHasCause ==
  \A c \in Calls : answer[c] = "interrupted" =>
    up # Procs \/ lapsed \/ faultsLeft < MaxFaults

\* Every caller in a process that lives is answered.
EveryCallAnswered == \A c \in Calls : <>(pc[c] \in {"done", "dead"})
=============================================================================
