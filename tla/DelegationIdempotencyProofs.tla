--------------------- MODULE DelegationIdempotencyProofs ---------------------
(***************************************************************************)
(* Proofs about DelegationIdempotency: for any calls, processes, hosts,    *)
(* payloads, crashes and faults, one key starts at most one execution.     *)
(*                                                                         *)
(* AtMostOnce is not inductive.  IdempotencyInv adds that a running call   *)
(* owns the reservation (ExecOwns) and is tracked in its process           *)
(* (RunningIsTracked), that whoever has started is still the call the      *)
(* reservation names (RanIsReserved), that the calls of one process do not *)
(* meet in `reserve' (CallInv), and that every step towards "interrupted"  *)
(* has a cause (CauseInv).                                                 *)
(***************************************************************************)
EXTENDS DelegationIdempotency, TLAPS

Unanswered == {"top", "reserve", "wait", "exec", "join"}
CallInv ==
  /\ \A c \in Calls :
       /\ pc[c] \in Unanswered => answer[c] = "none"
       /\ pc[c] = "join" => joined[c] \in Calls
       /\ pc[c] = "reserve" => inFlight[ProcOf[c]] = NoCall
  /\ \A c, d \in Calls :
       pc[c] = "reserve" /\ pc[d] = "reserve" /\ ProcOf[c] = ProcOf[d] => c = d

\* A running call's reservation names it until it has settled.
ExecOwns ==
  \A c \in Calls : pc[c] = "exec" =>
    record.call = c /\ record.owner = ProcOf[c] /\ record.status \in {"in_flight", "terminal"}
\* So does that of a call that has started, for ever.
RanIsReserved ==
  \A c \in ran : record.call = c /\ record.status \in {"in_flight", "terminal"}

\* Why a reservation may be called interrupted.
Cause == up # Procs \/ lapsed \/ faultsLeft < MaxFaults
CauseInv ==
  /\ record.status = "in_flight" =>
       /\ record.call \in Calls /\ record.owner \in Procs
       /\ fresh \/ lapsed
       /\ pc[record.call] = "exec" \/ Cause
  /\ record.result = "interrupted" => Cause
  /\ \A c \in Calls : peeked[c] # NoCall => Cause
  /\ \A c \in Calls : answer[c] = "interrupted" => Cause

Reservations ==
  [status : {"absent", "in_flight", "terminal", "released"},
   owner : Procs \cup {NoProc}, call : Calls \cup {NoCall}, result : Answers]

IdempotencyInv ==
  TypeOK /\ CallInv /\ ExecOwns /\ RanIsReserved /\ RunningIsTracked /\ CauseInv
-----------------------------------------------------------------------------
LEMMA InitInv == Init => IdempotencyInv
<1> SUFFICES ASSUME Init PROVE IdempotencyInv
  OBVIOUS
<1>1. TypeOK
  <2>1. record \in Reservations
    BY DEF Init, Absent, Answers, Reservations
  <2>2. faultsLeft \in 0..MaxFaults
    BY CallsAssumption DEF Init
  <2> QED BY <2>1, <2>2 DEF Init, TypeOK, Answers, Reservations
<1>2. CallInv /\ ExecOwns /\ RanIsReserved /\ RunningIsTracked
  BY DEF Init, CallInv, ExecOwns, RanIsReserved, RunningIsTracked, Absent, Unanswered
<1>3. CauseInv
  BY DEF Init, CauseInv, Absent
<1> QED BY <1>1, <1>2, <1>3 DEF IdempotencyInv

\* Settling a reservation changes nothing but its status and its result.
LEMMA Settled ==
  ASSUME TypeOK, NEW a \in Answers
  PROVE  LET new == [record EXCEPT !.status = "terminal", !.result = a]
         IN  /\ new \in Reservations /\ new.status = "terminal" /\ new.result = a
             /\ new.owner = record.owner /\ new.call = record.call
BY DEF TypeOK, Reservations, Answers

\* A caller that replays writes only the verdict it has probed for ...
LEMMA ReplayWrites ==
  ASSUME TypeOK, NEW c \in Calls, Replay(c)
  PROVE  \/ record' = record
         \/ /\ record' \in Reservations /\ record'.status = "terminal"
            /\ record'.result = "interrupted" /\ VerdictApplies(c)
            /\ record'.owner = record.owner /\ record'.call = record.call
<1>1. "interrupted" \in Answers
  BY DEF Answers
<1>2. record' = record \/ (record' = Interrupted(record) /\ VerdictApplies(c))
  BY DEF Replay
<1>3. ASSUME record' = Interrupted(record)
      PROVE  /\ record' \in Reservations /\ record'.status = "terminal"
             /\ record'.result = "interrupted"
             /\ record'.owner = record.owner /\ record'.call = record.call
  BY <1>1, <1>3, Settled DEF Interrupted
<1> QED BY <1>2, <1>3

\* ... and an owner settles only a reservation of its own.
LEMMA SettleWrites ==
  ASSUME TypeOK, NEW c \in Calls, NEW a \in {"value", "failed"},
         Update(c, [record EXCEPT !.status = "terminal", !.result = a])
  PROVE  \/ record' = record
         \/ /\ record' \in Reservations /\ record'.status = "terminal"
            /\ record'.result = a /\ record.owner = ProcOf[c]
            /\ record'.owner = record.owner /\ record'.call = record.call
<1>1. a \in Answers
  BY DEF Answers
<1>2. CASE record' = record
  BY <1>2
<1>3. CASE record' = [record EXCEPT !.status = "terminal", !.result = a] /\ Updatable(c)
  BY <1>1, <1>3, Settled DEF Updatable
<1> QED BY <1>2, <1>3 DEF Update

\* Every step keeps the types.
LEMMA TypeKept ==
  ASSUME TypeOK, CallInv, [Next]_vars
  PROVE  TypeOK'
<1> USE CallsAssumption DEF TypeOK, ProcOf, Answers, CallInv
<1>1. ASSUME NEW c \in Calls, Join(c) PROVE TypeOK'  BY <1>1 DEF Join, Turn, Goto, Tell
<1>2. ASSUME NEW c \in Calls, Peek(c) PROVE TypeOK'
  BY <1>2 DEF Peek, Turn, Goto, Tell, Fault, OwnerGone
<1>3. ASSUME NEW c \in Calls, Reserve(c) PROVE TypeOK'  BY <1>3 DEF Reserve, Reservable, Goto
<1>4. ASSUME NEW c \in Calls, Replay(c) PROVE TypeOK'
  <2>1. \/ record' = record
        \/ /\ record' \in Reservations /\ record'.status = "terminal"
           /\ record'.result = "interrupted" /\ VerdictApplies(c)
           /\ record'.owner = record.owner /\ record'.call = record.call
    BY <1>4, ReplayWrites
  <2>2. record' \in Reservations
    BY <2>1 DEF Reservations
  <2>3. answer' \in [Calls -> Answers] /\ pc' \in [Calls -> {"top", "reserve", "wait", "exec",
          "settled", "join", "done", "dead"}] /\ peeked' \in [Calls -> Calls \cup {NoCall}]
    BY <1>4 DEF Replay, Goto, Tell
  <2> QED BY <1>4, <2>2, <2>3 DEF Replay, Reservations
<1>5. ASSUME NEW c \in Calls, ReserveFails(c) PROVE TypeOK'
  BY <1>5 DEF ReserveFails, Fault, Goto, Tell
<1>6. ASSUME NEW c \in Calls, Poll(c) PROVE TypeOK'  BY <1>6 DEF Poll, Turn, Goto, Tell
<1>7. ASSUME NEW c \in Calls, Settle(c) PROVE TypeOK'
  <2>1. PICK a \in {"value", "failed"} :
          /\ Update(c, [record EXCEPT !.status = "terminal", !.result = a])
          /\ answer' = [answer EXCEPT ![c] = a]
    BY <1>7 DEF Settle
  <2>2. \/ record' = record
        \/ /\ record' \in Reservations /\ record'.status = "terminal"
           /\ record'.result = a /\ record.owner = ProcOf[c]
           /\ record'.owner = record.owner /\ record'.call = record.call
    BY <2>1, SettleWrites
  <2>3. record' \in Reservations /\ answer' \in [Calls -> Answers]
    BY <2>1, <2>2 DEF Reservations
  <2>4. faultsLeft' \in 0..MaxFaults
    BY <2>1 DEF Update, Fault
  <2> QED BY <1>7, <2>3, <2>4 DEF Settle, Turn, Goto, Reservations
<1>8. ASSUME NEW c \in Calls, ReleaseKey(c) PROVE TypeOK'
  BY <1>8 DEF ReleaseKey, NotStarted, Turn, Update, Updatable, Fault, Goto
<1>9. ASSUME NEW c \in Calls, Cleanup(c) PROVE TypeOK'  BY <1>9 DEF Cleanup, Turn, Goto
<1>10. ASSUME NEW c \in Calls, Joined(c) PROVE TypeOK'
  BY <1>10 DEF Joined, DropJoined, Turn, Goto, Tell
<1>11. ASSUME NEW c \in Calls, JoinAborted(c) PROVE TypeOK'
  BY <1>11 DEF JoinAborted, Turn, Goto, Tell
<1>12. ASSUME NEW c \in Calls, Start(c) PROVE TypeOK'  BY <1>12 DEF Start, Turn
<1>13. ASSUME NEW c \in Calls, Heartbeat(c) PROVE TypeOK'  BY <1>13 DEF Heartbeat, Turn
<1>14. ASSUME NEW p \in Procs, Crash(p) PROVE TypeOK'  BY <1>14 DEF Crash
<1>15. CASE LeaseLapses  BY <1>15 DEF LeaseLapses
<1>16. CASE UNCHANGED vars  BY <1>16 DEF vars
<1> QED BY <1>1, <1>2, <1>3, <1>4, <1>5, <1>6, <1>7, <1>8, <1>9, <1>10, <1>11, <1>12, <1>13,
    <1>14, <1>15, <1>16 DEF Next, CallStep

\* The calls of one process take turns in `reserve'.
LEMMA CallKept ==
  ASSUME TypeOK, CallInv, [Next]_vars
  PROVE  CallInv'
<1> USE CallsAssumption DEF TypeOK, ProcOf, Answers, CallInv, Unanswered
<1>1. ASSUME NEW c \in Calls, Join(c) PROVE CallInv'  BY <1>1 DEF Join, Turn, Goto, Tell
<1>2. ASSUME NEW c \in Calls, Peek(c) PROVE CallInv'
  BY <1>2 DEF Peek, Turn, Goto, Tell, Fault, OwnerGone
<1>3. ASSUME NEW c \in Calls, Reserve(c) PROVE CallInv'  BY <1>3 DEF Reserve, Reservable, Goto
<1>4. ASSUME NEW c \in Calls, Replay(c) PROVE CallInv'
  BY <1>4 DEF Replay, VerdictApplies, Interrupted, Goto, Tell
<1>5. ASSUME NEW c \in Calls, ReserveFails(c) PROVE CallInv'
  BY <1>5 DEF ReserveFails, Fault, Goto, Tell
<1>6. ASSUME NEW c \in Calls, Poll(c) PROVE CallInv'  BY <1>6 DEF Poll, Turn, Goto, Tell
<1>7. ASSUME NEW c \in Calls, Settle(c) PROVE CallInv'
  BY <1>7 DEF Settle, Turn, Update, Updatable, Fault, Goto
<1>8. ASSUME NEW c \in Calls, ReleaseKey(c) PROVE CallInv'
  BY <1>8 DEF ReleaseKey, NotStarted, Turn, Update, Updatable, Fault, Goto
<1>9. ASSUME NEW c \in Calls, Cleanup(c) PROVE CallInv'  BY <1>9 DEF Cleanup, Turn, Goto
<1>10. ASSUME NEW c \in Calls, Joined(c) PROVE CallInv'
  BY <1>10 DEF Joined, DropJoined, Turn, Goto, Tell
<1>11. ASSUME NEW c \in Calls, JoinAborted(c) PROVE CallInv'
  BY <1>11 DEF JoinAborted, Turn, Goto, Tell
<1>12. ASSUME NEW c \in Calls, Start(c) PROVE CallInv'  BY <1>12 DEF Start, Turn
<1>13. ASSUME NEW c \in Calls, Heartbeat(c) PROVE CallInv'  BY <1>13 DEF Heartbeat, Turn
<1>14. ASSUME NEW p \in Procs, Crash(p) PROVE CallInv'  BY <1>14 DEF Crash
<1>15. CASE LeaseLapses  BY <1>15 DEF LeaseLapses
<1>16. CASE UNCHANGED vars  BY <1>16 DEF vars
<1> QED BY <1>1, <1>2, <1>3, <1>4, <1>5, <1>6, <1>7, <1>8, <1>9, <1>10, <1>11, <1>12, <1>13,
    <1>14, <1>15, <1>16 DEF Next, CallStep

\* Nobody else writes the reservation of a running call, except to settle it.
LEMMA ExecOwnsKept ==
  ASSUME TypeOK, ExecOwns, [Next]_vars
  PROVE  ExecOwns'
<1> USE CallsAssumption DEF TypeOK, ProcOf, Answers, ExecOwns
<1>1. ASSUME NEW c \in Calls, Join(c) PROVE ExecOwns'  BY <1>1 DEF Join, Turn, Goto, Tell
<1>2. ASSUME NEW c \in Calls, Peek(c) PROVE ExecOwns'
  BY <1>2 DEF Peek, Turn, Goto, Tell, Fault, OwnerGone
<1>3. ASSUME NEW c \in Calls, Reserve(c) PROVE ExecOwns'  BY <1>3 DEF Reserve, Reservable, Goto
<1>4. ASSUME NEW c \in Calls, Replay(c) PROVE ExecOwns'
  <2>1. \/ record' = record
        \/ /\ record' \in Reservations /\ record'.status = "terminal"
           /\ record'.result = "interrupted" /\ VerdictApplies(c)
           /\ record'.owner = record.owner /\ record'.call = record.call
    BY <1>4, ReplayWrites
  <2>2. pc'[c] # "exec" /\ \A d \in Calls \ {c} : pc'[d] = pc[d]
    BY <1>4 DEF Replay, Goto, Tell
  <2> QED BY <1>4, <2>1, <2>2 DEF Replay
<1>5. ASSUME NEW c \in Calls, ReserveFails(c) PROVE ExecOwns'
  BY <1>5 DEF ReserveFails, Fault, Goto, Tell
<1>6. ASSUME NEW c \in Calls, Poll(c) PROVE ExecOwns'  BY <1>6 DEF Poll, Turn, Goto, Tell
<1>7. ASSUME NEW c \in Calls, Settle(c) PROVE ExecOwns'
  BY <1>7 DEF Settle, Turn, Update, Updatable, Fault, Goto
<1>8. ASSUME NEW c \in Calls, ReleaseKey(c) PROVE ExecOwns'
  BY <1>8 DEF ReleaseKey, NotStarted, Turn, Update, Updatable, Fault, Goto
<1>9. ASSUME NEW c \in Calls, Cleanup(c) PROVE ExecOwns'  BY <1>9 DEF Cleanup, Turn, Goto
<1>10. ASSUME NEW c \in Calls, Joined(c) PROVE ExecOwns'
  BY <1>10 DEF Joined, DropJoined, Turn, Goto, Tell
<1>11. ASSUME NEW c \in Calls, JoinAborted(c) PROVE ExecOwns'
  BY <1>11 DEF JoinAborted, Turn, Goto, Tell
<1>12. ASSUME NEW c \in Calls, Start(c) PROVE ExecOwns'  BY <1>12 DEF Start, Turn
<1>13. ASSUME NEW c \in Calls, Heartbeat(c) PROVE ExecOwns'  BY <1>13 DEF Heartbeat, Turn
<1>14. ASSUME NEW p \in Procs, Crash(p) PROVE ExecOwns'  BY <1>14 DEF Crash
<1>15. CASE LeaseLapses  BY <1>15 DEF LeaseLapses
<1>16. CASE UNCHANGED vars  BY <1>16 DEF vars
<1> QED BY <1>1, <1>2, <1>3, <1>4, <1>5, <1>6, <1>7, <1>8, <1>9, <1>10, <1>11, <1>12, <1>13,
    <1>14, <1>15, <1>16 DEF Next, CallStep

\* A key is released only by a call that has not started.
LEMMA RanKept ==
  ASSUME TypeOK, ExecOwns, RanIsReserved, [Next]_vars
  PROVE  RanIsReserved'
<1> USE CallsAssumption DEF TypeOK, ProcOf, Answers, RanIsReserved, ExecOwns
<1>1. ASSUME NEW c \in Calls, Join(c) PROVE RanIsReserved'  BY <1>1 DEF Join, Turn, Goto, Tell
<1>2. ASSUME NEW c \in Calls, Peek(c) PROVE RanIsReserved'
  BY <1>2 DEF Peek, Turn, Goto, Tell, Fault, OwnerGone
<1>3. ASSUME NEW c \in Calls, Reserve(c) PROVE RanIsReserved'
  BY <1>3 DEF Reserve, Reservable, Goto
<1>4. ASSUME NEW c \in Calls, Replay(c) PROVE RanIsReserved'
  BY <1>4 DEF Replay, VerdictApplies, Interrupted, Goto, Tell
<1>5. ASSUME NEW c \in Calls, ReserveFails(c) PROVE RanIsReserved'
  BY <1>5 DEF ReserveFails, Fault, Goto, Tell
<1>6. ASSUME NEW c \in Calls, Poll(c) PROVE RanIsReserved'  BY <1>6 DEF Poll, Turn, Goto, Tell
<1>7. ASSUME NEW c \in Calls, Settle(c) PROVE RanIsReserved'
  <2>1. PICK a \in {"value", "failed"} :
          Update(c, [record EXCEPT !.status = "terminal", !.result = a])
    BY <1>7 DEF Settle
  <2>2. record' = record \/ (record'.status = "terminal" /\ record'.call = record.call)
    BY <2>1, SettleWrites
  <2>3. ran' = ran
    BY <1>7 DEF Settle
  <2> QED BY <2>2, <2>3
<1>8. ASSUME NEW c \in Calls, ReleaseKey(c) PROVE RanIsReserved'
  BY <1>8 DEF ReleaseKey, NotStarted, Turn, Update, Updatable, Fault, Goto
<1>9. ASSUME NEW c \in Calls, Cleanup(c) PROVE RanIsReserved'  BY <1>9 DEF Cleanup, Turn, Goto
<1>10. ASSUME NEW c \in Calls, Joined(c) PROVE RanIsReserved'
  BY <1>10 DEF Joined, DropJoined, Turn, Goto, Tell
<1>11. ASSUME NEW c \in Calls, JoinAborted(c) PROVE RanIsReserved'
  BY <1>11 DEF JoinAborted, Turn, Goto, Tell
<1>12. ASSUME NEW c \in Calls, Start(c) PROVE RanIsReserved'  BY <1>12 DEF Start, Turn
<1>13. ASSUME NEW c \in Calls, Heartbeat(c) PROVE RanIsReserved'  BY <1>13 DEF Heartbeat, Turn
<1>14. ASSUME NEW p \in Procs, Crash(p) PROVE RanIsReserved'  BY <1>14 DEF Crash
<1>15. CASE LeaseLapses  BY <1>15 DEF LeaseLapses
<1>16. CASE UNCHANGED vars  BY <1>16 DEF vars
<1> QED BY <1>1, <1>2, <1>3, <1>4, <1>5, <1>6, <1>7, <1>8, <1>9, <1>10, <1>11, <1>12, <1>13,
    <1>14, <1>15, <1>16 DEF Next, CallStep

\* Only the running call removes its promise.
LEMMA TrackedKept ==
  ASSUME TypeOK, CallInv, ExecOwns, RunningIsTracked, [Next]_vars
  PROVE  RunningIsTracked'
<1> USE CallsAssumption DEF TypeOK, ProcOf, Answers, RunningIsTracked, CallInv, Unanswered
<1>1. ASSUME NEW c \in Calls, Join(c) PROVE RunningIsTracked'
  BY <1>1 DEF Join, Turn, Goto, Tell
<1>2. ASSUME NEW c \in Calls, Peek(c) PROVE RunningIsTracked'
  BY <1>2 DEF Peek, Turn, Goto, Tell, Fault, OwnerGone
<1>3. ASSUME NEW c \in Calls, Reserve(c) PROVE RunningIsTracked'
  BY <1>3 DEF Reserve, Reservable, Goto
<1>4. ASSUME NEW c \in Calls, Replay(c) PROVE RunningIsTracked'
  BY <1>4 DEF Replay, VerdictApplies, Interrupted, Goto, Tell
<1>5. ASSUME NEW c \in Calls, ReserveFails(c) PROVE RunningIsTracked'
  BY <1>5 DEF ReserveFails, Fault, Goto, Tell
<1>6. ASSUME NEW c \in Calls, Poll(c) PROVE RunningIsTracked'
  BY <1>6 DEF Poll, Turn, Goto, Tell
<1>7. ASSUME NEW c \in Calls, Settle(c) PROVE RunningIsTracked'
  BY <1>7 DEF Settle, Turn, Update, Updatable, Fault, Goto
<1>8. ASSUME NEW c \in Calls, ReleaseKey(c) PROVE RunningIsTracked'
  BY <1>8 DEF ReleaseKey, NotStarted, Turn, Update, Updatable, Fault, Goto
<1>9. ASSUME NEW c \in Calls, Cleanup(c) PROVE RunningIsTracked'
  BY <1>9 DEF Cleanup, Turn, Goto
<1>10. ASSUME NEW c \in Calls, Joined(c) PROVE RunningIsTracked'
  BY <1>10 DEF Joined, DropJoined, Turn, Goto, Tell
<1>11. ASSUME NEW c \in Calls, JoinAborted(c) PROVE RunningIsTracked'
  BY <1>11 DEF JoinAborted, Turn, Goto, Tell
<1>12. ASSUME NEW c \in Calls, Start(c) PROVE RunningIsTracked'  BY <1>12 DEF Start, Turn
<1>13. ASSUME NEW c \in Calls, Heartbeat(c) PROVE RunningIsTracked'
  BY <1>13 DEF Heartbeat, Turn
<1>14. ASSUME NEW p \in Procs, Crash(p) PROVE RunningIsTracked'  BY <1>14 DEF Crash
<1>15. CASE LeaseLapses  BY <1>15 DEF LeaseLapses
<1>16. CASE UNCHANGED vars  BY <1>16 DEF vars
<1> QED BY <1>1, <1>2, <1>3, <1>4, <1>5, <1>6, <1>7, <1>8, <1>9, <1>10, <1>11, <1>12, <1>13,
    <1>14, <1>15, <1>16 DEF Next, CallStep

\* No reservation is interrupted without a cause.
LEMMA CauseKept ==
  ASSUME TypeOK, CallInv, ExecOwns, RunningIsTracked, CauseInv, [Next]_vars
  PROVE  CauseInv'
<1> USE CallsAssumption DEF TypeOK, ProcOf, Answers, CauseInv, Cause, ExecOwns,
    RunningIsTracked, CallInv
<1>1. ASSUME NEW c \in Calls, Join(c) PROVE CauseInv'  BY <1>1 DEF Join, Turn, Goto, Tell
<1>2. ASSUME NEW c \in Calls, Peek(c) PROVE CauseInv'
  BY <1>2 DEF Peek, Turn, Goto, Tell, Fault, OwnerGone
<1>3. ASSUME NEW c \in Calls, Reserve(c) PROVE CauseInv'  BY <1>3 DEF Reserve, Reservable, Goto
<1>4. ASSUME NEW c \in Calls, Replay(c) PROVE CauseInv'
  <2>1. \/ record' = record
        \/ /\ record' \in Reservations /\ record'.status = "terminal"
           /\ record'.result = "interrupted" /\ VerdictApplies(c)
           /\ record'.owner = record.owner /\ record'.call = record.call
    BY <1>4, ReplayWrites
  <2>2. VerdictApplies(c) => Cause
    BY DEF VerdictApplies
  <2>3. /\ \A d \in Calls \ {c} : answer'[d] = answer[d] /\ peeked'[d] = peeked[d] /\ pc'[d] = pc[d]
        /\ peeked'[c] = NoCall
        /\ answer'[c] = "interrupted" => Cause
        /\ UNCHANGED <<fresh, lapsed, up, faultsLeft>>
        /\ pc[c] # "exec"
    BY <1>4, <2>2 DEF Replay, VerdictApplies, Interrupted, Goto, Tell
  <2> QED BY <2>1, <2>2, <2>3
<1>5. ASSUME NEW c \in Calls, ReserveFails(c) PROVE CauseInv'
  BY <1>5 DEF ReserveFails, Fault, Goto, Tell
<1>6. ASSUME NEW c \in Calls, Poll(c) PROVE CauseInv'  BY <1>6 DEF Poll, Turn, Goto, Tell
<1>7. ASSUME NEW c \in Calls, Settle(c) PROVE CauseInv'
  <2>1. PICK a \in {"value", "failed"} :
          /\ Update(c, [record EXCEPT !.status = "terminal", !.result = a])
          /\ answer' = [answer EXCEPT ![c] = a]
    BY <1>7 DEF Settle
  <2>2. \/ record' = record
        \/ /\ record' \in Reservations /\ record'.status = "terminal"
           /\ record'.result = a /\ record.owner = ProcOf[c]
           /\ record'.owner = record.owner /\ record'.call = record.call
    BY <2>1, SettleWrites
  <2>3. /\ \A d \in Calls \ {c} : answer'[d] = answer[d] /\ pc'[d] = pc[d]
        /\ answer'[c] = a /\ peeked' = peeked
        /\ UNCHANGED <<fresh, lapsed, up>>
        /\ pc[c] = "exec"
    BY <1>7, <2>1 DEF Settle, Turn, Goto
  <2>4. Cause => Cause'
    BY <2>1, <2>3 DEF Update, Fault
  <2>5. faultsLeft' = faultsLeft - 1 => Cause'
    BY <2>3
  <2>6. record.call = c /\ record.owner = ProcOf[c]
    BY <2>3
  <2>7. record' = record => record.status # "in_flight" \/ Cause'
    <3>1. CASE Updatable(c)
      <4>1. CASE record' = [record EXCEPT !.status = "terminal", !.result = a]
        <5>1. record'.status = "terminal"
          BY <4>1, Settled DEF Answers
        <5> QED BY <5>1
      <4>2. record' = [record EXCEPT !.status = "terminal", !.result = a] \/ Fault
        BY <2>1, <3>1 DEF Update
      <4> QED BY <2>5, <4>1, <4>2 DEF Fault
    <3>2. CASE ~Updatable(c)
      BY <2>1, <2>5, <2>6, <3>2 DEF Update, Updatable, Fault
    <3> QED BY <3>1, <3>2
  <2> QED BY <2>1, <2>2, <2>3, <2>4, <2>6, <2>7
<1>8. ASSUME NEW c \in Calls, ReleaseKey(c) PROVE CauseInv'
  BY <1>8 DEF ReleaseKey, NotStarted, Turn, Update, Updatable, Fault, Goto
<1>9. ASSUME NEW c \in Calls, Cleanup(c) PROVE CauseInv'  BY <1>9 DEF Cleanup, Turn, Goto
<1>10. ASSUME NEW c \in Calls, Joined(c) PROVE CauseInv'
  BY <1>10 DEF Joined, DropJoined, Turn, Goto, Tell
<1>11. ASSUME NEW c \in Calls, JoinAborted(c) PROVE CauseInv'
  BY <1>11 DEF JoinAborted, Turn, Goto, Tell
<1>12. ASSUME NEW c \in Calls, Start(c) PROVE CauseInv'  BY <1>12 DEF Start, Turn
<1>13. ASSUME NEW c \in Calls, Heartbeat(c) PROVE CauseInv'  BY <1>13 DEF Heartbeat, Turn
<1>14. ASSUME NEW p \in Procs, Crash(p) PROVE CauseInv'  BY <1>14 DEF Crash
<1>15. CASE LeaseLapses  BY <1>15 DEF LeaseLapses
<1>16. CASE UNCHANGED vars  BY <1>16 DEF vars
<1> QED BY <1>1, <1>2, <1>3, <1>4, <1>5, <1>6, <1>7, <1>8, <1>9, <1>10, <1>11, <1>12, <1>13,
    <1>14, <1>15, <1>16 DEF Next, CallStep

\* The invariant is inductive.
LEMMA InvKept == IdempotencyInv /\ [Next]_vars => IdempotencyInv'
BY TypeKept, CallKept, ExecOwnsKept, RanKept, TrackedKept, CauseKept DEF IdempotencyInv

\* `execute' runs at most once per key, through crashes, late heartbeats,
\* releases, joins and failed settlements (delegation-idempotency.ts).
THEOREM ExecutesAtMostOnce == Spec => []AtMostOnce
<1>1. IdempotencyInv => AtMostOnce
  BY DEF IdempotencyInv, AtMostOnce, RanIsReserved
<1> QED BY <1>1, InitInv, InvKept, PTL DEF Spec

\* A running execution stays in its process's map until it has settled
\* (inFlight), so that the calls of that process join it.
THEOREM ExecutionsAreTracked == Spec => []RunningIsTracked
<1>1. IdempotencyInv => RunningIsTracked
  BY DEF IdempotencyInv
<1> QED BY <1>1, InitInv, InvKept, PTL DEF Spec

\* Nobody is told "interrupted" without a crash, a late heartbeat or a failed
\* settlement of the execution that held the key (its owner found gone).
THEOREM InterruptionsHaveCause == Spec => []InterruptedHasCause
<1>1. IdempotencyInv => InterruptedHasCause
  BY DEF IdempotencyInv, InterruptedHasCause, CauseInv, Cause
<1> QED BY <1>1, InitInv, InvKept, PTL DEF Spec

\* A terminal reservation is never written again (settle), whoever comes late.
THEOREM TerminalStays == Spec => TerminalIsFinal
<1>1. ASSUME [Next]_vars, record.status = "terminal" PROVE record' = record
  BY <1>1 DEF Next, CallStep, vars, Join, Peek, Reserve, Reservable, Replay, ReserveFails, Poll, Settle,
     ReleaseKey, Update, Updatable, Cleanup, Joined, JoinAborted, Start, Heartbeat, Crash, LeaseLapses
<1>2. [Next]_vars => [record.status = "terminal" => record' = record]_vars
  BY <1>1
<1> QED BY <1>2, PTL DEF Spec, TerminalIsFinal
=============================================================================
