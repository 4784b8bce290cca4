--------------------------- MODULE FileLockProofs ---------------------------
(***************************************************************************)
(* TLAPS proofs about FileLock, for any number of clients, processes,      *)
(* exits and faults.  The facts about the cleanup guard hold               *)
(* unconditionally; mutual exclusion needs ExitDuringProbe = FALSE, and    *)
(* the run file_lock_exit shows that it does need it.                *)
(***************************************************************************)
EXTENDS FileLock, TLAPS

\* A thread is stopped exactly when its process is gone.
DownIsDead == \A c \in Clients : pc[c] = "down" <=> PidOf[c] \in dead

\* What a cleaner knows between reading a record under its guard and probing
\* it: the record is still the lock, or it will not be found reclaimable.
ReadIsCurrent ==
  \A k \in Clients : pc[k] = "reprobe" =>
    /\ seen[k] # NoRecord
    /\ \/ seen[k] = lock
       \/ seen[k].pid = NoPid /\ ~seen[k].old
       \/ seen[k].pid # NoPid /\ seen[k].pid \notin dead

\* From the probe to the rename the lock is the record that was judged stale,
\* and nobody holds it.
VictimIsStale ==
  \A k \in Clients : pc[k] \in {"confirm", "rename"} =>
    /\ lock = seen[k]
    /\ lock # NoRecord
    /\ lock.pid = NoPid => lock.old
    /\ \A c \in Clients : pc[c] \notin Holding

\* The guard half of the invariant needs no assumption on exits.
GuardInv == TypeOK /\ DownIsDead /\ OneCleaner /\ DisplacedRecordKept

MutexInv == GuardInv /\ HolderOwnsRecord /\ ReadIsCurrent /\ VictimIsStale
-----------------------------------------------------------------------------
\* What the shape of a record says: a published record carries the pid of its
\* publisher, every other one has no pid.
LEMMA RecordShape ==
  /\ NoRecord \in Records
  /\ NoRecord.by = NoOne /\ NoRecord.pid = NoPid
  /\ \A c \in Clients, t \in Stamps :
        /\ OwnerRecord(c, t) \in Records
        /\ OwnerRecord(c, t).by = c
        /\ OwnerRecord(c, t) # NoRecord
  /\ \A r \in Records :
        /\ r.by \in Clients => r.pid = PidOf[r.by] /\ r.pid \in Pids
        /\ r.by \notin Clients => r.pid = NoPid
BY ClientsAssumption DEF Records, NoRecord, OwnerRecord

\* Growing old changes nothing else about an unverifiable record.
LEMMA AgedShape ==
  ASSUME NEW r \in Records, NEW o, o = [r EXCEPT !.old = TRUE]
  PROVE  o \in Records /\ o.pid = r.pid /\ o.old = TRUE /\ o.by = r.by
<1>1. r \in [pid : Pids \cup {NoPid}, ts : Stamps \cup {NoPid},
             by : Clients \cup {NoOne}, old : BOOLEAN]
  BY DEF Records
<1>2. o = [pid |-> r.pid, ts |-> r.ts, by |-> r.by, old |-> TRUE]
  BY <1>1
<1> QED
  BY <1>1, <1>2 DEF Records

LEMMA MalformedShape ==
  \A t \in Stamps, o \in BOOLEAN : Malformed(t, o) \in Records
BY DEF Records, Malformed

\* Initially nobody is in the protocol.
LEMMA InitInv == Init => MutexInv
<1> SUFFICES ASSUME Init PROVE MutexInv
  OBVIOUS
<1>1. TypeOK
  BY RecordShape, MalformedShape, BoundsAssumption
  DEF Init, TypeOK, Outside
<1>2. DownIsDead /\ OneCleaner /\ DisplacedRecordKept
  BY DEF Init, DownIsDead, OneCleaner, DisplacedRecordKept, Guarded
<1>3. HolderOwnsRecord /\ ReadIsCurrent /\ VictimIsStale
  BY DEF Init, HolderOwnsRecord, ReadIsCurrent, VictimIsStale, Holding
<1> QED
  BY <1>1, <1>2, <1>3 DEF MutexInv, GuardInv

\* Every step keeps the state well typed.
LEMMA TypePreserved == TypeOK /\ [Next]_vars => TypeOK'
<1> SUFFICES ASSUME TypeOK, [Next]_vars PROVE TypeOK'
  OBVIOUS
<1> USE RecordShape, ClientsAssumption
      DEF TypeOK, Guarded, Holding, Outside, Goto, Fault
<1>1. ASSUME NEW c \in Clients, ClientStep(c) PROVE TypeOK'
  <2>1. CASE Begin(c)          BY <2>1 DEF Begin
  <2>2. CASE Publish(c)        BY <2>2 DEF Publish
  <2>3. CASE InspectRead(c)    BY <2>3 DEF InspectRead
  <2>4. CASE InspectProbe(c)   BY <2>4 DEF InspectProbe
  <2>5. CASE PublishGuard(c)   BY <2>5 DEF PublishGuard
  <2>6. CASE InspectGuard(c)   BY <2>6 DEF InspectGuard
  <2>7. CASE Sweep(c)          BY <2>7 DEF Sweep
  <2>8. CASE RecheckRead(c)    BY <2>8, SMTT(30) DEF RecheckRead, Finally
  <2>9. CASE RecheckProbe(c)   BY <2>9 DEF RecheckProbe, Finally
  <2>10. CASE ConfirmGuard(c)  BY <2>10 DEF ConfirmGuard, Finally
  <2>11. CASE Rename(c)        BY <2>11, SMTT(30) DEF Rename, Finally
  <2>12. CASE Verify(c)
    <3>1. tomb' \in [Clients -> Records]
      BY <2>12 DEF Verify
    <3> QED
      BY <2>12, <3>1, SMTT(30) DEF Verify, Finally
  <2>13. CASE PutBack(c)       BY <2>13 DEF PutBack, Finally
  <2>14. CASE Unguard(c)       BY <2>14 DEF Unguard, Return
  <2>15. CASE RenameGuard(c)   BY <2>15 DEF RenameGuard
  <2>16. CASE VerifyGuard(c)   BY <2>16 DEF VerifyGuard, Return
  <2>17. CASE PutBackGuard(c)  BY <2>17 DEF PutBackGuard, Return
  <2>18. CASE Wait(c)          BY <2>18 DEF Wait
  <2>19. CASE Timeout(c)       BY <2>19 DEF Timeout
  <2>20. CASE Finish(c)        BY <2>20 DEF Finish
  <2>21. CASE ReleaseRead(c)   BY <2>21 DEF ReleaseRead
  <2>22. CASE ReleaseUnlink(c) BY <2>22 DEF ReleaseUnlink
  <2> QED
    BY <1>1, <2>1, <2>2, <2>3, <2>4, <2>5, <2>6, <2>7, <2>8, <2>9, <2>10,
       <2>11, <2>12, <2>13, <2>14, <2>15, <2>16, <2>17, <2>18, <2>19, <2>20,
       <2>21, <2>22 DEF ClientStep
<1>2. ASSUME NEW p \in Pids, Stop(p) PROVE TypeOK'
  BY <1>2 DEF Stop
<1>3. ASSUME NEW p \in Pids, Start(p) PROVE TypeOK'
  BY <1>3 DEF Start
<1>4. CASE Age
  BY <1>4, AgedShape DEF Age
<1>5. CASE OperatorRecovery
  BY <1>5 DEF OperatorRecovery
<1>6. CASE UNCHANGED vars
  BY <1>6 DEF vars
<1> QED
  BY <1>1, <1>2, <1>3, <1>4, <1>5, <1>6 DEF Next

\* Only Stop stops threads and only Start starts them.
LEMMA DownPreserved ==
  TypeOK /\ DownIsDead /\ [Next]_vars => DownIsDead'
<1> SUFFICES ASSUME TypeOK, DownIsDead, [Next]_vars PROVE DownIsDead'
  OBVIOUS
<1> USE ClientsAssumption
      DEF TypeOK, DownIsDead, Guarded, Holding, Outside, Goto, Fault
<1>1. ASSUME NEW c \in Clients, ClientStep(c) PROVE DownIsDead'
  <2>1. CASE Begin(c)          BY <2>1 DEF Begin
  <2>2. CASE Publish(c)        BY <2>2 DEF Publish
  <2>3. CASE InspectRead(c)    BY <2>3 DEF InspectRead
  <2>4. CASE InspectProbe(c)   BY <2>4 DEF InspectProbe
  <2>5. CASE PublishGuard(c)   BY <2>5 DEF PublishGuard
  <2>6. CASE InspectGuard(c)   BY <2>6 DEF InspectGuard
  <2>7. CASE Sweep(c)          BY <2>7 DEF Sweep, Swept
  <2>8. CASE RecheckRead(c)    BY <2>8 DEF RecheckRead, Finally
  <2>9. CASE RecheckProbe(c)   BY <2>9 DEF RecheckProbe, Finally
  <2>10. CASE ConfirmGuard(c)  BY <2>10 DEF ConfirmGuard, Finally
  <2>11. CASE Rename(c)        BY <2>11 DEF Rename, Finally
  <2>12. CASE Verify(c)        BY <2>12 DEF Verify, Finally
  <2>13. CASE PutBack(c)       BY <2>13 DEF PutBack, Finally
  <2>14. CASE Unguard(c)       BY <2>14 DEF Unguard, Return
  <2>15. CASE RenameGuard(c)   BY <2>15 DEF RenameGuard
  <2>16. CASE VerifyGuard(c)   BY <2>16 DEF VerifyGuard, Return
  <2>17. CASE PutBackGuard(c)  BY <2>17 DEF PutBackGuard, Return
  <2>18. CASE Wait(c)          BY <2>18 DEF Wait
  <2>19. CASE Timeout(c)       BY <2>19 DEF Timeout
  <2>20. CASE Finish(c)        BY <2>20 DEF Finish
  <2>21. CASE ReleaseRead(c)   BY <2>21 DEF ReleaseRead
  <2>22. CASE ReleaseUnlink(c) BY <2>22 DEF ReleaseUnlink
  <2> QED
    BY <1>1, <2>1, <2>2, <2>3, <2>4, <2>5, <2>6, <2>7, <2>8, <2>9, <2>10,
       <2>11, <2>12, <2>13, <2>14, <2>15, <2>16, <2>17, <2>18, <2>19, <2>20,
       <2>21, <2>22 DEF ClientStep
<1>2. ASSUME NEW p \in Pids, Stop(p) PROVE DownIsDead'
  BY <1>2 DEF Stop, ProbeWouldMislead
<1>3. ASSUME NEW p \in Pids, Start(p) PROVE DownIsDead'
  BY <1>3 DEF Start
<1>4. CASE Age
  BY <1>4, AgedShape DEF Age
<1>5. CASE OperatorRecovery
  BY <1>5 DEF OperatorRecovery
<1>6. CASE UNCHANGED vars
  BY <1>6 DEF vars
<1> QED
  BY <1>1, <1>2, <1>3, <1>4, <1>5, <1>6 DEF Next

\* The guard is published exclusively and removed by its cleaner only.
LEMMA OneCleanerPreserved ==
  TypeOK /\ DownIsDead /\ OneCleaner /\ [Next]_vars => OneCleaner'
<1> SUFFICES ASSUME TypeOK, DownIsDead, OneCleaner, [Next]_vars PROVE OneCleaner'
  OBVIOUS
<1> USE ClientsAssumption
      DEF TypeOK, DownIsDead, OneCleaner, Guarded, Holding, Outside, Goto, Fault
<1>1. ASSUME NEW c \in Clients, ClientStep(c) PROVE OneCleaner'
  <2>1. CASE Begin(c)          BY <2>1 DEF Begin
  <2>2. CASE Publish(c)        BY <2>2 DEF Publish
  <2>3. CASE InspectRead(c)    BY <2>3 DEF InspectRead
  <2>4. CASE InspectProbe(c)   BY <2>4 DEF InspectProbe
  <2>5. CASE PublishGuard(c)   BY <2>5 DEF PublishGuard
  <2>6. CASE InspectGuard(c)   BY <2>6 DEF InspectGuard
  <2>7. CASE Sweep(c)          BY <2>7 DEF Sweep, Swept
  <2>8. CASE RecheckRead(c)    BY <2>8 DEF RecheckRead, Finally
  <2>9. CASE RecheckProbe(c)   BY <2>9 DEF RecheckProbe, Finally
  <2>10. CASE ConfirmGuard(c)  BY <2>10 DEF ConfirmGuard, Finally
  <2>11. CASE Rename(c)        BY <2>11 DEF Rename, Finally
  <2>12. CASE Verify(c)        BY <2>12 DEF Verify, Finally
  <2>13. CASE PutBack(c)       BY <2>13 DEF PutBack, Finally
  <2>14. CASE Unguard(c)       BY <2>14 DEF Unguard, Return
  <2>15. CASE RenameGuard(c)   BY <2>15 DEF RenameGuard
  <2>16. CASE VerifyGuard(c)   BY <2>16 DEF VerifyGuard, Return
  <2>17. CASE PutBackGuard(c)  BY <2>17 DEF PutBackGuard, Return
  <2>18. CASE Wait(c)          BY <2>18 DEF Wait
  <2>19. CASE Timeout(c)       BY <2>19 DEF Timeout
  <2>20. CASE Finish(c)        BY <2>20 DEF Finish
  <2>21. CASE ReleaseRead(c)   BY <2>21 DEF ReleaseRead
  <2>22. CASE ReleaseUnlink(c) BY <2>22 DEF ReleaseUnlink
  <2> QED
    BY <1>1, <2>1, <2>2, <2>3, <2>4, <2>5, <2>6, <2>7, <2>8, <2>9, <2>10,
       <2>11, <2>12, <2>13, <2>14, <2>15, <2>16, <2>17, <2>18, <2>19, <2>20,
       <2>21, <2>22 DEF ClientStep
<1>2. ASSUME NEW p \in Pids, Stop(p) PROVE OneCleaner'
  BY <1>2 DEF Stop, ProbeWouldMislead
<1>3. ASSUME NEW p \in Pids, Start(p) PROVE OneCleaner'
  BY <1>3 DEF Start
<1>4. CASE Age
  BY <1>4, AgedShape DEF Age
<1>5. CASE OperatorRecovery
  BY <1>5 DEF OperatorRecovery
<1>6. CASE UNCHANGED vars
  BY <1>6 DEF vars
<1> QED
  BY <1>1, <1>2, <1>3, <1>4, <1>5, <1>6 DEF Next

\* A sweep takes the tombs of stopped cleaners only.
LEMMA DisplacedPreserved ==
  TypeOK /\ DownIsDead /\ DisplacedRecordKept /\ [Next]_vars => DisplacedRecordKept'
<1> SUFFICES ASSUME TypeOK, DownIsDead, DisplacedRecordKept, [Next]_vars PROVE DisplacedRecordKept'
  OBVIOUS
<1> USE RecordShape, ClientsAssumption
      DEF TypeOK, DownIsDead, DisplacedRecordKept, Guarded, Holding, Outside,
          Goto, Fault
<1>1. ASSUME NEW c \in Clients, ClientStep(c) PROVE DisplacedRecordKept'
  <2>1. CASE Begin(c)          BY <2>1 DEF Begin
  <2>2. CASE Publish(c)        BY <2>2 DEF Publish
  <2>3. CASE InspectRead(c)    BY <2>3 DEF InspectRead
  <2>4. CASE InspectProbe(c)   BY <2>4 DEF InspectProbe
  <2>5. CASE PublishGuard(c)   BY <2>5 DEF PublishGuard
  <2>6. CASE InspectGuard(c)   BY <2>6 DEF InspectGuard
  <2>7. CASE Sweep(c)          BY <2>7 DEF Sweep, Swept
  <2>8. CASE RecheckRead(c)    BY <2>8 DEF RecheckRead, Finally
  <2>9. CASE RecheckProbe(c)   BY <2>9 DEF RecheckProbe, Finally
  <2>10. CASE ConfirmGuard(c)  BY <2>10 DEF ConfirmGuard, Finally
  <2>11. CASE Rename(c)        BY <2>11 DEF Rename, Finally
  <2>12. CASE Verify(c)        BY <2>12 DEF Verify, Finally
  <2>13. CASE PutBack(c)       BY <2>13 DEF PutBack, Finally
  <2>14. CASE Unguard(c)       BY <2>14 DEF Unguard, Return
  <2>15. CASE RenameGuard(c)   BY <2>15 DEF RenameGuard
  <2>16. CASE VerifyGuard(c)   BY <2>16 DEF VerifyGuard, Return
  <2>17. CASE PutBackGuard(c)  BY <2>17 DEF PutBackGuard, Return
  <2>18. CASE Wait(c)          BY <2>18 DEF Wait
  <2>19. CASE Timeout(c)       BY <2>19 DEF Timeout
  <2>20. CASE Finish(c)        BY <2>20 DEF Finish
  <2>21. CASE ReleaseRead(c)   BY <2>21 DEF ReleaseRead
  <2>22. CASE ReleaseUnlink(c) BY <2>22 DEF ReleaseUnlink
  <2> QED
    BY <1>1, <2>1, <2>2, <2>3, <2>4, <2>5, <2>6, <2>7, <2>8, <2>9, <2>10,
       <2>11, <2>12, <2>13, <2>14, <2>15, <2>16, <2>17, <2>18, <2>19, <2>20,
       <2>21, <2>22 DEF ClientStep
<1>2. ASSUME NEW p \in Pids, Stop(p) PROVE DisplacedRecordKept'
  BY <1>2 DEF Stop, ProbeWouldMislead
<1>3. ASSUME NEW p \in Pids, Start(p) PROVE DisplacedRecordKept'
  BY <1>3 DEF Start
<1>4. CASE Age
  BY <1>4, AgedShape DEF Age
<1>5. CASE OperatorRecovery
  BY <1>5 DEF OperatorRecovery
<1>6. CASE UNCHANGED vars
  BY <1>6 DEF vars
<1> QED
  BY <1>1, <1>2, <1>3, <1>4, <1>5, <1>6 DEF Next

\* Records are published into an empty place, moved aside only when stale.
LEMMA HolderPreserved ==
  ASSUME MutexInv, [Next]_vars
  PROVE  HolderOwnsRecord'
<1> USE RecordShape, ClientsAssumption
      DEF MutexInv, GuardInv, TypeOK, DownIsDead, OneCleaner, HolderOwnsRecord,
          ReadIsCurrent, VictimIsStale, Guarded, Holding, Outside, Goto, Fault
<1>1. ASSUME NEW c \in Clients, ClientStep(c) PROVE HolderOwnsRecord'
  <2>1. CASE Begin(c)          BY <2>1 DEF Begin
  <2>2. CASE Publish(c)        BY <2>2 DEF Publish
  <2>3. CASE InspectRead(c)    BY <2>3 DEF InspectRead
  <2>4. CASE InspectProbe(c)   BY <2>4 DEF InspectProbe
  <2>5. CASE PublishGuard(c)   BY <2>5 DEF PublishGuard
  <2>6. CASE InspectGuard(c)   BY <2>6 DEF InspectGuard
  <2>7. CASE Sweep(c)          BY <2>7 DEF Sweep, Swept
  <2>8. CASE RecheckRead(c)    BY <2>8 DEF RecheckRead, Finally
  <2>9. CASE RecheckProbe(c)   BY <2>9 DEF RecheckProbe, Finally, lockReclaimable
  <2>10. CASE ConfirmGuard(c)  BY <2>10 DEF ConfirmGuard, Finally
  <2>11. CASE Rename(c)        BY <2>11 DEF Rename, Finally
  <2>12. CASE Verify(c)        BY <2>12 DEF Verify, Finally
  <2>13. CASE PutBack(c)       BY <2>13 DEF PutBack, Finally, CanPutBack
  <2>14. CASE Unguard(c)       BY <2>14 DEF Unguard, Return
  <2>15. CASE RenameGuard(c)   BY <2>15 DEF RenameGuard
  <2>16. CASE VerifyGuard(c)   BY <2>16 DEF VerifyGuard, Return
  <2>17. CASE PutBackGuard(c)  BY <2>17 DEF PutBackGuard, Return
  <2>18. CASE Wait(c)          BY <2>18 DEF Wait
  <2>19. CASE Timeout(c)       BY <2>19 DEF Timeout
  <2>20. CASE Finish(c)        BY <2>20 DEF Finish
  <2>21. CASE ReleaseRead(c)   BY <2>21 DEF ReleaseRead
  <2>22. CASE ReleaseUnlink(c) BY <2>22 DEF ReleaseUnlink
  <2> QED
    BY <1>1, <2>1, <2>2, <2>3, <2>4, <2>5, <2>6, <2>7, <2>8, <2>9, <2>10,
       <2>11, <2>12, <2>13, <2>14, <2>15, <2>16, <2>17, <2>18, <2>19, <2>20,
       <2>21, <2>22 DEF ClientStep
<1>2. ASSUME NEW p \in Pids, Stop(p) PROVE HolderOwnsRecord'
  BY <1>2 DEF Stop, ProbeWouldMislead
<1>3. ASSUME NEW p \in Pids, Start(p) PROVE HolderOwnsRecord'
  BY <1>3 DEF Start
<1>4. CASE Age
  BY <1>4, AgedShape DEF Age
<1>5. CASE OperatorRecovery
  BY <1>5 DEF OperatorRecovery
<1>6. CASE UNCHANGED vars
  BY <1>6 DEF vars
<1> QED
  BY <1>1, <1>2, <1>3, <1>4, <1>5, <1>6 DEF Next

\* An owner that gives up the record it was read with does not exit before the
\* probe: this is where the assumption on exits is used.
LEMMA ReadPreserved ==
  ASSUME MutexInv, [Next]_vars, ExitDuringProbe = FALSE
  PROVE  ReadIsCurrent'
<1> USE RecordShape, ClientsAssumption
      DEF MutexInv, GuardInv, TypeOK, DownIsDead, OneCleaner, HolderOwnsRecord,
          ReadIsCurrent, VictimIsStale, Guarded, Holding, Outside, Goto, Fault
<1>1. ASSUME NEW c \in Clients, ClientStep(c) PROVE ReadIsCurrent'
  <2>1. CASE Begin(c)          BY <2>1 DEF Begin
  <2>2. CASE Publish(c)        BY <2>2 DEF Publish
  <2>3. CASE InspectRead(c)    BY <2>3 DEF InspectRead
  <2>4. CASE InspectProbe(c)   BY <2>4 DEF InspectProbe
  <2>5. CASE PublishGuard(c)   BY <2>5 DEF PublishGuard
  <2>6. CASE InspectGuard(c)   BY <2>6 DEF InspectGuard
  <2>7. CASE Sweep(c)          BY <2>7 DEF Sweep, Swept
  <2>8. CASE RecheckRead(c)    BY <2>8 DEF RecheckRead, Finally
  <2>9. CASE RecheckProbe(c)   BY <2>9 DEF RecheckProbe, Finally, lockReclaimable
  <2>10. CASE ConfirmGuard(c)  BY <2>10 DEF ConfirmGuard, Finally
  <2>11. CASE Rename(c)        BY <2>11 DEF Rename, Finally
  <2>12. CASE Verify(c)        BY <2>12 DEF Verify, Finally
  <2>13. CASE PutBack(c)       BY <2>13 DEF PutBack, Finally, CanPutBack
  <2>14. CASE Unguard(c)       BY <2>14 DEF Unguard, Return
  <2>15. CASE RenameGuard(c)   BY <2>15 DEF RenameGuard
  <2>16. CASE VerifyGuard(c)   BY <2>16 DEF VerifyGuard, Return
  <2>17. CASE PutBackGuard(c)  BY <2>17 DEF PutBackGuard, Return
  <2>18. CASE Wait(c)          BY <2>18 DEF Wait
  <2>19. CASE Timeout(c)       BY <2>19 DEF Timeout
  <2>20. CASE Finish(c)        BY <2>20 DEF Finish
  <2>21. CASE ReleaseRead(c)   BY <2>21 DEF ReleaseRead
  <2>22. CASE ReleaseUnlink(c) BY <2>22 DEF ReleaseUnlink
  <2> QED
    BY <1>1, <2>1, <2>2, <2>3, <2>4, <2>5, <2>6, <2>7, <2>8, <2>9, <2>10,
       <2>11, <2>12, <2>13, <2>14, <2>15, <2>16, <2>17, <2>18, <2>19, <2>20,
       <2>21, <2>22 DEF ClientStep
<1>2. ASSUME NEW p \in Pids, Stop(p) PROVE ReadIsCurrent'
  BY <1>2 DEF Stop, ProbeWouldMislead
<1>3. ASSUME NEW p \in Pids, Start(p) PROVE ReadIsCurrent'
  BY <1>3 DEF Start
<1>4. CASE Age
  BY <1>4, AgedShape DEF Age
<1>5. CASE OperatorRecovery
  BY <1>5 DEF OperatorRecovery
<1>6. CASE UNCHANGED vars
  BY <1>6 DEF vars
<1> QED
  BY <1>1, <1>2, <1>3, <1>4, <1>5, <1>6 DEF Next

\* A record judged stale stays where it is until its cleaner renames it.
LEMMA VictimPreserved ==
  ASSUME MutexInv, [Next]_vars
  PROVE  VictimIsStale'
<1> USE RecordShape, ClientsAssumption
      DEF MutexInv, GuardInv, TypeOK, DownIsDead, OneCleaner, HolderOwnsRecord,
          ReadIsCurrent, VictimIsStale, Guarded, Holding, Outside, Goto, Fault
<1>1. ASSUME NEW c \in Clients, ClientStep(c) PROVE VictimIsStale'
  <2>1. CASE Begin(c)          BY <2>1 DEF Begin
  <2>2. CASE Publish(c)        BY <2>2 DEF Publish
  <2>3. CASE InspectRead(c)    BY <2>3 DEF InspectRead
  <2>4. CASE InspectProbe(c)   BY <2>4 DEF InspectProbe
  <2>5. CASE PublishGuard(c)   BY <2>5 DEF PublishGuard
  <2>6. CASE InspectGuard(c)   BY <2>6 DEF InspectGuard
  <2>7. CASE Sweep(c)          BY <2>7 DEF Sweep, Swept
  <2>8. CASE RecheckRead(c)    BY <2>8 DEF RecheckRead, Finally
  <2>9. CASE RecheckProbe(c)   BY <2>9 DEF RecheckProbe, Finally, lockReclaimable
  <2>10. CASE ConfirmGuard(c)  BY <2>10 DEF ConfirmGuard, Finally
  <2>11. CASE Rename(c)        BY <2>11 DEF Rename, Finally
  <2>12. CASE Verify(c)        BY <2>12 DEF Verify, Finally
  <2>13. CASE PutBack(c)       BY <2>13 DEF PutBack, Finally, CanPutBack
  <2>14. CASE Unguard(c)       BY <2>14 DEF Unguard, Return
  <2>15. CASE RenameGuard(c)   BY <2>15 DEF RenameGuard
  <2>16. CASE VerifyGuard(c)   BY <2>16 DEF VerifyGuard, Return
  <2>17. CASE PutBackGuard(c)  BY <2>17 DEF PutBackGuard, Return
  <2>18. CASE Wait(c)          BY <2>18 DEF Wait
  <2>19. CASE Timeout(c)       BY <2>19 DEF Timeout
  <2>20. CASE Finish(c)        BY <2>20 DEF Finish
  <2>21. CASE ReleaseRead(c)   BY <2>21 DEF ReleaseRead
  <2>22. CASE ReleaseUnlink(c) BY <2>22 DEF ReleaseUnlink
  <2> QED
    BY <1>1, <2>1, <2>2, <2>3, <2>4, <2>5, <2>6, <2>7, <2>8, <2>9, <2>10,
       <2>11, <2>12, <2>13, <2>14, <2>15, <2>16, <2>17, <2>18, <2>19, <2>20,
       <2>21, <2>22 DEF ClientStep
<1>2. ASSUME NEW p \in Pids, Stop(p) PROVE VictimIsStale'
  BY <1>2 DEF Stop, ProbeWouldMislead
<1>3. ASSUME NEW p \in Pids, Start(p) PROVE VictimIsStale'
  BY <1>3 DEF Start
<1>4. CASE Age
  BY <1>4, AgedShape DEF Age
<1>5. CASE OperatorRecovery
  BY <1>5 DEF OperatorRecovery
<1>6. CASE UNCHANGED vars
  BY <1>6 DEF vars
<1> QED
  BY <1>1, <1>2, <1>3, <1>4, <1>5, <1>6 DEF Next

-----------------------------------------------------------------------------
\* The two invariants are inductive.
LEMMA GuardInvPreserved == GuardInv /\ [Next]_vars => GuardInv'
BY TypePreserved, DownPreserved, OneCleanerPreserved, DisplacedPreserved
DEF GuardInv

LEMMA MutexInvPreserved ==
  ASSUME ExitDuringProbe = FALSE
  PROVE  MutexInv /\ [Next]_vars => MutexInv'
<1> SUFFICES ASSUME MutexInv, [Next]_vars PROVE MutexInv'
  OBVIOUS
<1>1. GuardInv'
  BY GuardInvPreserved DEF MutexInv
<1>2. HolderOwnsRecord' /\ ReadIsCurrent' /\ VictimIsStale'
  BY HolderPreserved, ReadPreserved, VictimPreserved
<1> QED
  BY <1>1, <1>2 DEF MutexInv

\* Type correctness, exclusive cleanup and the safety of displaced records:
\* for any number of clients, faults and exits, at any moment, at most one
\* cleaner is inside reclaimStaleLock's guarded section and no sweep deletes
\* the record it has moved aside.
THEOREM CleanupSafe == Spec => [](TypeOK /\ OneCleaner /\ DisplacedRecordKept)
<1>1. Init => GuardInv
  BY InitInv DEF MutexInv
<1>2. GuardInv /\ [Next]_vars => GuardInv'
  BY GuardInvPreserved
<1>3. GuardInv => TypeOK /\ OneCleaner /\ DisplacedRecordKept
  BY DEF GuardInv
<1> QED
  BY <1>1, <1>2, <1>3, PTL DEF Spec

\* The lock is exclusive and its record is its holder's own, provided no owner
\* both gives up its record and exits between a cleaner's read of that record
\* and the cleaner's probe of its pid.
THEOREM LockIsExclusive ==
  ASSUME ExitDuringProbe = FALSE
  PROVE  Spec => [](MutualExclusion /\ HolderOwnsRecord)
<1>1. Init => MutexInv
  BY InitInv
<1>2. MutexInv /\ [Next]_vars => MutexInv'
  BY MutexInvPreserved
<1>3. MutexInv => MutualExclusion /\ HolderOwnsRecord
  BY DEF MutexInv, MutualExclusion, HolderOwnsRecord, Holding
<1> QED
  BY <1>1, <1>2, <1>3, PTL DEF Spec

\* A cleanup guard is never taken over: only its own cleaner's removal, or the
\* operator when every process is stopped, makes it disappear.
THEOREM GuardIsNotTakenOver == Spec => GuardNeverTakenOver
<1> DEFINE Kept == guard # NoOne /\ guard' # guard =>
                     guard' = NoOne /\ (pc[guard] = "grename" \/ dead = Pids)
<1>1. GuardInv /\ [Next]_vars => [Kept]_vars
  <2> SUFFICES ASSUME GuardInv, Next PROVE Kept
    BY DEF vars
  <2>1. ASSUME NEW c \in Clients, ClientStep(c) PROVE Kept
    <3> USE DEF GuardInv, OneCleaner, Guarded
    <3>1. CASE PublishGuard(c) BY <3>1 DEF PublishGuard
    <3>2. CASE RenameGuard(c)  BY <3>2 DEF RenameGuard
    <3>3. CASE PutBackGuard(c) BY <3>3 DEF PutBackGuard
    <3>4. CASE guard' = guard  BY <3>4
    <3> QED
      BY <2>1, <3>1, <3>2, <3>3, <3>4
      DEF ClientStep, Begin, Publish, InspectRead, InspectProbe, InspectGuard,
          Sweep, RecheckRead, RecheckProbe, ConfirmGuard, Rename, Verify,
          PutBack, Unguard, VerifyGuard, Wait, Timeout, Finish, ReleaseRead,
          ReleaseUnlink
  <2>2. ASSUME NEW p \in Pids, Stop(p) \/ Start(p) PROVE Kept
    BY <2>2 DEF Stop, Start
  <2>3. CASE Age
    BY <2>3 DEF Age
  <2>4. CASE OperatorRecovery
    BY <2>4 DEF OperatorRecovery
  <2> QED
    BY <2>1, <2>2, <2>3, <2>4 DEF Next
<1>2. Init => GuardInv
  BY InitInv DEF MutexInv
<1>3. GuardInv /\ [Next]_vars => GuardInv'
  BY GuardInvPreserved
<1> QED
  BY <1>1, <1>2, <1>3, PTL DEF Spec, GuardNeverTakenOver

\* One step of the protocol enters or leaves the abstract lock, or neither.
LEMMA StepIsMutexStep ==
  ASSUME MutexInv, [Next]_vars
  PROVE  [Abstract!Next]_Holders
<1>1. \A c, d \in Holders : c = d
  BY DEF MutexInv, HolderOwnsRecord, Holders
<1>2. lock = NoRecord => Holders = {}
  BY RecordShape, ClientsAssumption DEF MutexInv, HolderOwnsRecord, Holders
<1>3. SUFFICES \/ \E c \in Clients : Holders = {} /\ Holders' = {c}
               \/ \E c \in Clients : Holders = {c} /\ Holders' = {}
               \/ Holders' = Holders
  BY DEF Abstract!Next, Abstract!Enter, Abstract!Leave
<1> USE DEF MutexInv, GuardInv, TypeOK, Holders, Holding, Guarded, Goto
<1>4. ASSUME NEW c \in Clients, Publish(c), lock = NoRecord, pc'[c] = "cs"
      PROVE  Holders = {} /\ Holders' = {c}
  BY <1>2, <1>4 DEF Publish
<1>5. ASSUME NEW c \in Clients, ReleaseRead(c) \/ ReleaseUnlink(c), pc'[c] = "idle"
      PROVE  Holders = {c} /\ Holders' = {}
  <2>1. c \in Holders
    BY <1>5 DEF ReleaseRead, ReleaseUnlink
  <2>2. Holders = {c}
    BY <1>1, <2>1
  <2>3. \A d \in Clients : d # c => pc'[d] = pc[d]
    BY <1>5 DEF ReleaseRead, ReleaseUnlink
  <2>4. Holders' = Holders \ {c}
    BY <1>5, <2>3
  <2> QED
    BY <2>2, <2>4
<1>6. ASSUME NEW p \in Pids, Stop(p)
      PROVE  \/ Holders' = Holders
             \/ \E c \in Clients : Holders = {c} /\ Holders' = {}
  <2>1. Holders' = {c \in Holders : PidOf[c] # p}
    BY <1>6 DEF Stop
  <2>2. CASE \E c \in Holders : PidOf[c] = p
    BY <1>1, <2>1, <2>2
  <2>3. CASE \A c \in Holders : PidOf[c] # p
    BY <2>1, <2>3
  <2> QED
    BY <2>2, <2>3
<1>7. ASSUME NEW c \in Clients, ClientStep(c),
             ~(Publish(c) /\ lock = NoRecord /\ pc'[c] = "cs"),
             ~((ReleaseRead(c) \/ ReleaseUnlink(c)) /\ pc'[c] = "idle")
      PROVE  Holders' = Holders
  <2> USE <1>7
  <2>1. CASE Publish(c)        BY <2>1 DEF Publish
  <2>2. CASE InspectRead(c)    BY <2>2 DEF InspectRead
  <2>3. CASE PublishGuard(c)   BY <2>3 DEF PublishGuard
  <2>4. CASE RecheckRead(c)    BY <2>4 DEF RecheckRead, Finally
  <2>5. CASE RecheckProbe(c)   BY <2>5 DEF RecheckProbe, Finally
  <2>6. CASE ConfirmGuard(c)   BY <2>6 DEF ConfirmGuard, Finally
  <2>7. CASE Rename(c)         BY <2>7 DEF Rename, Finally
  <2>8. CASE Verify(c)         BY <2>8 DEF Verify, Finally
  <2>9. CASE PutBack(c)        BY <2>9 DEF PutBack, Finally
  <2>10. CASE Unguard(c)       BY <2>10 DEF Unguard, Return
  <2>11. CASE RenameGuard(c)   BY <2>11 DEF RenameGuard
  <2>12. CASE VerifyGuard(c)   BY <2>12 DEF VerifyGuard, Return
  <2>13. CASE PutBackGuard(c)  BY <2>13 DEF PutBackGuard, Return
  <2>14. CASE ReleaseRead(c)   BY <2>14 DEF ReleaseRead
  <2>15. CASE ReleaseUnlink(c) BY <2>15 DEF ReleaseUnlink
  <2>16. CASE Begin(c) \/ InspectProbe(c) \/ InspectGuard(c) \/ Sweep(c)
    BY <2>16 DEF Begin, InspectProbe, InspectGuard, Sweep
  <2>17. CASE Wait(c) \/ Timeout(c) \/ Finish(c)
    BY <2>17 DEF Wait, Timeout, Finish
  <2> QED
    BY <2>1, <2>2, <2>3, <2>4, <2>5, <2>6, <2>7, <2>8, <2>9, <2>10, <2>11,
       <2>12, <2>13, <2>14, <2>15, <2>16, <2>17 DEF ClientStep
<1>8. ASSUME NEW p \in Pids, Start(p) PROVE Holders' = Holders
  BY <1>8 DEF Start, DownIsDead
<1>9. CASE Age \/ OperatorRecovery \/ UNCHANGED vars
  BY <1>9 DEF Age, OperatorRecovery, vars
<1> QED
  BY <1>4, <1>5, <1>6, <1>7, <1>8, <1>9 DEF Next

\* The file protocol implements the abstract lock, under the same condition.
THEOREM LockImplementsMutex ==
  ASSUME ExitDuringProbe = FALSE
  PROVE  Spec => ImplementsMutex
<1>1. Init => MutexInv /\ Abstract!Init
  BY InitInv DEF Init, Abstract!Init, Holders, Holding
<1>2. MutexInv /\ [Next]_vars => MutexInv'
  BY MutexInvPreserved
<1>3. MutexInv /\ [Next]_vars => [Abstract!Next]_Holders
  BY StepIsMutexStep
<1> QED
  BY <1>1, <1>2, <1>3, PTL DEF Spec, ImplementsMutex, Abstract!Spec
-----------------------------------------------------------------------------
\* While no process was stopped and no operation failed, whoever wrote the guard
\* is still cleaning up and nobody has to put a guard back.
Spent == stopsLeft < MaxStops \/ faultsLeft < MaxFaults
Budgets == stopsLeft \in 0..MaxStops /\ faultsLeft \in 0..MaxFaults
PutBackHasCause == (\E c \in Clients : pc[c] = "gputback") => Spent
CauseInv == GuardInv /\ Budgets /\ PutBackHasCause /\ OrphanGuardHasCause

\* Stops and faults are only ever spent.
LEMMA BudgetsPreserved ==
  ASSUME Budgets, [Next]_vars
  PROVE  Budgets' /\ (Spent => Spent')
<1> USE BoundsAssumption DEF Budgets, Spent, Fault
<1>1. ASSUME NEW c \in Clients, ClientStep(c)
      PROVE  stopsLeft' = stopsLeft /\ (faultsLeft' = faultsLeft \/ Fault(TRUE))
  <2>1. CASE Publish(c) \/ PublishGuard(c) \/ Rename(c) \/ RenameGuard(c) \/ ReleaseUnlink(c)
    BY <2>1 DEF Publish, PublishGuard, Rename, RenameGuard, ReleaseUnlink
  <2>2. CASE InspectRead(c) \/ InspectGuard(c) \/ RecheckRead(c) \/ ConfirmGuard(c)
    BY <2>2 DEF InspectRead, InspectGuard, RecheckRead, ConfirmGuard
  <2>3. CASE Verify(c) \/ PutBack(c) \/ Unguard(c) \/ VerifyGuard(c)
    BY <2>3 DEF Verify, PutBack, Unguard, VerifyGuard
  <2>4. CASE PutBackGuard(c) \/ ReleaseRead(c)
    BY <2>4 DEF PutBackGuard, ReleaseRead
  <2>5. CASE Begin(c) \/ InspectProbe(c) \/ Sweep(c) \/ RecheckProbe(c) \/ Wait(c)
             \/ Timeout(c) \/ Finish(c)
    BY <2>5 DEF Begin, InspectProbe, Sweep, RecheckProbe, Wait, Timeout, Finish
  <2> QED
    BY <1>1, <2>1, <2>2, <2>3, <2>4, <2>5 DEF ClientStep
<1>2. ASSUME NEW p \in Pids, Stop(p) \/ Start(p)
      PROVE  /\ faultsLeft' = faultsLeft
             /\ stopsLeft' = stopsLeft \/ (stopsLeft > 0 /\ stopsLeft' = stopsLeft - 1)
  BY <1>2 DEF Stop, Start
<1>3. CASE Age \/ OperatorRecovery \/ UNCHANGED vars
  BY <1>3 DEF Age, OperatorRecovery, vars
<1> QED
  BY <1>1, <1>2, <1>3 DEF Next

\* A step that spends nothing orphans no guard and puts none back.
LEMMA CausePreserved ==
  ASSUME CauseInv, [Next]_vars
  PROVE  PutBackHasCause' /\ OrphanGuardHasCause'
<1> DEFINE Clean == (\A c \in Clients : pc[c] # "gputback") /\ ~GuardOrphaned
<1>1. Budgets' /\ (Spent => Spent')
  BY BudgetsPreserved DEF CauseInv
<1> SUFFICES ASSUME ~Spent', ~Spent PROVE Clean'
  BY <1>1 DEF PutBackHasCause, OrphanGuardHasCause, Spent
<1>0. \A c \in Clients : pc[c] # "gputback"
  BY DEF CauseInv, PutBackHasCause
<1>2. guard # NoOne => pc[guard] \in Guarded
  BY DEF CauseInv, OrphanGuardHasCause, GuardOrphaned, Spent
<1>3. /\ \A f \in BOOLEAN : Fault(f) => ~f
      /\ ~Fault(TRUE)
  BY <1>1, BoundsAssumption DEF Fault, Spent, CauseInv, Budgets
<1> USE ClientsAssumption, <1>0, <1>2, <1>3
    DEF CauseInv, GuardInv, TypeOK, OneCleaner, GuardOrphaned, Guarded, Goto
<1>4. ASSUME NEW c \in Clients, ClientStep(c) PROVE Clean'
  <2>1. CASE Begin(c)          BY <2>1 DEF Begin
  <2>2. CASE Publish(c)        BY <2>2 DEF Publish
  <2>3. CASE InspectRead(c)    BY <2>3 DEF InspectRead
  <2>4. CASE InspectProbe(c)   BY <2>4 DEF InspectProbe
  <2>5. CASE PublishGuard(c)   BY <2>5 DEF PublishGuard
  <2>6. CASE InspectGuard(c)   BY <2>6 DEF InspectGuard
  <2>7. CASE Sweep(c)          BY <2>7 DEF Sweep
  <2>8. CASE RecheckRead(c)    BY <2>8 DEF RecheckRead, Finally
  <2>9. CASE RecheckProbe(c)   BY <2>9 DEF RecheckProbe, Finally
  <2>10. CASE ConfirmGuard(c)  BY <2>10 DEF ConfirmGuard, Finally
  <2>11. CASE Rename(c)        BY <2>11 DEF Rename, Finally
  <2>12. CASE Verify(c)        BY <2>12 DEF Verify, Finally
  <2>13. CASE PutBack(c)       BY <2>13 DEF PutBack, Finally
  <2>14. CASE Unguard(c)       BY <2>14 DEF Unguard, Return
  <2>15. CASE RenameGuard(c)   BY <2>15 DEF RenameGuard
  <2>16. CASE VerifyGuard(c)   BY <2>16 DEF VerifyGuard, Return
  <2>17. CASE PutBackGuard(c)  BY <2>17 DEF PutBackGuard, Return
  <2>18. CASE Wait(c)          BY <2>18 DEF Wait
  <2>19. CASE Timeout(c)       BY <2>19 DEF Timeout
  <2>20. CASE Finish(c)        BY <2>20 DEF Finish
  <2>21. CASE ReleaseRead(c)   BY <2>21 DEF ReleaseRead
  <2>22. CASE ReleaseUnlink(c) BY <2>22 DEF ReleaseUnlink
  <2> QED
    BY <1>4, <2>1, <2>2, <2>3, <2>4, <2>5, <2>6, <2>7, <2>8, <2>9, <2>10,
       <2>11, <2>12, <2>13, <2>14, <2>15, <2>16, <2>17, <2>18, <2>19, <2>20,
       <2>21, <2>22 DEF ClientStep
<1>5. ASSUME NEW p \in Pids, Stop(p) PROVE FALSE
  BY <1>1, <1>5, BoundsAssumption DEF Stop, Budgets, Spent
<1>6. ASSUME NEW p \in Pids, Start(p) PROVE Clean'
  BY <1>6 DEF Start, DownIsDead
<1>7. CASE Age \/ OperatorRecovery \/ UNCHANGED vars
  BY <1>7 DEF Age, OperatorRecovery, vars
<1> QED
  BY <1>4, <1>5, <1>6, <1>7 DEF Next

\* The finally block of reclaimStaleLock: a guard is only left to the operator
\* after a process was stopped or a file operation failed.
THEOREM OrphansHaveCause == Spec => []OrphanGuardHasCause
<1>1. Init => CauseInv
  <2> SUFFICES ASSUME Init PROVE CauseInv
    OBVIOUS
  <2>1. GuardInv
    BY InitInv DEF MutexInv
  <2>2. Budgets
    BY BoundsAssumption DEF Init, Budgets
  <2>3. PutBackHasCause /\ OrphanGuardHasCause
    BY DEF Init, PutBackHasCause, OrphanGuardHasCause, GuardOrphaned
  <2> QED
    BY <2>1, <2>2, <2>3 DEF CauseInv
<1>2. CauseInv /\ [Next]_vars => CauseInv'
  BY GuardInvPreserved, BudgetsPreserved, CausePreserved DEF CauseInv
<1>3. CauseInv => OrphanGuardHasCause
  BY DEF CauseInv
<1> QED
  BY <1>1, <1>2, <1>3, PTL DEF Spec
=============================================================================
