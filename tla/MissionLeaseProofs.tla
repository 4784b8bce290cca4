-------------------------- MODULE MissionLeaseProofs --------------------------
(***************************************************************************)
(* Generations of a mission lease, for any number of managers and holders, *)
(* any TTL, any lag of a queued call, any number of generations and of     *)
(* writes that throw, as long as a release ends no other lease's record.   *)
(*                                                                         *)
(* The invariant ties every manager's private map to the durable record: a *)
(* generation the record has not reached is one whose write failed, and a  *)
(* row of the durable generation names the durable owner, unless that      *)
(* generation's write failed somewhere.  Without it a manager that missed  *)
(* a takeover could renew, or number the next generation from, its own     *)
(* stale rows.                                                             *)
(***************************************************************************)
EXTENDS MissionLease, TLAPS

Row == [holder : Holders \cup {NoOne}, status : {"none", "active", "released"},
        left : Times]
SlotType == [known : BOOLEAN, fence : 0..MaxFence, cur : 0..MaxFence]

\* How a manager's rows fit a record, apart from the spoiled generations.
Fits(rows, record, sp) ==
  \A f \in Fences : rows[f].status # "none" =>
    /\ f > record.fence => f \in sp
    /\ f = record.fence /\ f \notin sp => rows[f].holder = record.owner
GenerationInv == TypeOK /\ \A m \in Managers : Fits(leases[m], durable, spoiled)

\* Who was told that it holds the resource owns the durable generation, for no
\* longer than the record says, unless that generation's write failed somewhere.
GrantsAreCurrent ==
  \A h \in Holders : grant[h].left > 0 /\ grant[h].fence \notin spoiled =>
    durable.owner = h /\ grant[h].fence = durable.fence /\ grant[h].left <= durable.left

\* What one record may be followed by: a newer generation, or the same one with
\* its owner kept or its write failed somewhere.
Follows(next, record, sp) ==
  \/ next.fence > record.fence
  \/ next.fence = record.fence /\ (next.owner = record.owner \/ next.fence \in sp)

\* Rows that fit a record fit what may follow it.
LEMMA FitsWhatFollows ==
  ASSUME NEW rows, NEW record, NEW next, NEW sp, NEW sq,
         record.fence \in Int, next.fence \in Int,
         sp \subseteq sq, Fits(rows, record, sp), Follows(next, record, sq)
  PROVE  Fits(rows, next, sq)
<1> SUFFICES ASSUME NEW f \in Fences, rows[f].status # "none"
             PROVE  /\ f > next.fence => f \in sq
                    /\ f = next.fence /\ f \notin sq => rows[f].holder = next.owner
  BY DEF Fits
<1>1. /\ f > record.fence => f \in sp
      /\ f = record.fence /\ f \notin sp => rows[f].holder = record.owner
  BY DEF Fits
<1>2. f \in Int
  BY MissionAssumption DEF Fences
<1>3. CASE next.fence > record.fence
  BY <1>1, <1>2, <1>3
<1>4. CASE next.fence = record.fence /\ (next.owner = record.owner \/ next.fence \in sq)
  BY <1>1, <1>2, <1>4
<1> QED
  BY <1>3, <1>4 DEF Follows

\* ... and so do rows with the same holders and no more of them.
LEMMA FitsFewer ==
  ASSUME NEW rows, NEW old, NEW record, NEW sp, Fits(old, record, sp),
         \A f \in Fences : rows[f].status # "none" =>
           old[f].status # "none" /\ rows[f].holder = old[f].holder
  PROVE  Fits(rows, record, sp)
BY DEF Fits

\* What the invariant says of the parts of the state.
LEMMA Parts ==
  ASSUME GenerationInv
  PROVE  /\ durable \in [owner : Holders \cup {NoOne}, fence : 0..MaxFence, left : Times]
         /\ durable.fence \in Int /\ durable.fence \in 0..MaxFence /\ durable.fence >= 0
         /\ durable.left \in Times /\ durable.left \in Int
         /\ durable.owner \in Holders \cup {NoOne}
         /\ slot \in [Managers -> SlotType] /\ leases \in [Managers -> [Fences -> Row]]
         /\ contenders \in [Managers -> SUBSET Holders]
         /\ grant \in [Holders -> [fence : 0..MaxFence, left : 0..TTL]]
         /\ spoiled \subseteq Fences /\ failures \in 0..MaxFailures
         /\ \A h \in Holders : grant[h].left \in Int
         /\ \A m \in Managers : /\ Fits(leases[m], durable, spoiled)
                               /\ slot[m].fence \in 0..MaxFence /\ slot[m].fence \in Int
                               /\ slot[m].cur \in 0..MaxFence /\ slot[m].cur \in Int
<1>1. TypeOK /\ \A m \in Managers : Fits(leases[m], durable, spoiled)
  BY DEF GenerationInv
<1>2. /\ durable \in [owner : Holders \cup {NoOne}, fence : 0..MaxFence, left : Times]
      /\ slot \in [Managers -> SlotType] /\ leases \in [Managers -> [Fences -> Row]]
      /\ contenders \in [Managers -> SUBSET Holders]
      /\ grant \in [Holders -> [fence : 0..MaxFence, left : 0..TTL]]
      /\ spoiled \subseteq Fences /\ failures \in 0..MaxFailures
  BY <1>1 DEF TypeOK, SlotType, Row
<1>3. \A t \in Times : t \in Int
  BY MissionAssumption DEF Times, Released
<1>4. /\ durable.fence \in Int /\ durable.fence \in 0..MaxFence /\ durable.fence >= 0
      /\ durable.left \in Times /\ durable.left \in Int
      /\ durable.owner \in Holders \cup {NoOne}
  BY <1>2, <1>3, MissionAssumption
<1>5. \A h \in Holders : grant[h].left \in Int
  BY <1>2, MissionAssumption
<1>6. \A m \in Managers : /\ slot[m].fence \in 0..MaxFence /\ slot[m].fence \in Int
                         /\ slot[m].cur \in 0..MaxFence /\ slot[m].cur \in Int
  BY <1>2, MissionAssumption DEF SlotType
<1> QED
  BY <1>1, <1>2, <1>4, <1>5, <1>6

\* What refreshing a manager's view from the durable record preserves
\* (liveLeaseOf, hydrateFromDurable).
LEMMA RefreshKeeps ==
  ASSUME GenerationInv, NEW m \in Managers, NEW lag \in Lags
  PROVE  /\ Rows(m, lag) \in [Fences -> Row]
         /\ SlotAfter(m, lag) \in SlotType
         /\ Fits(Rows(m, lag), durable, spoiled)
<1>1. /\ durable \in [owner : Holders \cup {NoOne}, fence : 0..MaxFence, left : Times]
      /\ slot[m] \in SlotType
      /\ leases[m] \in [Fences -> Row]
      /\ MaxFence \in Nat /\ durable.fence \in 0..MaxFence /\ durable.fence \in Int
      /\ slot[m].known \in BOOLEAN /\ slot[m].fence \in 0..MaxFence /\ slot[m].cur \in 0..MaxFence
      /\ Fits(leases[m], durable, spoiled)
  BY MissionAssumption, Parts DEF SlotType
<1>2. SlotAfter(m, lag) \in SlotType
  BY <1>1 DEF SlotAfter, SlotType, Larger
<1>3. CASE DurableLive(lag)
  <2>1. Rows(m, lag) = Hydrated(m)
    BY <1>3 DEF Rows
  <2>2. [holder |-> durable.owner, status |-> "active", left |-> durable.left] \in Row
    BY <1>1 DEF Row
  <2>3. /\ Hydrated(m) \in [Fences -> Row]
        /\ \A f \in Fences : f # durable.fence => Hydrated(m)[f] = leases[m][f]
        /\ \A f \in Fences : f = durable.fence => Hydrated(m)[f].holder = durable.owner
    BY <1>1, <2>2 DEF Hydrated
  <2>4. Fits(Hydrated(m), durable, spoiled)
    BY <1>1, <2>3 DEF Fits, Fences
  <2> QED
    BY <1>2, <2>1, <2>3, <2>4
<1>4. CASE ~DurableLive(lag)
  <2>1. \/ Rows(m, lag) = Invalidated(m)
        \/ Rows(m, lag) = leases[m]
    BY <1>4 DEF Rows
  <2>2. /\ Invalidated(m) \in [Fences -> Row]
        /\ \A f \in Fences : /\ Invalidated(m)[f].holder = leases[m][f].holder
                             /\ leases[m][f].status = "none" => Invalidated(m)[f].status = "none"
    <3>1. ASSUME NEW r \in Row
          PROVE  LET q == [r EXCEPT !.left = Smaller(@, durable.left),
                                    !.status = IF durable.left = Released THEN "released" ELSE @]
                 IN  q \in Row /\ q.holder = r.holder
      BY <1>1, <3>1 DEF Row, Smaller
    <3>2. CASE Invalidated(m) = leases[m]
      BY <1>1, <3>2
    <3>3. CASE Invalidated(m) # leases[m]
      <4> DEFINE c == slot[m].cur
      <4> DEFINE q == [leases[m][c] EXCEPT !.left = Smaller(@, durable.left),
                         !.status = IF durable.left = Released THEN "released" ELSE @]
      <4>1. c \in Fences /\ leases[m][c].status = "active"
        BY <1>1, <3>3 DEF Invalidated, Fences
      <4>2. Invalidated(m) = [leases[m] EXCEPT ![c] = q]
        BY <3>3 DEF Invalidated
      <4>3. q \in Row /\ q.holder = leases[m][c].holder
        BY <1>1, <3>1, <4>1
      <4> HIDE DEF q
      <4> QED
        BY <1>1, <4>1, <4>2, <4>3
    <3> QED
      BY <3>2, <3>3
  <2>3. Fits(Invalidated(m), durable, spoiled)
    BY <1>1, <2>2, FitsFewer
  <2> QED
    BY <1>1, <1>2, <2>1, <2>2, <2>3
<1> QED
  BY <1>3, <1>4

\* A lease found live is known to the manager, or is the record's own.
LEMMA LiveLeaseIsTyped ==
  ASSUME GenerationInv, NEW m \in Managers, NEW lag \in Lags, Live(m, lag)
  PROVE  /\ LiveLease(m, lag).fence \in 0..MaxFence /\ LiveLease(m, lag).left \in Times
         /\ ~DurableLive(lag) => LiveLease(m, lag).fence \in spoiled
<1>1. CASE DurableLive(lag)
  BY <1>1, Parts DEF LiveLease
<1>2. CASE ~DurableLive(lag)
  <2> DEFINE c == slot[m].cur
  <2>1. durable.fence = 0 /\ c # 0 /\ leases[m][c].status = "active"
    BY <1>2 DEF Live, LocalLive
  <2>2. LiveLease(m, lag).fence = c /\ LiveLease(m, lag).left = leases[m][c].left
    BY <1>2 DEF LiveLease
  <2>3. c \in Fences /\ c \in 0..MaxFence /\ c > 0
    BY <2>1, Parts, MissionAssumption DEF Fences
  <2>4. leases[m][c] \in Row
    BY <2>3, Parts
  <2>5. Fits(leases[m], durable, spoiled)
    BY Parts
  <2>6. c \in spoiled
    BY <2>1, <2>3, <2>5 DEF Fits
  <2> QED
    BY <1>2, <2>2, <2>3, <2>4, <2>6 DEF Row
<1> QED
  BY <1>1, <1>2

\* A renewal that passes the checks of renewLease is one of the live durable
\* generation, by its owner unless the generation is spoiled; or, while the
\* record is not live, one of a newer generation whose write failed.
LEMMA RenewalIsCurrent ==
  ASSUME GenerationInv, NEW m \in Managers, NEW lag \in Lags,
         NEW f \in Fences, NEW h \in Holders, Renewable(m, f, h, lag)
  PROVE  \/ DurableLive(lag) /\ f = durable.fence /\ (h = durable.owner \/ f \in spoiled)
         \/ ~DurableLive(lag) /\ f > durable.fence /\ f \in spoiled
<1>0. /\ leases[m] \in [Fences -> Row] /\ leases[m][f] \in Row /\ f \in Int /\ f > 0
      /\ leases[m][f].left \in Int /\ durable.left \in Int /\ lag \in Int
      /\ durable.fence \in Int /\ durable.fence >= 0
  <2>1. leases[m] \in [Fences -> Row] /\ leases[m][f] \in Row
    BY Parts
  <2>2. leases[m][f].left \in Times
    BY <2>1 DEF Row
  <2>3. \A t \in Times : t \in Int
    BY MissionAssumption DEF Times, Released
  <2>4. f \in Int /\ f > 0 /\ lag \in Int
    BY MissionAssumption DEF Fences, Lags
  <2> QED
    BY <2>1, <2>2, <2>3, <2>4, Parts
<1>1. CASE DurableLive(lag)
  <2>1. f = durable.fence
    BY <1>1 DEF Renewable, SlotAfter
  <2>2. CASE Detached(m, f, lag)
    <3>1. leases[m][f].status # "none" /\ leases[m][f].holder = h
      BY <2>2 DEF Renewable, Stored
    <3> QED
      BY <1>1, <2>1, <3>1, Parts DEF Fits
  <2>3. CASE ~Detached(m, f, lag)
    <3>1. Rows(m, lag)[f].holder = durable.owner
      BY <1>0, <1>1, <2>1 DEF Rows, Hydrated
    <3> QED
      BY <1>1, <2>1, <2>3, <3>1 DEF Renewable, Stored
  <2> QED
    BY <2>2, <2>3
<1>2. CASE ~DurableLive(lag)
  <2>1. /\ slot[m].cur = f
        /\ Rows(m, lag)[f].status = "active" /\ Rows(m, lag)[f].left + lag > 0
    BY <1>2 DEF Renewable, Stored, Detached, SlotAfter
  <2>2. CASE durable.fence > 0 /\ f <= durable.fence /\ leases[m][f].status = "active"
    <3> DEFINE q == [leases[m][f] EXCEPT
                       !.left = Smaller(@, durable.left),
                       !.status = IF durable.left = Released THEN "released" ELSE @]
    <3>0. slot[m].cur = f /\ f # 0 /\ f <= durable.fence /\ leases[m][f].status = "active"
      BY <1>0, <2>1, <2>2
    <3>1. Invalidated(m) = [leases[m] EXCEPT ![f] = q]
      BY <3>0, Zenon DEF Invalidated
    <3>2. q.left = Smaller(leases[m][f].left, durable.left)
      BY <1>0 DEF Row
    <3> HIDE DEF q
    <3>3. Rows(m, lag)[f] = q
      BY <1>0, <1>2, <2>2, <3>1 DEF Rows
    <3>4. Smaller(leases[m][f].left, durable.left) + lag > 0
      BY <2>1, <3>2, <3>3
    <3> QED
      BY <1>0, <1>2, <3>4 DEF Smaller, DurableLive, IsLive
  <2>3. CASE ~(durable.fence > 0 /\ f <= durable.fence /\ leases[m][f].status = "active")
    <3>1. Rows(m, lag) = leases[m]
      BY <1>2, <2>1, <2>3 DEF Rows, Invalidated
    <3>2. leases[m][f].status = "active"
      BY <2>1, <3>1
    <3>3. f > durable.fence
      BY <1>0, <2>3, <3>2
    <3> QED
      BY <1>2, <3>2, <3>3, Parts DEF Fits
  <2> QED
    BY <2>2, <2>3
<1> QED
  BY <1>1, <1>2

\* One manager's view is refreshed and nothing durable changes.
LEMMA RefreshPreserves ==
  ASSUME GenerationInv, NEW m \in Managers, NEW lag \in Lags, Refresh(m, lag),
         durable' = durable, spoiled' = spoiled, failures' \in 0..MaxFailures,
         contenders' \in [Managers -> SUBSET Holders],
         grant' \in [Holders -> [fence : 0..MaxFence, left : 0..TTL]]
  PROVE  GenerationInv'
<1>1. /\ leases' \in [Managers -> [Fences -> Row]] /\ slot' \in [Managers -> SlotType]
      /\ leases'[m] = Rows(m, lag)
      /\ \A n \in Managers : n # m => leases'[n] = leases[n]
  BY Parts, RefreshKeeps DEF Refresh
<1>2. TypeOK'
  BY <1>1, Parts DEF TypeOK, Row, SlotType
<1>3. ASSUME NEW n \in Managers PROVE Fits(leases'[n], durable', spoiled')
  BY <1>1, <1>3, Parts, RefreshKeeps
<1> QED
  BY <1>2, <1>3 DEF GenerationInv

\* One manager changes its rows and the record moves on, or not.
LEMMA WritePreserves ==
  ASSUME GenerationInv, TypeOK', NEW m \in Managers,
         Follows(durable', durable, spoiled'), spoiled \subseteq spoiled',
         Fits(leases'[m], durable', spoiled'),
         \A n \in Managers : n # m => leases'[n] = leases[n]
  PROVE  GenerationInv'
<1>1. durable.fence \in Int /\ durable'.fence \in Int
  <2>1. durable'.fence \in Int
    BY MissionAssumption DEF TypeOK
  <2> QED
    BY <2>1, Parts
<1>2. ASSUME NEW n \in Managers, n # m PROVE Fits(leases'[n], durable', spoiled')
  <2>1. Fits(leases[n], durable, spoiled)
    BY Parts
  <2>2. Fits(leases[n], durable', spoiled')
    BY <1>1, <2>1, FitsWhatFollows
  <2> QED
    BY <1>2, <2>2
<1> QED
  BY <1>2 DEF GenerationInv

LEMMA GenerationInit == Init => GenerationInv
<1> SUFFICES ASSUME Init PROVE GenerationInv
  OBVIOUS
<1> USE MissionAssumption
<1>1. Released \in Times /\ 0 \in 0..MaxFence /\ 0 \in 0..TTL /\ 0 \in 0..MaxFailures
  BY DEF Released, Times
<1>2. NoLease \in Row /\ NoLease.status = "none" /\ NoGrant \in [fence : 0..MaxFence, left : 0..TTL]
  BY <1>1 DEF NoLease, Row, NoGrant
<1>3. TypeOK
  BY <1>1, <1>2 DEF Init, TypeOK, Row
<1>4. \A m \in Managers : Fits(leases[m], durable, spoiled)
  BY <1>2 DEF Init, Fits
<1> QED
  BY <1>3, <1>4 DEF GenerationInv

\* What a caller is told is a grant.
LEMMA ToldIsGrant ==
  ASSUME NEW f \in 0..MaxFence, NEW left \in Times
  PROVE  Told(f, left) \in [fence : 0..MaxFence, left : 0..TTL]
BY MissionAssumption DEF Told, NoGrant, Times, Released

LEMMA TakeoverPreserves ==
  ASSUME GenerationInv, NEW m \in Managers, NEW h \in Holders, NEW lag \in Lags,
         AcquireTakeover(m, h, lag)
  PROVE  /\ GenerationInv'
         /\ durable' = durable \/ durable'.fence > durable.fence
<1> DEFINE f == NextFence(m)
<1> DEFINE row == [holder |-> h, status |-> "active", left |-> Deadline(lag)]
<1>0. Deadline(lag) \in Times
  BY MissionAssumption DEF Deadline, Times, Released, Lags
<1>1. f \in Fences /\ f > durable.fence /\ f \in 0..MaxFence /\ f \in Int
  <2>1. f \in Fences
    BY DEF AcquireTakeover
  <2>2. f > durable.fence
    BY Parts DEF NextFence, Larger
  <2> QED
    BY <2>1, <2>2, MissionAssumption DEF Fences
<1>2. /\ leases' = [leases EXCEPT ![m] = [Rows(m, lag) EXCEPT ![f] = row]]
      /\ slot' = [slot EXCEPT ![m] = [known |-> TRUE, fence |-> f, cur |-> f]]
      /\ contenders' = [contenders EXCEPT ![m] = @ \ {h}]
      /\ \/ /\ durable' = [owner |-> h, fence |-> f, left |-> Deadline(lag)]
            /\ grant' = [grant EXCEPT ![h] = Told(f, Deadline(lag))]
            /\ spoiled' = spoiled /\ failures' = failures
         \/ /\ durable' = durable /\ grant' = grant /\ spoiled' = spoiled \cup {f}
            /\ failures < MaxFailures /\ failures' = failures + 1
  BY DEF AcquireTakeover, Persisted, NotPersisted
<1> HIDE DEF f
<1>3. row \in Row /\ Rows(m, lag) \in [Fences -> Row] /\ Fits(Rows(m, lag), durable, spoiled)
  BY <1>0, RefreshKeeps DEF Row
<1>4. /\ leases' \in [Managers -> [Fences -> Row]]
      /\ \A k \in Fences : k # f => leases'[m][k] = Rows(m, lag)[k]
      /\ leases'[m][f].holder = h
      /\ \A n \in Managers : n # m => leases'[n] = leases[n]
  BY <1>1, <1>2, <1>3, Parts
<1>5. TypeOK'
  <2>1. durable' \in [owner : Holders \cup {NoOne}, fence : 0..MaxFence, left : Times]
    BY <1>0, <1>1, <1>2, Parts
  <2>2. grant' \in [Holders -> [fence : 0..MaxFence, left : 0..TTL]]
    BY <1>0, <1>1, <1>2, Parts, ToldIsGrant
  <2>3. contenders' \in [Managers -> SUBSET Holders]
    BY <1>2, Parts
  <2>4. slot' \in [Managers -> SlotType]
    BY <1>1, <1>2, Parts DEF SlotType
  <2>5. spoiled' \subseteq Fences /\ failures' \in 0..MaxFailures
    BY <1>1, <1>2, Parts, MissionAssumption
  <2> QED
    BY <1>4, <2>1, <2>2, <2>3, <2>4, <2>5 DEF TypeOK, Row, SlotType
<1>6. Follows(durable', durable, spoiled') /\ spoiled \subseteq spoiled'
  BY <1>1, <1>2 DEF Follows
<1>7. Fits(leases'[m], durable', spoiled')
  <2>1. durable.fence \in Int /\ durable'.fence \in Int
    BY <1>1, <1>2, Parts
  <2>2. Fits(Rows(m, lag), durable', spoiled')
    BY <1>3, <1>6, <2>1, FitsWhatFollows
  <2>3. ASSUME NEW k \in Fences, leases'[m][k].status # "none"
        PROVE  /\ k > durable'.fence => k \in spoiled'
               /\ k = durable'.fence /\ k \notin spoiled' => leases'[m][k].holder = durable'.owner
    <3>1. CASE k # f
      BY <1>4, <2>2, <2>3, <3>1 DEF Fits
    <3>2. CASE k = f
      BY <1>1, <1>2, <1>4, <3>2
    <3> QED
      BY <3>1, <3>2
  <2> QED
    BY <2>3 DEF Fits
<1>8. durable' = durable \/ durable'.fence > durable.fence
  BY <1>1, <1>2
<1> QED
  BY <1>4, <1>5, <1>6, <1>7, <1>8, WritePreserves

LEMMA RenewPreserves ==
  ASSUME GenerationInv, NEW m \in Managers, NEW h \in Holders, NEW lag \in Lags,
         NEW f \in Fences, Renew(m, f, h, lag)
  PROVE  /\ GenerationInv'
         /\ durable' = durable \/ durable'.fence >= durable.fence
         /\ durable.left = Released => durable' = durable \/ durable'.fence > durable.fence
<1>0. Deadline(lag) \in Times /\ f \in 0..MaxFence /\ f \in Int
  BY MissionAssumption DEF Deadline, Times, Released, Lags, Fences
<1>1. CASE ~Renewable(m, f, h, lag)
  <2>1. /\ Refresh(m, lag) /\ durable' = durable /\ grant' = grant
        /\ contenders' = contenders /\ spoiled' = spoiled /\ failures' = failures
    BY <1>1 DEF Renew, Refresh
  <2>2. GenerationInv'
    BY <2>1, RefreshPreserves, Parts
  <2> QED
    BY <2>1, <2>2
<1>2. CASE Renewable(m, f, h, lag)
  <2> DEFINE rows == [Rows(m, lag) EXCEPT ![f].left =
                        IF Detached(m, f, lag) THEN @ ELSE Deadline(lag)]
  <2>1. /\ leases' = [leases EXCEPT ![m] = rows]
        /\ slot' = [slot EXCEPT ![m] = SlotAfter(m, lag)]
        /\ contenders' = contenders /\ spoiled' = spoiled
        /\ \/ /\ durable' = [owner |-> h, fence |-> f, left |-> Deadline(lag)]
              /\ grant' = [grant EXCEPT ![h] = Told(f, Deadline(lag))]
              /\ failures' = failures
           \/ /\ durable' = durable /\ grant' = grant
              /\ failures < MaxFailures /\ failures' = failures + 1
    BY <1>2 DEF Renew, Persisted, NotPersisted
  <2>2. /\ rows \in [Fences -> Row]
        /\ \A k \in Fences : /\ rows[k].status = Rows(m, lag)[k].status
                             /\ rows[k].holder = Rows(m, lag)[k].holder
    <3>1. Rows(m, lag) \in [Fences -> Row]
      BY RefreshKeeps
    <3>2. ASSUME NEW r \in Row, NEW t \in Times
          PROVE  LET q == [r EXCEPT !.left = t]
                 IN  q \in Row /\ q.status = r.status /\ q.holder = r.holder
      BY <3>2 DEF Row
    <3> QED
      BY <1>0, <3>1, <3>2 DEF Row
  <2> HIDE DEF rows
  <2>3. /\ leases' \in [Managers -> [Fences -> Row]] /\ slot' \in [Managers -> SlotType]
        /\ leases'[m] = rows
        /\ \A n \in Managers : n # m => leases'[n] = leases[n]
    BY <2>1, <2>2, Parts, RefreshKeeps
  <2>4. TypeOK'
    <3>1. durable' \in [owner : Holders \cup {NoOne}, fence : 0..MaxFence, left : Times]
      BY <1>0, <2>1, Parts
    <3>2. grant' \in [Holders -> [fence : 0..MaxFence, left : 0..TTL]]
      BY <1>0, <2>1, Parts, ToldIsGrant
    <3>3. failures' \in 0..MaxFailures
      BY <2>1, Parts, MissionAssumption
    <3>4. spoiled' \subseteq Fences /\ contenders' \in [Managers -> SUBSET Holders]
      BY <2>1, Parts
    <3> QED
      BY <2>3, <3>1, <3>2, <3>3, <3>4 DEF TypeOK, Row, SlotType
  <2>5. \/ DurableLive(lag) /\ f = durable.fence /\ (h = durable.owner \/ f \in spoiled)
        \/ ~DurableLive(lag) /\ f > durable.fence
    BY <1>2, RenewalIsCurrent
  <2>6. Follows(durable', durable, spoiled')
    BY <2>1, <2>5, Parts DEF Follows
  <2>7. Fits(leases'[m], durable', spoiled')
    <3>1. Fits(rows, durable, spoiled)
      BY <2>2, RefreshKeeps, FitsFewer
    <3>2. durable.fence \in Int /\ durable'.fence \in Int
      BY <1>0, <2>1, Parts
    <3>3. spoiled \subseteq spoiled'
      BY <2>1
    <3>4. Fits(rows, durable', spoiled')
      BY <2>6, <3>1, <3>2, <3>3, FitsWhatFollows
    <3> QED
      BY <2>3, <3>4
  <2>8. GenerationInv'
    BY <2>1, <2>3, <2>4, <2>6, <2>7, WritePreserves
  <2>9. durable.left = Released => ~DurableLive(lag)
    BY MissionAssumption DEF Released, DurableLive, IsLive, Lags
  <2> QED
    BY <1>0, <2>1, <2>5, <2>8, <2>9, Parts
<1> QED
  BY <1>1, <1>2

LEMMA ReleasePreserves ==
  ASSUME GenerationInv, StaleRelease = FALSE,
         NEW m \in Managers, NEW h \in Holders, NEW f \in Fences, Release(m, f, h)
  PROVE  /\ GenerationInv'
         /\ durable' = durable \/ (durable'.fence >= durable.fence /\ durable'.left = Released)
<1>0. Released \in Times /\ f \in 0..MaxFence /\ f \in Int
  BY MissionAssumption DEF Times, Released, Fences
<1>1. /\ durable.fence = f \/ durable.fence < f
      /\ leases[m][f].status = "active" /\ leases[m][f].holder = h
      /\ leases' = [leases EXCEPT ![m][f].status = "released"]
      /\ slot' = slot /\ contenders' = contenders /\ spoiled' = spoiled
      /\ \/ /\ durable' = [owner |-> h, fence |-> f, left |-> Released]
            /\ grant' = [grant EXCEPT ![h] = IF grant[h].fence = f THEN NoGrant ELSE grant[h]]
            /\ failures' = failures
         \/ /\ durable' = durable /\ grant' = grant
            /\ failures < MaxFailures /\ failures' = failures + 1
  BY DEF Release, EndsItsOwn, Releasable, Persisted, NotPersisted
<1>2. Fits(leases[m], durable, spoiled)
  BY Parts
<1>3. \/ durable.fence = f /\ (h = durable.owner \/ f \in spoiled)
      \/ durable.fence < f /\ f \in spoiled
  BY <1>0, <1>1, <1>2, Parts DEF Fits
<1>4. /\ leases' \in [Managers -> [Fences -> Row]]
      /\ \A n \in Managers : n # m => leases'[n] = leases[n]
      /\ \A k \in Fences : leases'[m][k].status # "none" =>
           leases[m][k].status # "none" /\ leases'[m][k].holder = leases[m][k].holder
  <2> DEFINE q == [leases[m][f] EXCEPT !.status = "released"]
  <2>1. leases' = [leases EXCEPT ![m] = [leases[m] EXCEPT ![f] = q]]
    BY <1>1, Parts
  <2>2. q \in Row /\ q.holder = leases[m][f].holder
    <3>1. leases[m][f] \in Row
      BY Parts
    <3> QED
      BY <3>1 DEF Row
  <2> HIDE DEF q
  <2>3. leases' \in [Managers -> [Fences -> Row]]
    BY <2>1, <2>2, Parts
  <2>4. /\ leases'[m][f] = q
        /\ \A n \in Managers, k \in Fences : n # m \/ k # f => leases'[n][k] = leases[n][k]
        /\ \A n \in Managers : n # m => leases'[n] = leases[n]
    BY <2>1, Parts
  <2> QED
    BY <1>1, <2>2, <2>3, <2>4
<1>5. TypeOK'
  <2>1. durable' \in [owner : Holders \cup {NoOne}, fence : 0..MaxFence, left : Times]
    BY <1>0, <1>1, Parts
  <2>2. NoGrant \in [fence : 0..MaxFence, left : 0..TTL]
    BY MissionAssumption DEF NoGrant
  <2>3. grant' \in [Holders -> [fence : 0..MaxFence, left : 0..TTL]]
    <3>1. grant \in [Holders -> [fence : 0..MaxFence, left : 0..TTL]]
      BY Parts
    <3>2. CASE grant' = grant
      BY <3>1, <3>2
    <3>3. CASE grant' = [grant EXCEPT ![h] = IF grant[h].fence = f THEN NoGrant ELSE grant[h]]
      BY <2>2, <3>1, <3>3
    <3> QED
      BY <1>1, <3>2, <3>3
  <2>4. failures' \in 0..MaxFailures
    BY <1>1, Parts, MissionAssumption
  <2>5. /\ slot' \in [Managers -> SlotType] /\ contenders' \in [Managers -> SUBSET Holders]
        /\ spoiled' \subseteq Fences
    BY <1>1, Parts
  <2> QED
    BY <1>4, <2>1, <2>3, <2>4, <2>5 DEF TypeOK, Row, SlotType
<1>6. Follows(durable', durable, spoiled') /\ spoiled \subseteq spoiled'
  BY <1>0, <1>1, <1>3, Parts DEF Follows
<1>7. Fits(leases'[m], durable', spoiled')
  <2>1. durable.fence \in Int /\ durable'.fence \in Int
    BY <1>0, <1>1, Parts
  <2>2. Fits(leases[m], durable', spoiled')
    BY <1>2, <1>6, <2>1, FitsWhatFollows
  <2> QED
    BY <1>4, <2>2, FitsFewer
<1>8. durable' = durable \/ (durable'.fence >= durable.fence /\ durable'.left = Released)
  BY <1>0, <1>1, Parts
<1> QED
  BY <1>4, <1>5, <1>6, <1>7, <1>8, WritePreserves

LEMMA TickPreserves ==
  ASSUME GenerationInv, Tick
  PROVE  /\ GenerationInv' /\ durable'.fence = durable.fence
         /\ durable.left = Released => durable' = durable
<1> USE MissionAssumption
<1>1. ASSUME NEW left \in Times
      PROVE  Older(left) \in Times /\ (left = Released => Older(left) = left)
  BY DEF Older, Times, Released
<1>2. /\ durable' \in [owner : Holders \cup {NoOne}, fence : 0..MaxFence, left : Times]
      /\ durable'.fence = durable.fence /\ durable'.owner = durable.owner
      /\ durable.left = Released => durable' = durable
  BY <1>1, Parts DEF Tick
<1>3. ASSUME NEW r \in Row
      PROVE  LET q == [r EXCEPT !.left = Older(@)]
             IN  q \in Row /\ q.status = r.status /\ q.holder = r.holder
  BY <1>1, <1>3 DEF Row
<1>4. leases' = [n \in Managers |-> [k \in Fences |-> [leases[n][k] EXCEPT !.left = Older(@)]]]
  BY DEF Tick
<1>5. \A n \in Managers, k \in Fences :
        /\ leases'[n][k] \in Row
        /\ leases'[n][k].status = leases[n][k].status
        /\ leases'[n][k].holder = leases[n][k].holder
  <2> TAKE n \in Managers, k \in Fences
  <2>1. leases[n][k] \in Row
    BY Parts
  <2>2. leases'[n][k] = [leases[n][k] EXCEPT !.left = Older(@)]
    BY <1>4
  <2> QED
    BY <1>3, <2>1, <2>2
<1>6. grant' \in [Holders -> [fence : 0..MaxFence, left : 0..TTL]]
  <2>1. ASSUME NEW g \in [fence : 0..MaxFence, left : 0..TTL], g.left > 1
        PROVE  [g EXCEPT !.left = @ - 1] \in [fence : 0..MaxFence, left : 0..TTL]
    BY <2>1
  <2>2. NoGrant \in [fence : 0..MaxFence, left : 0..TTL]
    BY DEF NoGrant
  <2>3. grant' = [h \in Holders |-> IF grant[h].left <= 1 THEN NoGrant
                                   ELSE [grant[h] EXCEPT !.left = @ - 1]]
    BY DEF Tick
  <2>4. ASSUME NEW h \in Holders
        PROVE  (IF grant[h].left <= 1 THEN NoGrant ELSE [grant[h] EXCEPT !.left = @ - 1])
                 \in [fence : 0..MaxFence, left : 0..TTL]
    <3>1. grant[h] \in [fence : 0..MaxFence, left : 0..TTL] /\ grant[h].left \in Int
      BY Parts
    <3>2. CASE grant[h].left <= 1
      BY <2>2, <3>2
    <3>3. CASE ~(grant[h].left <= 1)
      <4>1. grant[h].left > 1
        BY <3>1, <3>3
      <4>2. [grant[h] EXCEPT !.left = @ - 1] \in [fence : 0..MaxFence, left : 0..TTL]
        BY <2>1, <3>1, <4>1
      <4> QED
        BY <3>3, <4>2
    <3> QED
      BY <3>2, <3>3
  <2> QED
    BY <2>3, <2>4
<1>7. leases' \in [Managers -> [Fences -> Row]]
  BY <1>4, <1>5
<1>8. slot' = slot /\ contenders' = contenders /\ spoiled' = spoiled /\ failures' = failures
  BY DEF Tick
<1>9. TypeOK'
  BY <1>2, <1>6, <1>7, <1>8, Parts DEF TypeOK, Row, SlotType
<1>10. ASSUME NEW m \in Managers PROVE Fits(leases'[m], durable', spoiled')
  <2>1. Fits(leases[m], durable, spoiled)
    BY Parts
  <2> QED
    BY <1>2, <1>5, <1>8, <2>1 DEF Fits
<1> QED
  BY <1>2, <1>9, <1>10 DEF GenerationInv

\* No step takes the record back.
LEMMA GenerationStep ==
  ASSUME GenerationInv, [Next]_vars, StaleRelease = FALSE
  PROVE  /\ GenerationInv'
         /\ durable'.fence >= durable.fence
         /\ durable.left = Released =>
              durable'.left = Released \/ durable'.fence > durable.fence
<1>1. CASE UNCHANGED vars
  <2>1. TypeOK' /\ \A m \in Managers : Fits(leases'[m], durable', spoiled')
    BY <1>1 DEF vars, GenerationInv, TypeOK, Fits
  <2> QED
    BY <1>1, <2>1, Parts DEF vars, GenerationInv
<1>2. ASSUME NEW m \in Managers, NEW h \in Holders, NEW lag \in Lags,
             AcquireSuspended(m, h, lag)
      PROVE  GenerationInv' /\ durable' = durable
  <2>1. /\ Refresh(m, lag) /\ UNCHANGED <<durable, grant, spoiled, failures>>
        /\ contenders' \in [Managers -> SUBSET Holders]
    BY <1>2, Parts DEF AcquireSuspended
  <2> QED
    BY <2>1, RefreshPreserves, Parts
<1>3. ASSUME NEW m \in Managers, NEW h \in Holders, NEW lag \in Lags,
             AcquireAgain(m, h, lag)
      PROVE  GenerationInv' /\ durable' = durable
  <2>1. /\ Refresh(m, lag) /\ UNCHANGED <<durable, contenders, spoiled, failures>>
        /\ grant' \in [Holders -> [fence : 0..MaxFence, left : 0..TTL]]
    BY <1>3, Parts, LiveLeaseIsTyped, ToldIsGrant DEF AcquireAgain
  <2> QED
    BY <2>1, RefreshPreserves, Parts
<1>4. ASSUME NEW m \in Managers, NEW lag \in Lags, Read(m, lag)
      PROVE  GenerationInv' /\ durable' = durable
  <2>1. Refresh(m, lag) /\ UNCHANGED <<durable, contenders, grant, spoiled, failures>>
    BY <1>4 DEF Read
  <2> QED
    BY <2>1, RefreshPreserves, Parts
<1>5. ASSUME NEW m \in Managers, NEW h \in Holders, NEW lag \in Lags,
             SuspendFollowers(m, {h}, lag)
      PROVE  GenerationInv' /\ durable' = durable
  <2>1. /\ Refresh(m, lag) /\ UNCHANGED <<durable, grant, spoiled, failures>>
        /\ contenders' \in [Managers -> SUBSET Holders]
    BY <1>5, Parts DEF SuspendFollowers
  <2> QED
    BY <2>1, RefreshPreserves, Parts
<1>6. /\ durable.fence \in Int
      /\ GenerationInv' => durable'.fence \in Int
  BY MissionAssumption, Parts DEF GenerationInv, TypeOK
<1>7. ASSUME NEW m \in Managers, NEW h \in Holders, NEW lag \in Lags,
             AcquireTakeover(m, h, lag)
      PROVE  /\ GenerationInv' /\ durable'.fence >= durable.fence
             /\ durable' = durable \/ durable'.fence > durable.fence
  BY <1>6, <1>7, TakeoverPreserves
<1>8. ASSUME NEW m \in Managers, NEW h \in Holders, NEW lag \in Lags, NEW f \in Fences,
             Renew(m, f, h, lag)
      PROVE  /\ GenerationInv' /\ durable'.fence >= durable.fence
             /\ durable.left = Released => durable' = durable \/ durable'.fence > durable.fence
  BY <1>6, <1>8, RenewPreserves
<1>9. ASSUME NEW m \in Managers, NEW h \in Holders, NEW f \in Fences, Release(m, f, h)
      PROVE  /\ GenerationInv' /\ durable'.fence >= durable.fence
             /\ durable' = durable \/ durable'.left = Released
  <2>1. /\ GenerationInv'
        /\ durable' = durable \/ (durable'.fence >= durable.fence /\ durable'.left = Released)
    BY <1>9, ReleasePreserves, Zenon
  <2> QED
    BY <1>6, <2>1
<1>10. ASSUME Tick
       PROVE  /\ GenerationInv' /\ durable'.fence >= durable.fence
              /\ durable.left = Released => durable' = durable
  BY <1>6, <1>10, TickPreserves
<1>11. durable' = durable => durable'.fence >= durable.fence
  BY <1>6
<1> QED
  BY <1>1, <1>2, <1>3, <1>4, <1>5, <1>7, <1>8, <1>9, <1>10, <1>11, Zenon DEF Next

\* The durable generation never goes back and a released generation is never
\* live again, through acquireLease, renewLease and releaseLease of any number
\* of managers and through writes that throw, when a release ends no other
\* lease's record.
THEOREM GenerationsOnlyAdvance ==
  StaleRelease = FALSE /\ Spec => FenceNeverRegresses /\ DeadGenerationStaysDead
<1> SUFFICES ASSUME StaleRelease = FALSE
             PROVE  Spec => FenceNeverRegresses /\ DeadGenerationStaysDead
  OBVIOUS
<1>1. Init => GenerationInv
  BY GenerationInit
<1>2. GenerationInv /\ [Next]_vars =>
        /\ GenerationInv'
        /\ [durable'.fence >= durable.fence]_vars
        /\ [durable.left = Released =>
              durable'.left = Released \/ durable'.fence > durable.fence]_vars
  BY GenerationStep
<1> QED
  BY <1>1, <1>2, PTL DEF Spec, FenceNeverRegresses, DeadGenerationStaysDead
-----------------------------------------------------------------------------
\* Telling a holder what the record now says keeps the grants current, if nobody
\* else has a live grant of a generation that is not spoiled.
LEMMA OwnerIsTold ==
  ASSUME GenerationInv, NEW h \in Holders, NEW left \in Times, NEW f \in Fences,
         durable' = [owner |-> h, fence |-> f, left |-> left],
         grant' = [grant EXCEPT ![h] = Told(f, left)], spoiled' = spoiled,
         \A g \in Holders : grant[g].left > 0 /\ grant[g].fence \notin spoiled => g = h
  PROVE  GrantsAreCurrent'
<1>1. ASSUME NEW g \in Holders, grant'[g].left > 0, grant'[g].fence \notin spoiled
      PROVE  g = h /\ grant'[g].fence = f /\ grant'[g].left <= left
  <2>1. CASE g = h
    <3>1. grant'[g] = Told(f, left)
      BY Parts, <2>1
    <3>2. left \in Int
      BY MissionAssumption DEF Times, Released
    <3> QED
      BY <1>1, <2>1, <3>1, <3>2 DEF Told, NoGrant
  <2>2. CASE g # h
    <3>1. grant'[g] = grant[g]
      BY Parts, <2>2
    <3> QED
      BY <1>1, <2>2, <3>1
  <2> QED
    BY <2>1, <2>2
<1> QED
  BY <1>1 DEF GrantsAreCurrent

\* While the record is not live, no grant but of a spoiled generation is.
LEMMA LapsedForEverybody ==
  ASSUME GenerationInv, GrantsAreCurrent, NEW lag \in Lags, ~DurableLive(lag)
  PROVE  \A g \in Holders : ~(grant[g].left > 0 /\ grant[g].fence \notin spoiled)
<1>1. lag \in Int /\ lag >= 0
  BY MissionAssumption DEF Lags
<1> QED
  BY <1>1, Parts DEF GrantsAreCurrent, DurableLive, IsLive

\* Every step keeps the grants current.
LEMMA GrantsStep ==
  ASSUME GenerationInv, GrantsAreCurrent, [Next]_vars, StaleRelease = FALSE
  PROVE  GrantsAreCurrent'
<1> USE MissionAssumption
<1>0. \A lag \in Lags : Deadline(lag) \in Times /\ lag \in Int /\ lag >= 0
  BY DEF Times, Released, Deadline, Lags
<1>1. CASE durable' = durable /\ grant' = grant /\ spoiled \subseteq spoiled'
  BY <1>1 DEF GrantsAreCurrent
<1>2. ASSUME NEW m \in Managers, NEW h \in Holders, NEW lag \in Lags,
             AcquireSuspended(m, h, lag) \/ SuspendFollowers(m, {h}, lag)
      PROVE  durable' = durable /\ grant' = grant /\ spoiled \subseteq spoiled'
  BY <1>2 DEF AcquireSuspended, SuspendFollowers
<1>3. ASSUME NEW m \in Managers, NEW h \in Holders, NEW lag \in Lags,
             AcquireAgain(m, h, lag)
      PROVE  GrantsAreCurrent'
  <2> DEFINE l == LiveLease(m, lag)
  <2>1. /\ durable' = durable /\ spoiled' = spoiled /\ l.owner = h
        /\ grant' = [grant EXCEPT ![h] = Told(l.fence, l.left)]
        /\ l.fence \in 0..MaxFence /\ l.left \in Times
        /\ ~DurableLive(lag) => l.fence \in spoiled
        /\ DurableLive(lag) => l = durable
    BY <1>3, LiveLeaseIsTyped DEF AcquireAgain, LiveLease
  <2> HIDE DEF l
  <2>2. ASSUME NEW g \in Holders, grant'[g].left > 0, grant'[g].fence \notin spoiled
        PROVE  /\ durable.owner = g /\ grant'[g].fence = durable.fence
               /\ grant'[g].left <= durable.left
    <3>1. CASE g = h
      <4>1. grant'[g] = Told(l.fence, l.left)
        BY Parts, <2>1, <3>1
      <4>2. grant'[g].fence = l.fence /\ grant'[g].left = l.left
        BY <2>2, <4>1 DEF Told, NoGrant
      <4>3. l = durable
        BY <2>1, <2>2, <4>2
      <4> QED
        BY Parts, <2>1, <3>1, <4>2, <4>3
    <3>2. CASE g # h
      <4>1. grant'[g] = grant[g]
        BY Parts, <2>1, <3>2
      <4> QED
        BY <2>2, <4>1 DEF GrantsAreCurrent
    <3> QED
      BY <3>1, <3>2
  <2> QED
    BY <2>1, <2>2 DEF GrantsAreCurrent
<1>4. ASSUME NEW m \in Managers, NEW h \in Holders, NEW lag \in Lags,
             AcquireTakeover(m, h, lag)
      PROVE  GrantsAreCurrent'
  <2>1. \A g \in Holders : ~(grant[g].left > 0 /\ grant[g].fence \notin spoiled)
    BY <1>4, LapsedForEverybody DEF AcquireTakeover, Live
  <2>2. NextFence(m) \in Fences
    BY <1>4 DEF AcquireTakeover
  <2>3. \/ /\ durable' = [owner |-> h, fence |-> NextFence(m), left |-> Deadline(lag)]
           /\ grant' = [grant EXCEPT ![h] = Told(NextFence(m), Deadline(lag))]
           /\ spoiled' = spoiled
        \/ durable' = durable /\ grant' = grant /\ spoiled \subseteq spoiled'
    BY <1>4 DEF AcquireTakeover, Persisted, NotPersisted
  <2> QED
    BY <1>0, <1>1, <2>1, <2>2, <2>3, OwnerIsTold
<1>5. ASSUME NEW m \in Managers, NEW h \in Holders, NEW lag \in Lags, NEW f \in Fences,
             Renew(m, f, h, lag)
      PROVE  GrantsAreCurrent'
  <2>1. \/ durable' = durable /\ grant' = grant /\ spoiled \subseteq spoiled'
        \/ /\ Renewable(m, f, h, lag) /\ spoiled' = spoiled
           /\ durable' = [owner |-> h, fence |-> f, left |-> Deadline(lag)]
           /\ grant' = [grant EXCEPT ![h] = Told(f, Deadline(lag))]
    BY <1>5 DEF Renew, Persisted, NotPersisted
  <2>2. CASE /\ Renewable(m, f, h, lag) /\ spoiled' = spoiled
             /\ durable' = [owner |-> h, fence |-> f, left |-> Deadline(lag)]
             /\ grant' = [grant EXCEPT ![h] = Told(f, Deadline(lag))]
    <3>1. \A g \in Holders : grant[g].left > 0 /\ grant[g].fence \notin spoiled => g = h
      <4>1. CASE DurableLive(lag)
        <5>1. f = durable.fence /\ (h = durable.owner \/ f \in spoiled)
          BY <2>2, <4>1, RenewalIsCurrent
        <5> QED
          BY <5>1 DEF GrantsAreCurrent
      <4>2. CASE ~DurableLive(lag)
        BY <4>2, LapsedForEverybody
      <4> QED
        BY <4>1, <4>2
    <3> QED
      BY <1>0, <2>2, <3>1, OwnerIsTold
  <2> QED
    BY <1>1, <2>1, <2>2
<1>6. ASSUME NEW m \in Managers, NEW h \in Holders, NEW f \in Fences, Release(m, f, h)
      PROVE  GrantsAreCurrent'
  <2>1. /\ durable.fence = f \/ (durable.fence < f /\ ~DurableLive(Skew))
        /\ leases[m][f].status # "none" /\ leases[m][f].holder = h
        /\ spoiled' = spoiled
        /\ \/ durable' = durable /\ grant' = grant
           \/ grant' = [grant EXCEPT ![h] = IF grant[h].fence = f THEN NoGrant ELSE grant[h]]
    BY <1>6 DEF Release, EndsItsOwn, Releasable, Persisted, NotPersisted
  <2>2. CASE grant' = [grant EXCEPT ![h] = IF grant[h].fence = f THEN NoGrant ELSE grant[h]]
    <3>1. ASSUME NEW g \in Holders, grant'[g].left > 0, grant'[g].fence \notin spoiled
          PROVE  FALSE
      <4>1. /\ grant'[g] = grant[g]
            /\ g = h => grant[g].fence # f
        <5>1. CASE g = h
          <6>1. grant'[g] = IF grant[h].fence = f THEN NoGrant ELSE grant[h]
            BY Parts, <2>2, <5>1
          <6> QED
            BY <3>1, <5>1, <6>1 DEF NoGrant
        <5>2. CASE g # h
          BY Parts, <2>2, <5>2
        <5> QED
          BY <5>1, <5>2
      <4>2. grant[g].left > 0 /\ grant[g].fence \notin spoiled
        BY <3>1, <4>1
      <4>3. Skew \in Lags
        BY DEF Lags
      <4>4. durable.fence = f
        BY <2>1, <4>2, <4>3, LapsedForEverybody
      <4>5. durable.owner = g /\ grant[g].fence = f
        BY <4>2, <4>4 DEF GrantsAreCurrent
      <4>6. Fits(leases[m], durable, spoiled)
        BY Parts
      <4>7. h = durable.owner
        BY <2>1, <4>2, <4>4, <4>5, <4>6 DEF Fits
      <4> QED
        BY <4>1, <4>5, <4>7
    <3> QED
      BY <2>1, <3>1 DEF GrantsAreCurrent
  <2> QED
    BY <1>1, <2>1, <2>2
<1>7. ASSUME Tick PROVE GrantsAreCurrent'
  <2>1. /\ durable'.owner = durable.owner /\ durable'.fence = durable.fence
        /\ durable'.left = Older(durable.left) /\ spoiled' = spoiled
    BY Parts, <1>7 DEF Tick
  <2>2. ASSUME NEW h \in Holders, grant'[h].left > 0
        PROVE  /\ grant[h].left > 1 /\ grant'[h].fence = grant[h].fence
               /\ grant'[h].left = grant[h].left - 1
    <3>1. grant'[h] = IF grant[h].left <= 1 THEN NoGrant
                      ELSE [grant[h] EXCEPT !.left = @ - 1]
      BY <1>7 DEF Tick
    <3>2. grant[h] \in [fence : 0..MaxFence, left : 0..TTL] /\ grant[h].left \in Int
      BY Parts
    <3> QED
      BY <2>2, <3>1, <3>2 DEF NoGrant
  <2>3. ASSUME NEW h \in Holders, grant'[h].left > 0, grant'[h].fence \notin spoiled
        PROVE  durable'.owner = h /\ grant'[h].fence = durable'.fence
               /\ grant'[h].left <= durable'.left
    <3>1. /\ grant[h].left > 1 /\ grant'[h].fence = grant[h].fence
          /\ grant'[h].left = grant[h].left - 1 /\ grant[h].left \in Int
      BY <2>2, <2>3, Parts
    <3>2. durable.owner = h /\ grant[h].fence = durable.fence /\ grant[h].left <= durable.left
      BY <2>3, <3>1 DEF GrantsAreCurrent
    <3> QED
      BY Parts, <2>1, <3>1, <3>2 DEF Older
  <2> QED
    BY <2>1, <2>3 DEF GrantsAreCurrent
<1>8. ASSUME NEW m \in Managers, NEW lag \in Lags, Read(m, lag)
      PROVE  durable' = durable /\ grant' = grant /\ spoiled \subseteq spoiled'
  BY <1>8 DEF Read
<1>9. CASE UNCHANGED vars
  BY <1>1, <1>9 DEF vars
<1> QED
  BY <1>1, <1>2, <1>3, <1>4, <1>5, <1>6, <1>7, <1>8, <1>9 DEF Next

\* Only its own takeover takes a parked follower off the list, and it wins the
\* record unless the write throws.
LEMMA FollowersStep ==
  ASSUME GenerationInv, [Next]_vars
  PROVE  \A m \in Managers : \A h \in contenders[m] \ contenders'[m] :
           LET f == slot'[m].cur IN
             /\ f > slot[m].fence /\ leases'[m][f].holder = h
             /\ (durable'.owner = h /\ durable'.fence = f) \/ f \in spoiled'
<1>0. contenders \in [Managers -> SUBSET Holders]
  BY Parts
<1>1. ASSUME NEW m \in Managers, NEW h \in Holders, NEW lag \in Lags,
             AcquireTakeover(m, h, lag)
      PROVE  /\ contenders' = [contenders EXCEPT ![m] = @ \ {h}]
             /\ slot'[m].cur > slot[m].fence /\ leases'[m][slot'[m].cur].holder = h
             /\ \/ durable'.owner = h /\ durable'.fence = slot'[m].cur
                \/ slot'[m].cur \in spoiled'
  <2> DEFINE f == NextFence(m)
  <2> DEFINE row == [holder |-> h, status |-> "active", left |-> Deadline(lag)]
  <2>1. /\ f \in Fences
        /\ leases' = [leases EXCEPT ![m] = [Rows(m, lag) EXCEPT ![f] = row]]
        /\ slot' = [slot EXCEPT ![m] = [known |-> TRUE, fence |-> f, cur |-> f]]
        /\ contenders' = [contenders EXCEPT ![m] = @ \ {h}]
        /\ \/ durable' = [owner |-> h, fence |-> f, left |-> Deadline(lag)]
           \/ spoiled' = spoiled \cup {f}
    BY <1>1 DEF AcquireTakeover, Persisted, NotPersisted
  <2>2. f > slot[m].fence
    BY Parts DEF NextFence, Larger
  <2> HIDE DEF f
  <2>3. slot'[m].cur = f
    BY <2>1, Parts
  <2>4. leases'[m][f].holder = h
    BY <2>1, Parts, RefreshKeeps
  <2> QED
    BY <2>1, <2>2, <2>3, <2>4
<1>2. ASSUME NEW m \in Managers, NEW h \in Holders, NEW lag \in Lags,
             AcquireSuspended(m, h, lag)
      PROVE  contenders' = [contenders EXCEPT ![m] = @ \cup {h}]
  BY <1>2 DEF AcquireSuspended
<1>3. ASSUME NEW m \in Managers, NEW h \in Holders, NEW lag \in Lags,
             SuspendFollowers(m, {h}, lag)
      PROVE  \A k \in Managers : contenders[k] \subseteq contenders'[k]
  BY <1>0, <1>3 DEF SuspendFollowers
<1>4. CASE \E m \in Managers, h \in Holders, lag \in Lags : AcquireSuspended(m, h, lag)
  <2>1. \A k \in Managers : contenders[k] \subseteq contenders'[k]
    BY <1>0, <1>2, <1>4
  <2> QED
    BY <2>1
<1>5. ASSUME NEW m \in Managers, NEW lag \in Lags, Read(m, lag) PROVE contenders' = contenders
  BY <1>5 DEF Read
<1>6. CASE Tick \/ UNCHANGED vars
  BY <1>6 DEF Tick, vars
<1>7. CASE \E m \in Managers, h \in Holders, lag \in Lags : AcquireAgain(m, h, lag)
  BY <1>7 DEF AcquireAgain
<1>8. CASE \E m \in Managers, h \in Holders, lag \in Lags : AcquireTakeover(m, h, lag)
  <2>1. PICK m \in Managers, h \in Holders, lag \in Lags : AcquireTakeover(m, h, lag)
    BY <1>8
  <2>2. /\ contenders' = [contenders EXCEPT ![m] = @ \ {h}]
        /\ slot'[m].cur > slot[m].fence /\ leases'[m][slot'[m].cur].holder = h
        /\ \/ durable'.owner = h /\ durable'.fence = slot'[m].cur
           \/ slot'[m].cur \in spoiled'
    BY <1>1, <2>1
  <2>3. ASSUME NEW n \in Managers, NEW g \in contenders[n] \ contenders'[n]
        PROVE  n = m /\ g = h
    BY <1>0, <2>2, <2>3
  <2> QED
    BY <2>2, <2>3
<1>9. CASE \E m \in Managers, h \in Holders, f \in Fences : Release(m, f, h)
  <2>1. PICK m \in Managers, h \in Holders, f \in Fences : Release(m, f, h)
    BY <1>9
  <2>2. contenders' = contenders
    BY <2>1 DEF Release
  <2> QED
    BY <2>2
<1>10. CASE \E m \in Managers, lag \in Lags, h \in Holders : SuspendFollowers(m, {h}, lag)
  BY <1>3, <1>10
<1>11. CASE \E m \in Managers, h \in Holders, lag \in Lags, f \in Fences : Renew(m, f, h, lag)
  <2>1. PICK m \in Managers, h \in Holders, lag \in Lags, f \in Fences : Renew(m, f, h, lag)
    BY <1>11
  <2>2. contenders' = contenders
    BY <2>1 DEF Renew
  <2> QED
    BY <2>2
<1> QED
  BY <1>4, <1>5, <1>6, <1>7, <1>8, <1>9, <1>10, <1>11 DEF Next

\* acquireLease, renewLease, releaseLease: across managers, of the holders that
\* were told a lease that has not lapsed and was not given back, two are never
\* both of generations whose record was written.
THEOREM AtMostOneLiveHolder ==
  StaleRelease = FALSE /\ Spec => []OneLiveHolder
<1> SUFFICES ASSUME StaleRelease = FALSE PROVE Spec => []OneLiveHolder
  OBVIOUS
<1>1. Init => GenerationInv /\ GrantsAreCurrent
  BY GenerationInit DEF Init, GrantsAreCurrent, NoGrant
<1>2. (GenerationInv /\ GrantsAreCurrent) /\ [Next]_vars
        => (GenerationInv /\ GrantsAreCurrent)'
  BY GenerationStep, GrantsStep
<1>3. GenerationInv /\ GrantsAreCurrent => OneLiveHolder
  BY DEF GrantsAreCurrent, OneLiveHolder
<1> QED
  BY <1>1, <1>2, <1>3, PTL DEF Spec

\* acquireLease, suspendFollowers: a parked follower is only forgotten by its
\* own takeover, which wins the record unless the write throws.
THEOREM FollowersAreKept ==
  StaleRelease = FALSE /\ Spec => FollowerKeptUntilItsTakeover
<1> SUFFICES ASSUME StaleRelease = FALSE PROVE Spec => FollowerKeptUntilItsTakeover
  OBVIOUS
<1>1. GenerationInv /\ [Next]_vars => GenerationInv'
  BY GenerationStep
<1>2. GenerationInv /\ [Next]_vars =>
        [\A m \in Managers : \A h \in contenders[m] \ contenders'[m] :
           LET f == slot'[m].cur IN
             /\ f > slot[m].fence /\ leases'[m][f].holder = h
             /\ (durable'.owner = h /\ durable'.fence = f) \/ f \in spoiled']_vars
  BY FollowersStep
<1> QED
  BY GenerationInit, <1>1, <1>2, PTL DEF Spec, FollowerKeptUntilItsTakeover
=============================================================================
