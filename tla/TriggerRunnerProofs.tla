------------------------- MODULE TriggerRunnerProofs -------------------------
(***************************************************************************)
(* TLAPS proofs about TriggerRunner, for any processes, keys, windows,     *)
(* leases, thresholds and bounds: no record is lost, deliveries of a key   *)
(* do not overlap, and an effect is not repeated inside the window, but    *)
(* for the causes the history names.                                       *)
(*                                                                         *)
(* The argument follows the latest record of a key through the rewrites:   *)
(* a run under way owns it, or has been outlived (ClaimsStand); a success  *)
(* of the window is about to be recorded or is it (SuccessesAreKnown).  A  *)
(* rewrite keeps the latest record of a key, drops the key altogether for  *)
(* a reason, and keeps the order (Carried); a record that young is inside  *)
(* the backward scan (LatestIsFound), so it answers the next request.      *)
(***************************************************************************)
EXTENDS TriggerRunner, FiniteSetTheorems, TLAPS

\* r is the last record of key k in J; J has none of key k.
HasLatest(J, k, r) ==
  \E i \in DOMAIN J :
    J[i] = r /\ J[i].key = k /\ \A j \in DOMAIN J : J[j].key = k => j <= i
NoneOf(J, k) == \A i \in DOMAIN J : J[i].key # k

\* Records are appended under the lock, so their times go up.
Ordered(J) ==
  /\ J \in Seq(Receipts)
  /\ \A i \in DOMAIN J :
       J[i].id \in 1..appended /\ J[i].at \in 0..now /\ J[i].expires \in 0..(now + MaxLease)
  /\ \A i, j \in DOMAIN J : i <= j => J[i].at <= J[j].at

\* What a rewrite carries over: the latest record of a key stays, or the key is
\* gone, and then a claim was abandoned and a terminal receipt is outside the
\* window or excused.
Carried(L, excuses) ==
  /\ Ordered(L)
  /\ \A k \in Keys : NoneOf(journal, k) => NoneOf(L, k)
  /\ \A k \in Keys, r \in Receipts : HasLatest(journal, k, r) =>
       \/ HasLatest(L, k, r)
       \/ /\ NoneOf(L, k)
          /\ InFlight(r) => IsAbandoned(r)
          /\ Terminal(r) => r.at < now - Window \/ <<k, "shed">> \in excuses

\* The claim of the run under way in p still keeps its key: it is the key's
\* latest record, or it ended a whole window ago and is gone.
Busy(p) == call[p].pc # "idle"
Outlasted(k) == <<k, "outlived">> \in excused
IsClaimOf(p, r) ==
  InFlight(r) /\ r.owner = p /\ r.at = call[p].since /\ r.expires = call[p].expires
ClaimStands(p, J) ==
  \/ Outlasted(call[p].key)
  \/ \E r \in Receipts : IsClaimOf(p, r) /\ HasLatest(J, call[p].key, r)
  \/ call[p].expires + Window < now /\ NoneOf(J, call[p].key)

\* The last success of k is no reason not to deliver it again; it is about to
\* be recorded; its receipt is the latest record.
Fresh(k) == Excused(k) \/ lastOK[k] = None \/ lastOK[k] < now - Window
Settling(k) == \E p \in Pids : call[p].pc = "settle" /\ call[p].ok /\ call[p].key = k
Receipted(k, J) ==
  \E r \in Receipts : HasLatest(J, k, r) /\ Terminal(r) /\ r.at >= lastOK[k]

Types ==
  /\ now \in 0..MaxNow /\ appended \in 0..MaxRecords /\ trouble \in 0..MaxTrouble
  /\ Ordered(journal)
  /\ segments \subseteq 1..appended /\ alive \subseteq Pids
  /\ excused \subseteq Keys \X {"shed", "loose", "outlived"}
  /\ lastOK \in [Keys -> Nat \cup {None}]
  /\ \A k \in Keys : lastOK[k] # None => lastOK[k] <= now
CallRecords == [pc : {"idle", "deliver", "settle"}, key : Keys \cup {None},
                since : Nat, expires : Nat, ok : BOOLEAN]
CallTypes ==
  /\ call \in [Pids -> CallRecords]
  /\ \A p \in Pids : Busy(p) =>
       /\ p \in alive /\ call[p].key \in Keys
       /\ call[p].since <= now /\ call[p].expires <= call[p].since + MaxLease
  /\ \A p \in Pids : ~Busy(p) => ~call[p].ok
ClaimsStand == \A p \in Pids : Busy(p) => ClaimStands(p, journal)
DeliveriesAreFresh == \A p \in Pids : call[p].pc = "deliver" => Fresh(call[p].key)
SuccessesAreKnown == \A k \in Keys : Fresh(k) \/ Settling(k) \/ Receipted(k, journal)

RunnerInv ==
  /\ Types /\ CallTypes /\ NothingLost
  /\ ClaimsStand /\ NoOverlap
  /\ DeliveriesAreFresh /\ SuccessesAreKnown
-----------------------------------------------------------------------------
\* A nonempty set of places has a last one: what Max picks is in it and bounds it.
LEMMA MaxOfPlaces ==
  ASSUME NEW n \in Nat, NEW S \in SUBSET (1..n), S # {}
  PROVE  Max(S) \in S /\ \A x \in S : x <= Max(S)
<1> DEFINE T == {n - x : x \in S}
<1>1. T \subseteq Nat /\ T # {}
  OBVIOUS
<1>2. PICK t \in T : \A u \in T : ~(<<u, t>> \in OpToRel(<, Nat))
  <2> HIDE DEF T
  <2> QED BY <1>1, NatLessThanWellFounded, WFMin, Zenon
<1>3. PICK m \in S : t = n - m
  OBVIOUS
<1>4. ASSUME NEW x \in S PROVE x <= m
  <2>1. n - x \in T /\ n - x \in Nat /\ t \in Nat
    BY <1>1
  <2>2. ~(n - x < t)
    BY <1>2, <2>1 DEF OpToRel
  <2> QED BY <2>2, <1>3
<1>5. \E x \in S : \A y \in S : x >= y
  BY <1>4
<1> QED BY <1>5 DEF Max

\* Places among the records that stay count up without a gap.
LEMMA PlacesEnumerate ==
  ASSUME NEW n \in Nat, NEW keep \in SUBSET (1..n)
  PROVE  /\ IsFiniteSet(keep) /\ Cardinality(keep) \in Nat
         /\ \A j \in keep : Place(keep, j) \in 1..Cardinality(keep)
         /\ \A j, k \in keep : j < k => Place(keep, j) < Place(keep, k)
         /\ \A i \in 1..Cardinality(keep) : \E j \in keep : Place(keep, j) = i
<1> DEFINE Upto(j) == {k \in keep : k <= j}
           f == [j \in keep |-> Place(keep, j)]
<1>1. IsFiniteSet(keep) /\ Cardinality(keep) \in Nat
  <2>1. IsFiniteSet(1..n)
    BY FS_Interval
  <2>2. IsFiniteSet(keep)
    BY <2>1, FS_Subset, Zenon
  <2> QED BY <2>2, FS_CardinalityType
<1>2. ASSUME NEW j \in keep
      PROVE  IsFiniteSet(Upto(j)) /\ Cardinality(Upto(j)) \in 1..Cardinality(keep)
  <2>1. Upto(j) \in SUBSET keep /\ j \in Upto(j)
    OBVIOUS
  <2> HIDE DEF Upto
  <2>2. IsFiniteSet(Upto(j)) /\ Cardinality(Upto(j)) <= Cardinality(keep)
    BY <1>1, <2>1, FS_Subset, Zenon
  <2>3. Cardinality(Upto(j)) \in Nat /\ Cardinality(Upto(j)) # 0
    BY <2>1, <2>2, FS_CardinalityType, FS_EmptySet
  <2> QED BY <1>1, <2>2, <2>3
<1>3. ASSUME NEW j \in keep, NEW k \in keep, j < k
      PROVE  Cardinality(Upto(j)) < Cardinality(Upto(k))
  <2>0. \A x \in keep : x \in Int
    OBVIOUS
  <2>1. Upto(j) \in SUBSET Upto(k) /\ k \in Upto(k) /\ k \notin Upto(j)
    <3>1. ~(k <= j) /\ k <= k
      BY <1>3, <2>0
    <3>2. \A x \in keep : x <= j => x <= k
      BY <1>3, <2>0
    <3> QED BY <3>1, <3>2
  <2> HIDE DEF Upto
  <2>2. Upto(j) # Upto(k)
    BY <2>1
  <2>3. /\ Cardinality(Upto(j)) <= Cardinality(Upto(k))
        /\ Cardinality(Upto(k)) # Cardinality(Upto(j))
    BY <1>2, <2>1, <2>2, FS_Subset
  <2> QED BY <1>1, <1>2, <2>3
<1>4. \A j \in keep : Place(keep, j) = Cardinality(Upto(j))
  BY DEF Place
<1> HIDE DEF Upto
<1>5. f \in Injection(keep, 1..Cardinality(keep))
  BY <1>1, <1>2, <1>3, <1>4 DEF Injection, IsInjective
<1>6. Cardinality(1..Cardinality(keep)) = Cardinality(keep) /\ IsFiniteSet(1..Cardinality(keep))
  BY <1>1, FS_Interval
<1> HIDE DEF f
<1>7. f \in Surjection(keep, 1..Cardinality(keep))
  BY <1>5, <1>6, FS_Injection
<1> USE DEF f
<1>8. \A i \in 1..Cardinality(keep) : \E j \in keep : Place(keep, j) = i
  BY <1>7 DEF Surjection
<1> QED BY <1>1, <1>2, <1>3, <1>4, <1>8

\* Live lists the kept records in their order, each once.
LEMMA LiveEnumerates ==
  ASSUME journal \in Seq(Receipts), NEW keep \in SUBSET DOMAIN journal
  PROVE  /\ Cardinality(keep) \in Nat
         /\ Live(keep) \in Seq(Receipts) /\ DOMAIN Live(keep) = 1..Cardinality(keep)
         /\ \E e \in [1..Cardinality(keep) -> keep] :
              /\ \A i \in 1..Cardinality(keep) : Live(keep)[i] = journal[e[i]]
              /\ \A i, j \in 1..Cardinality(keep) : i < j => e[i] < e[j]
              /\ \A j \in keep : \E i \in 1..Cardinality(keep) : e[i] = j
<1> DEFINE n == Cardinality(keep)
           e == [i \in 1..n |-> CHOOSE j \in keep : Place(keep, j) = i]
<1>1. Len(journal) \in Nat /\ DOMAIN journal = 1..Len(journal)
  OBVIOUS
<1>2. /\ n \in Nat
      /\ \A j \in keep : Place(keep, j) \in 1..n
      /\ \A j, k \in keep : j < k => Place(keep, j) < Place(keep, k)
      /\ \A i \in 1..n : \E j \in keep : Place(keep, j) = i
  BY <1>1, PlacesEnumerate
<1>3. Live(keep) = [i \in 1..n |-> journal[e[i]]]
  BY DEF Live
<1> HIDE DEF n
<1>4. \A i \in 1..n : e[i] \in keep /\ Place(keep, e[i]) = i
  BY <1>2
<1>5. e \in [1..n -> keep]
  BY <1>4
<1> HIDE DEF e
<1>6. \A i \in 1..n : journal[e[i]] \in Receipts
  BY <1>1, <1>4
<1>7. Live(keep) \in Seq(Receipts) /\ DOMAIN Live(keep) = 1..n
  BY <1>2, <1>3, <1>6
<1>8. ASSUME NEW i \in 1..n, NEW j \in 1..n, i < j PROVE e[i] < e[j]
  <2>1. e[i] \in Int /\ e[j] \in Int
    BY <1>1, <1>4
  <2>2. e[i] # e[j] /\ ~(e[j] < e[i])
    BY <1>2, <1>4, <1>8
  <2> QED BY <2>1, <2>2
<1>9. ASSUME NEW j \in keep PROVE \E i \in 1..n : e[i] = j
  <2>1. Place(keep, j) \in 1..n
    BY <1>2
  <2>2. PICK i \in 1..n : i = Place(keep, j)
    BY <2>1
  <2>3. e[i] \in keep /\ Place(keep, e[i]) = Place(keep, j)
    BY <1>4, <2>2
  <2>4. j \in Int /\ e[i] \in Int /\ Place(keep, j) \in Int
    BY <1>1, <2>1, <2>3
  <2>5. ~(j < e[i]) /\ ~(e[i] < j)
    BY <1>2, <2>3, <2>4
  <2> QED BY <2>4, <2>5
<1>10. \A i \in 1..n : Live(keep)[i] = journal[e[i]]
  BY <1>3
<1>11. /\ \A i \in 1..n : Live(keep)[i] = journal[e[i]]
       /\ \A i, j \in 1..n : i < j => e[i] < e[j]
       /\ \A j \in keep : \E i \in 1..n : e[i] = j
  BY <1>8, <1>9, <1>10
<1> QED BY <1>2, <1>5, <1>7, <1>11 DEF n

\* A rewrite that keeps the claims of the dedupe window carries the rest over.
LEMMA KeepCarries ==
  ASSUME now \in Nat, Ordered(journal), NEW keep \in SUBSET DedupeWindow,
         \A i \in DedupeWindow : InFlight(journal[i]) => i \in keep
  PROVE  Carried(Live(keep), Shed(keep))
<1> DEFINE L == Live(keep)
           n == Cardinality(keep)
<1>1. journal \in Seq(Receipts) /\ DOMAIN journal = 1..Len(journal) /\ Len(journal) \in Nat
  BY DEF Ordered
<1>2. keep \in SUBSET DOMAIN journal
  BY DEF DedupeWindow
<1>3. n \in Nat /\ L \in Seq(Receipts) /\ DOMAIN L = 1..n
  BY <1>1, <1>2, LiveEnumerates
<1>4. PICK e \in [1..n -> keep] :
        /\ \A i \in 1..n : L[i] = journal[e[i]]
        /\ \A i, j \in 1..n : i < j => e[i] < e[j]
        /\ \A j \in keep : \E i \in 1..n : e[i] = j
  BY <1>1, <1>2, LiveEnumerates
<1> HIDE DEF L, n
<1>5. \A i \in 1..n : e[i] \in keep /\ e[i] \in DOMAIN journal /\ e[i] \in Int
  BY <1>1, <1>2, <1>4
<1>6. Ordered(L)
  <2>1. \A i \in 1..n :
          L[i].id \in 1..appended /\ L[i].at \in 0..now /\ L[i].expires \in 0..(now + MaxLease)
    BY <1>4, <1>5 DEF Ordered
  <2>2. ASSUME NEW i \in 1..n, NEW j \in 1..n, i <= j PROVE L[i].at <= L[j].at
    <3>1. e[i] <= e[j]
      BY <1>3, <1>4, <1>5, <2>2
    <3> QED BY <1>4, <1>5, <3>1 DEF Ordered
  <2> QED BY <1>3, <2>1, <2>2 DEF Ordered
<1>7. \A k \in Keys : NoneOf(journal, k) => NoneOf(L, k)
  BY <1>3, <1>4, <1>5 DEF NoneOf
<1>8. ASSUME NEW k \in Keys, NEW r \in Receipts, HasLatest(journal, k, r)
      PROVE  \/ HasLatest(L, k, r)
             \/ /\ NoneOf(L, k)
                /\ InFlight(r) => IsAbandoned(r)
                /\ Terminal(r) => r.at < now - Window \/ <<k, "shed">> \in Shed(keep)
  <2>1. PICK i \in DOMAIN journal :
          /\ journal[i] = r /\ journal[i].key = k
          /\ \A j \in DOMAIN journal : journal[j].key = k => j <= i
    BY <1>8 DEF HasLatest
  <2>2. CASE i \in keep
    <3>1. PICK m \in 1..n : e[m] = i
      BY <1>4, <2>2
    <3>2. ASSUME NEW j \in 1..n, L[j].key = k PROVE j <= m
      <4>1. e[j] <= e[m]
        BY <1>4, <1>5, <2>1, <3>1, <3>2
      <4> QED BY <1>3, <1>4, <1>5, <4>1
    <3>3. L[m] = r /\ L[m].key = k
      BY <1>4, <2>1, <3>1
    <3> QED BY <1>3, <3>2, <3>3 DEF HasLatest
  <2>3. CASE i \notin keep
    <3>1. ASSUME NEW j \in 1..n PROVE L[j].key # k
      <4>1. e[j] \in DedupeWindow
        BY <1>5
      <4>2. \A x \in DOMAIN journal : journal[x].key = journal[e[j]].key => x <= e[j]
        BY <4>1 DEF DedupeWindow
      <4>3. SUFFICES ASSUME journal[e[j]].key = k PROVE FALSE
        BY <1>4
      <4>4. i <= e[j] /\ e[j] <= i
        BY <1>5, <2>1, <4>2, <4>3
      <4>5. i = e[j]
        BY <1>1, <1>5, <4>4
      <4> QED BY <1>5, <2>3, <4>5
    <3>2. NoneOf(L, k)
      BY <1>3, <3>1 DEF NoneOf
    <3>3. i \in DedupeWindow <=> InWindow(r)
      BY <2>1 DEF DedupeWindow
    <3>4. r.at \in Nat /\ now - Window \in Int
      BY TriggerAssumption DEF Receipts
    <3>5. InFlight(r) => IsAbandoned(r)
      BY <2>1, <2>3, <3>3 DEF InWindow
    <3>6. Terminal(r) /\ i \in DedupeWindow => <<k, "shed">> \in Shed(keep)
      BY <2>1, <2>3 DEF Shed
    <3>7. Terminal(r) => ~InFlight(r)
      BY DEF Terminal, InFlight
    <3> QED BY <3>2, <3>3, <3>4, <3>5, <3>6, <3>7 DEF InWindow
  <2> QED BY <2>2, <2>3
<1> QED BY <1>6, <1>7, <1>8 DEF Carried, L

\* Compaction drops terminal receipts of the window for minute-scoped keys
\* only: those are the ones excused.
LEMMA RetainedCarries ==
  ASSUME now \in Nat, Ordered(journal)
  PROVE  Carried(Live(Retained), {e \in Shed(Retained) : e[1] \in CronKeys})
<1>1. Retained \in SUBSET DedupeWindow
  BY DEF Retained
<1>2. \A i \in DedupeWindow : InFlight(journal[i]) => i \in Retained
  BY DEF Retained, Trimmable
<1>3. \A i \in DedupeWindow \ Retained : journal[i].key \in CronKeys
  BY DEF Retained, Trimmable, IsMinuteScoped
<1>4. {e \in Shed(Retained) : e[1] \in CronKeys} = Shed(Retained)
  BY <1>3 DEF Shed
<1> QED BY <1>1, <1>2, <1>4, KeepCarries

\* So does what an append or a death leaves of the journal.
LEMMA CompactedCarries ==
  ASSUME now \in Nat, Ordered(journal), NEW fault \in BOOLEAN, NEW x \in Compacted(fault)
  PROVE  Carried(x.f.journal, x.shed)
<1>1. Carried(journal, {})
  BY DEF Carried
<1>2. \/ x.f.journal = journal /\ x.shed = {}
      \/ x.f.journal = Live(Retained) /\ x.shed = {e \in Shed(Retained) : e[1] \in CronKeys}
  BY DEF Compacted, AsIs, HalfSplit, Split
<1> QED BY <1>1, <1>2, RetainedCarries

\* And an operator's rotation, which keeps every claim of the window.
LEMMA RotationCarries ==
  ASSUME now \in Nat, Ordered(journal), NEW m \in Nat
  PROVE  Carried(Split(RotationKeep(m)).journal, Shed(RotationKeep(m)))
<1>1. RotationKeep(m) \in SUBSET DedupeWindow
  BY DEF RotationKeep
<1>2. \A i \in DedupeWindow : InFlight(journal[i]) => i \in RotationKeep(m)
  BY DEF RotationKeep
<1> QED BY <1>1, <1>2, KeepCarries DEF Split
-----------------------------------------------------------------------------
\* A key has one latest record, or none at all.
LEMMA LatestIsOne ==
  ASSUME NEW J \in Seq(Receipts), NEW k, NEW r, HasLatest(J, k, r)
  PROVE  ~NoneOf(J, k) /\ \A x : HasLatest(J, k, x) => x = r
<1>1. DOMAIN J \subseteq Int
  OBVIOUS
<1>2. PICK i \in DOMAIN J : J[i] = r /\ J[i].key = k /\ \A j \in DOMAIN J : J[j].key = k => j <= i
  BY DEF HasLatest
<1>3. ASSUME NEW x, HasLatest(J, k, x) PROVE x = r
  <2>1. PICK m \in DOMAIN J :
          J[m] = x /\ J[m].key = k /\ \A j \in DOMAIN J : J[j].key = k => j <= m
    BY <1>3 DEF HasLatest
  <2>2. i <= m /\ m <= i
    BY <1>2, <2>1
  <2>3. i = m
    BY <1>1, <2>2
  <2> QED BY <1>2, <2>1, <2>3
<1> QED BY <1>2, <1>3 DEF NoneOf

\* An appended record is the latest of its key and disturbs no other key.
LEMMA AppendedIsLatest ==
  ASSUME NEW J \in Seq(Receipts), NEW r \in Receipts
  PROVE  /\ HasLatest(Append(J, r), r.key, r)
         /\ \A k : k # r.key /\ NoneOf(J, k) => NoneOf(Append(J, r), k)
         /\ \A k, x : k # r.key /\ HasLatest(J, k, x) => HasLatest(Append(J, r), k, x)
<1> DEFINE A == Append(J, r)
           n == Len(J)
<1>1. /\ n \in Nat /\ DOMAIN J = 1..n /\ DOMAIN A = 1..(n + 1)
      /\ A[n + 1] = r /\ \A i \in 1..n : A[i] = J[i]
  OBVIOUS
<1>2. \A i \in 1..(n + 1) : i # n + 1 => i \in 1..n
  BY <1>1
<1> HIDE DEF A, n
<1>3. HasLatest(A, r.key, r)
  BY <1>1 DEF HasLatest
<1>4. \A k : k # r.key /\ NoneOf(J, k) => NoneOf(A, k)
  BY <1>1, <1>2 DEF NoneOf
<1>5. ASSUME NEW k, NEW x, k # r.key, HasLatest(J, k, x) PROVE HasLatest(A, k, x)
  <2>1. PICK i \in 1..n : J[i] = x /\ J[i].key = k /\ \A j \in 1..n : J[j].key = k => j <= i
    BY <1>1, <1>5 DEF HasLatest
  <2>2. i \in DOMAIN A /\ A[i] = x /\ A[i].key = k
    BY <1>1, <2>1
  <2>3. \A j \in DOMAIN A : A[j].key = k => j <= i
    BY <1>1, <1>2, <1>5, <2>1
  <2> QED BY <2>2, <2>3 DEF HasLatest
<1> QED BY <1>3, <1>4, <1>5 DEF A

\* A latest record that is young enough for the read cutoff is found.
LEMMA LatestIsFound ==
  ASSUME now \in Nat, Ordered(journal), NEW k \in Keys, NEW r \in Receipts,
         HasLatest(journal, k, r), r.at >= ReadCutoff
  PROVE  FindLatest(k) = r
<1> DEFINE stops == {i \in DOMAIN journal : StopsScan(journal[i])}
           from == IF stops = {} THEN 1 ELSE Max(stops) + 1
           mine == {i \in Scanned : journal[i].key = k}
<1>1. Len(journal) \in Nat /\ DOMAIN journal = 1..Len(journal)
  BY DEF Ordered
<1>2. ReadCutoff \in Int /\ r.at \in Nat /\ \A i \in DOMAIN journal : journal[i].at \in Nat
  BY TriggerAssumption DEF ReadCutoff, Receipts, Ordered
<1>3. PICK i \in DOMAIN journal :
        journal[i] = r /\ journal[i].key = k /\ \A j \in DOMAIN journal : journal[j].key = k => j <= i
  BY DEF HasLatest
<1>4. ASSUME stops # {} PROVE Max(stops) \in DOMAIN journal /\ Max(stops) < i
  <2>1. stops \in SUBSET (1..Len(journal))
    BY <1>1
  <2>2. Max(stops) \in stops
    <3> HIDE DEF stops
    <3> QED BY <1>1, <1>4, <2>1, MaxOfPlaces
  <2>3. Max(stops) \in DOMAIN journal /\ journal[Max(stops)].at < ReadCutoff
    BY <2>2 DEF StopsScan
  <2>4. ~(i <= Max(stops))
    BY <1>2, <1>3, <2>3 DEF Ordered
  <2> QED BY <1>1, <2>3, <2>4
<1>5. from \in Int /\ from <= i
  BY <1>1, <1>4
<1>6. Scanned = {j \in DOMAIN journal : j >= from}
  BY DEF Scanned
<1> HIDE DEF stops, from
<1>7. i \in mine /\ \A j \in mine : j <= i
  BY <1>1, <1>3, <1>5, <1>6
<1>8. mine \in SUBSET (1..Len(journal))
  BY <1>1, <1>6
<1> HIDE DEF mine
<1>9. Max(mine) \in mine /\ i <= Max(mine)
  BY <1>1, <1>7, <1>8, MaxOfPlaces
<1>10. Max(mine) = i
  BY <1>7, <1>8, <1>9
<1>11. FindLatest(k) = IF mine = {} THEN None ELSE journal[Max(mine)]
  BY DEF FindLatest, mine
<1> QED BY <1>3, <1>7, <1>10, <1>11

-----------------------------------------------------------------------------
\* A rewrite leaves the claims under way standing, as does a record of another
\* key.
LEMMA StandsCarried ==
  ASSUME Types, CallTypes, NEW p \in Pids, Busy(p), ClaimStands(p, journal),
         NEW L, NEW excuses, Carried(L, excuses)
  PROVE  ClaimStands(p, L)
<1> DEFINE k == call[p].key
<1>1. k \in Keys /\ now \in Int /\ call[p].expires \in Nat /\ Window \in Nat
  BY TriggerAssumption DEF CallTypes, CallRecords, Types
<1>2. CASE Outlasted(k)
  BY <1>2 DEF ClaimStands
<1>3. ASSUME NEW r \in Receipts, IsClaimOf(p, r), HasLatest(journal, k, r)
      PROVE  ClaimStands(p, L)
  <2>1. HasLatest(L, k, r) \/ (NoneOf(L, k) /\ IsAbandoned(r))
    BY <1>1, <1>3 DEF Carried, IsClaimOf
  <2>2. IsAbandoned(r) => call[p].expires + Window < now
    BY <1>1, <1>3 DEF IsAbandoned, IsClaimOf
  <2> QED BY <1>3, <2>1, <2>2 DEF ClaimStands
<1>4. CASE call[p].expires + Window < now /\ NoneOf(journal, k)
  BY <1>1, <1>4 DEF ClaimStands, Carried
<1> QED BY <1>2, <1>3, <1>4 DEF ClaimStands

LEMMA StandsAppended ==
  ASSUME NEW p \in Pids, NEW L \in Seq(Receipts), ClaimStands(p, L),
         NEW r \in Receipts, r.key # call[p].key
  PROVE  ClaimStands(p, Append(L, r))
BY AppendedIsLatest DEF ClaimStands

\* A known success stays known, unless its receipt is shed under an excuse.
LEMMA KnownCarried ==
  ASSUME Types, NEW k \in Keys, Fresh(k) \/ Receipted(k, journal),
         NEW L, NEW excuses, Carried(L, excuses)
  PROVE  Fresh(k) \/ <<k, "shed">> \in excuses \/ Receipted(k, L)
<1>1. ASSUME NEW r \in Receipts, HasLatest(journal, k, r), Terminal(r), r.at >= lastOK[k], ~Fresh(k)
      PROVE  <<k, "shed">> \in excuses \/ Receipted(k, L)
  <2>1. r.at \in Nat /\ now \in Nat /\ Window \in Nat /\ lastOK[k] \in Nat
    BY <1>1, TriggerAssumption DEF Types, Receipts, Fresh
  <2>2. ~(r.at < now - Window)
    BY <1>1, <2>1 DEF Fresh
  <2>3. HasLatest(L, k, r) \/ <<k, "shed">> \in excuses
    BY <1>1, <2>2 DEF Carried
  <2> QED BY <1>1, <2>3 DEF Receipted
<1> QED BY <1>1 DEF Receipted

LEMMA KnownAppended ==
  ASSUME NEW k \in Keys, NEW L \in Seq(Receipts), Receipted(k, L),
         NEW r \in Receipts, r.key # k
  PROVE  Receipted(k, Append(L, r))
BY AppendedIsLatest DEF Receipted

\* The claim of a run under way blocks its key until it is outlived.
LEMMA ClaimBlocks ==
  ASSUME Types, CallTypes, ClaimsStand, NEW p \in Pids, Busy(p), Deliverable(call[p].key)
  PROVE  Outlasted(call[p].key) \/ <<call[p].key, "outlived">> \in Outlived(call[p].key)
<1> DEFINE k == call[p].key
           c == call[p]
<1>1. /\ p \in alive /\ k \in Keys /\ c.since \in Nat /\ c.expires \in Nat
      /\ c.expires <= c.since + MaxLease /\ now \in Nat /\ Window \in Nat /\ MaxLease \in Nat
  BY TriggerAssumption DEF CallTypes, CallRecords, Types
<1>2. CASE c.expires + Window < now
  <2>1. p \in Delivering(k)
    BY DEF Delivering, Busy
  <2> QED BY <1>2, <2>1 DEF Outlived
<1>3. ASSUME NEW r \in Receipts, IsClaimOf(p, r), HasLatest(journal, k, r),
             ~(c.expires + Window < now)
      PROVE  FALSE
  <2>1. r.at >= ReadCutoff
    BY <1>1, <1>3 DEF ReadCutoff, IsClaimOf
  <2>2. FindLatest(k) = r
    BY <1>1, <1>3, <2>1, LatestIsFound DEF Types
  <2>3. Blocks(r)
    BY <1>1, <1>3, NoneIsNoReceipt DEF Blocks, IsClaimOf
  <2> QED BY <2>2, <2>3 DEF Deliverable
<1> QED BY <1>2, <1>3 DEF ClaimsStand, ClaimStands

\* A run that may deliver finds no success inside the window, or an excuse.
LEMMA DeliverableIsFresh ==
  ASSUME Types, CallTypes, ClaimsStand, SuccessesAreKnown, NEW k \in Keys, Deliverable(k)
  PROVE  Fresh(k) \/ <<k, "outlived">> \in Outlived(k)
<1>1. ASSUME NEW p \in Pids, call[p].pc = "settle", call[p].key = k
      PROVE  Fresh(k) \/ <<k, "outlived">> \in Outlived(k)
  <2>1. Outlasted(k) => Fresh(k)
    BY DEF Outlasted, Fresh, Excused
  <2> QED BY <1>1, <2>1, ClaimBlocks DEF Busy
<1>2. ASSUME NEW r \in Receipts, HasLatest(journal, k, r), Terminal(r), r.at >= lastOK[k], ~Fresh(k)
      PROVE  FALSE
  <2>1. /\ r.at \in Nat /\ now \in Nat /\ Window \in Nat /\ MaxLease \in Nat
        /\ lastOK[k] \in Nat /\ ~(lastOK[k] < now - Window)
    BY <1>2, TriggerAssumption DEF Types, Receipts, Fresh
  <2>2. r.at >= ReadCutoff
    BY <1>2, <2>1 DEF ReadCutoff
  <2>3. FindLatest(k) = r
    BY <1>2, <2>1, <2>2, LatestIsFound DEF Types
  <2>4. Blocks(r)
    BY <1>2, NoneIsNoReceipt DEF Blocks
  <2> QED BY <2>3, <2>4 DEF Deliverable
<1> QED BY <1>1, <1>2 DEF SuccessesAreKnown, Settling, Receipted

-----------------------------------------------------------------------------
\* A split loses no record, whatever it keeps, and excuses keys only.
LEMMA SplitKeepsAll ==
  ASSUME Types, NothingLost, NEW keep \in SUBSET DOMAIN journal
  PROVE  /\ DroppedIds(keep) \subseteq 1..appended
         /\ 1..appended \subseteq segments \cup DroppedIds(keep)
                                 \cup {Live(keep)[i].id : i \in DOMAIN Live(keep)}
         /\ Shed(keep) \subseteq Keys \X {"shed"}
<1>1. DroppedIds(keep) \subseteq 1..appended
  BY DEF DroppedIds, Types, Ordered
<1>2. Shed(keep) \subseteq Keys \X {"shed"}
  <2>1. \A i \in DOMAIN journal : journal[i] \in Receipts
    BY DEF Types, Ordered
  <2>2. \A i \in DedupeWindow : journal[i].key \in Keys
    BY <2>1 DEF DedupeWindow, Receipts
  <2> QED BY <2>2 DEF Shed
<1>3. ASSUME NEW i \in keep
      PROVE  \E m \in DOMAIN Live(keep) : Live(keep)[m].id = journal[i].id
  <2> DEFINE n == Cardinality(keep)
  <2>1. journal \in Seq(Receipts)
    BY DEF Types, Ordered
  <2>2. PICK e \in [1..n -> keep] :
          /\ \A m \in 1..n : Live(keep)[m] = journal[e[m]]
          /\ \A j \in keep : \E m \in 1..n : e[m] = j
    BY <2>1, LiveEnumerates
  <2>3. DOMAIN Live(keep) = 1..n
    BY <2>1, LiveEnumerates
  <2> QED BY <1>3, <2>2, <2>3
<1>4. ASSUME NEW n \in 1..appended, n \notin segments, n \notin DroppedIds(keep)
      PROVE  n \in {Live(keep)[i].id : i \in DOMAIN Live(keep)}
  <2>1. PICK i \in DOMAIN journal : journal[i].id = n
    BY <1>4 DEF NothingLost
  <2>2. i \in keep
    BY <1>4, <2>1 DEF DroppedIds
  <2> QED BY <1>3, <2>1, <2>2
<1> QED BY <1>1, <1>2, <1>4

LEMMA CompactedKeepsAll ==
  ASSUME Types, NothingLost, NEW fault \in BOOLEAN, NEW x \in Compacted(fault)
  PROVE  /\ x.f.segments \subseteq 1..appended
         /\ 1..appended \subseteq x.f.segments \cup {x.f.journal[i].id : i \in DOMAIN x.f.journal}
         /\ x.shed \subseteq Keys \X {"shed"}
<1>1. \/ x.f = AsIs /\ x.shed = {}
      \/ x.f = HalfSplit(Retained) /\ x.shed = {}
      \/ x.f = Split(Retained) /\ x.shed \subseteq Shed(Retained)
  BY DEF Compacted
<1>2. Retained \in SUBSET DOMAIN journal
  BY DEF Retained, DedupeWindow
<1>3. /\ DroppedIds(Retained) \subseteq 1..appended
      /\ 1..appended \subseteq segments \cup DroppedIds(Retained)
                              \cup {Live(Retained)[i].id : i \in DOMAIN Live(Retained)}
      /\ Shed(Retained) \subseteq Keys \X {"shed"}
  BY <1>2, SplitKeepsAll
<1>4. segments \subseteq 1..appended
  BY DEF Types
<1>5. 1..appended \subseteq segments \cup {journal[i].id : i \in DOMAIN journal}
  BY DEF NothingLost
<1>6. CASE x.f = AsIs /\ x.shed = {}
  <2>1. x.f.journal = journal /\ x.f.segments = segments
    BY <1>6 DEF AsIs
  <2> QED BY <1>4, <1>5, <1>6, <2>1
<1>7. CASE x.f = HalfSplit(Retained) /\ x.shed = {}
  <2>1. x.f.journal = journal /\ x.f.segments = segments \cup DroppedIds(Retained)
    BY <1>7 DEF HalfSplit
  <2>2. x.f.segments \subseteq 1..appended /\ segments \subseteq x.f.segments
    BY <1>3, <1>4, <2>1
  <2> QED BY <1>5, <1>7, <2>1, <2>2
<1>8. CASE x.f = Split(Retained) /\ x.shed \subseteq Shed(Retained)
  <2>1. x.f.journal = Live(Retained) /\ x.f.segments = segments \cup DroppedIds(Retained)
    BY <1>8 DEF Split
  <2> QED BY <1>3, <1>4, <1>8, <2>1
<1> QED BY <1>1, <1>6, <1>7, <1>8

\* A record that may be appended now.
Appendable(r) ==
  r \in Receipts /\ r.id = appended + 1 /\ r.at = now /\ r.expires <= now + MaxLease

\* What an append does: a rewrite carries the journal over, the record is added.
LEMMA AppendShape ==
  ASSUME Types, NothingLost, NEW r, Appendable(r), NEW fault \in BOOLEAN, NEW excuse,
         AppendRecord(r, fault, excuse), now' = now
  PROVE  /\ \E L \in Seq(Receipts), E \in SUBSET (Keys \X {"shed"}) :
              /\ Carried(L, E)
              /\ journal' = Append(L, r) /\ excused' = excused \cup E \cup excuse
         /\ appended' = appended + 1 /\ appended' \in 0..MaxRecords
         /\ Ordered(journal)' /\ segments' \subseteq 1..appended' /\ NothingLost'
<1>1. PICK x \in Compacted(fault) :
        /\ journal' = Append(x.f.journal, r) /\ segments' = x.f.segments
        /\ excused' = excused \cup x.shed \cup excuse
  BY DEF AppendRecord
<1> DEFINE L == x.f.journal
           n == Len(L)
<1>2. Carried(L, x.shed) /\ Ordered(L) /\ L \in Seq(Receipts)
  BY CompactedCarries DEF Types, Carried, Ordered
<1>3. /\ segments' \subseteq 1..appended
      /\ 1..appended \subseteq segments' \cup {L[i].id : i \in DOMAIN L}
      /\ x.shed \in SUBSET (Keys \X {"shed"})
  BY <1>1, CompactedKeepsAll
<1>4. appended' = appended + 1 /\ appended' \in 0..MaxRecords /\ appended \in Nat
  BY TriggerAssumption DEF AppendRecord, Types
<1> HIDE DEF L
<1>5. /\ n \in Nat /\ DOMAIN L = 1..n /\ DOMAIN journal' = 1..(n + 1)
      /\ journal' \in Seq(Receipts)
      /\ journal'[n + 1] = r /\ \A i \in 1..n : journal'[i] = L[i]
  BY <1>1, <1>2 DEF Appendable, L
<1>6. \A i \in 1..(n + 1) : i # n + 1 => i \in 1..n
  BY <1>5
<1> HIDE DEF n
<1>7. now \in Nat /\ MaxLease \in Nat /\ r.expires \in Nat
  BY TriggerAssumption DEF Types, Appendable, Receipts
<1>8. ASSUME NEW i \in 1..(n + 1)
      PROVE  /\ journal'[i].id \in 1..appended' /\ journal'[i].at \in 0..now
             /\ journal'[i].expires \in 0..(now + MaxLease)
  <2>1. CASE i = n + 1
    <3>1. journal'[i] = r
      BY <1>5, <2>1
    <3>2. r.id \in 1..appended' /\ r.at \in 0..now /\ r.expires \in 0..(now + MaxLease)
      BY <1>4, <1>7 DEF Appendable
    <3> QED BY <3>1, <3>2
  <2>2. CASE i # n + 1
    <3>1. i \in 1..n /\ journal'[i] = L[i]
      BY <1>5, <1>6, <2>2
    <3>2. /\ L[i].id \in 1..appended /\ L[i].at \in 0..now
          /\ L[i].expires \in 0..(now + MaxLease)
      BY <1>2, <1>5, <3>1 DEF Ordered
    <3> QED BY <1>4, <3>1, <3>2
  <2> QED BY <2>1, <2>2
<1>9. ASSUME NEW i \in 1..(n + 1), NEW j \in 1..(n + 1), i <= j
      PROVE  journal'[i].at <= journal'[j].at
  <2>1. CASE j = n + 1
    BY <1>5, <1>7, <1>8, <2>1 DEF Appendable
  <2>2. CASE j # n + 1
    <3>1. i # n + 1 /\ i \in 1..n /\ j \in 1..n
      BY <1>5, <1>6, <1>9, <2>2
    <3> QED BY <1>2, <1>5, <1>9, <3>1 DEF Ordered
  <2> QED BY <2>1, <2>2
<1>10. Ordered(journal)'
  BY <1>5, <1>8, <1>9 DEF Ordered
<1>11. NothingLost'
  <2>1. ASSUME NEW m \in 1..appended', m \notin segments'
        PROVE  \E i \in 1..(n + 1) : journal'[i].id = m
    <3>1. CASE m = appended + 1
      <4>1. n + 1 \in 1..(n + 1)
        BY <1>5
      <4> QED BY <1>5, <3>1, <4>1 DEF Appendable
    <3>2. CASE m # appended + 1
      <4>1. m \in 1..appended
        BY <1>4, <3>2
      <4>2. PICK i \in 1..n : L[i].id = m
        BY <1>3, <1>5, <2>1, <4>1
      <4>3. i \in 1..(n + 1)
        BY <1>5
      <4> QED BY <1>5, <4>2, <4>3
    <3> QED BY <3>1, <3>2
  <2> QED BY <1>5, <2>1 DEF NothingLost
<1>12. segments' \subseteq 1..appended'
  BY <1>3, <1>4
<1>13. \E K \in Seq(Receipts), E \in SUBSET (Keys \X {"shed"}) :
         /\ Carried(K, E)
         /\ journal' = Append(K, r) /\ excused' = excused \cup E \cup excuse
  BY <1>1, <1>2, <1>3 DEF L
<1> QED BY <1>4, <1>10, <1>11, <1>12, <1>13

\* The records a run writes.
LEMMA RecordsAreAppendable ==
  ASSUME Types, NEW k \in Keys
  PROVE  /\ \A p \in Pids, lease \in Leases :
              Appendable(Pending(k, p, now + lease)) /\ Pending(k, p, now + lease).key = k
         /\ \A status \in Status :
              Appendable(Finished(k, status)) /\ Finished(k, status).key = k
<1>1. now \in Nat /\ appended \in Nat /\ MaxLease \in Nat
  BY TriggerAssumption DEF Types
<1>2. ASSUME NEW p \in Pids, NEW lease \in Leases
      PROVE  Appendable(Pending(k, p, now + lease)) /\ Pending(k, p, now + lease).key = k
  BY <1>1, <1>2 DEF Appendable, Pending, Receipts, Leases, Status
<1>3. ASSUME NEW status \in Status
      PROVE  Appendable(Finished(k, status)) /\ Finished(k, status).key = k
  BY <1>1, <1>3 DEF Appendable, Pending, Finished, Receipts
<1> QED BY <1>2, <1>3

LEMMA InitRunner == Init => RunnerInv
<1> SUFFICES ASSUME Init PROVE RunnerInv
  OBVIOUS
<1>1. DOMAIN journal = {} /\ journal \in Seq(Receipts)
  BY DEF Init
<1>2. Types
  BY <1>1, TriggerAssumption DEF Init, Types, Ordered
<1>3. CallTypes /\ ClaimsStand /\ NoOverlap /\ DeliveriesAreFresh
  BY DEF Init, NoCall, CallTypes, CallRecords, Busy, ClaimsStand, NoOverlap, DeliveriesAreFresh
<1>4. NothingLost
  BY <1>1 DEF Init, NothingLost
<1>5. SuccessesAreKnown
  BY DEF Init, SuccessesAreKnown, Fresh
<1> QED BY <1>2, <1>3, <1>4, <1>5 DEF RunnerInv

-----------------------------------------------------------------------------
\* What stays true of a call, and of a key, that a step leaves alone.
LEMMA StandsStill ==
  ASSUME NEW p \in Pids, call'[p] = call[p], now' = now, excused \subseteq excused',
         ClaimStands(p, journal')
  PROVE  ClaimStands(p, journal)'
BY DEF ClaimStands, Outlasted, IsClaimOf, InFlight, HasLatest, NoneOf

LEMMA FreshStays ==
  ASSUME Types, NEW k \in Keys, lastOK'[k] = lastOK[k], now' \in Nat, now' >= now,
         excused \subseteq excused', Fresh(k)
  PROVE  Fresh(k)'
<1>1. CASE Excused(k)
  BY <1>1 DEF Fresh, Excused
<1>2. CASE lastOK[k] = None
  BY <1>2 DEF Fresh
<1>3. CASE lastOK[k] # None /\ lastOK[k] < now - Window
  <2>1. lastOK[k] \in Nat /\ now \in Nat /\ Window \in Nat
    BY <1>3, TriggerAssumption DEF Types
  <2> QED BY <1>3, <2>1 DEF Fresh
<1> QED BY <1>1, <1>2, <1>3 DEF Fresh

\* The effect of an append on every key.
LEMMA AppendKeeps ==
  ASSUME Types, CallTypes, NothingLost, NEW k \in Keys, NEW r, Appendable(r), r.key = k,
         NEW fault \in BOOLEAN, NEW excuse \in SUBSET {<<k, "outlived">>},
         AppendRecord(r, fault, excuse), now' = now, lastOK' = lastOK
  PROVE  /\ appended' \in 0..MaxRecords /\ Ordered(journal)' /\ segments' \subseteq 1..appended'
         /\ excused' \subseteq Keys \X {"shed", "loose", "outlived"}
         /\ excused \cup excuse \subseteq excused'
         /\ NothingLost'
         /\ r \in Receipts /\ HasLatest(journal', k, r)
         /\ \A p \in Pids : /\ Busy(p) /\ ClaimStands(p, journal)
                            /\ call'[p] = call[p] /\ call[p].key # k
                            => ClaimStands(p, journal)'
         /\ \A x \in Keys : Fresh(x) => Fresh(x)'
         /\ \A x \in Keys : x # k /\ Receipted(x, journal) =>
                            Fresh(x)' \/ Receipted(x, journal)'
<1>1. PICK L \in Seq(Receipts), E \in SUBSET (Keys \X {"shed"}) :
        /\ Carried(L, E)
        /\ journal' = Append(L, r) /\ excused' = excused \cup E \cup excuse
  BY AppendShape
<1>2. appended' \in 0..MaxRecords /\ Ordered(journal)' /\ segments' \subseteq 1..appended' /\ NothingLost'
  BY AppendShape
<1>3. /\ excused' \subseteq Keys \X {"shed", "loose", "outlived"}
      /\ excused \subseteq excused' /\ excuse \subseteq excused' /\ E \subseteq excused'
  BY <1>1 DEF Types
<1>4. r \in Receipts /\ HasLatest(journal', k, r)
  BY <1>1, AppendedIsLatest DEF Appendable
<1>5. ASSUME NEW p \in Pids, Busy(p), ClaimStands(p, journal), call'[p] = call[p], call[p].key # k
      PROVE  ClaimStands(p, journal)'
  <2>1. ClaimStands(p, L)
    BY <1>1, <1>5, StandsCarried
  <2>2. ClaimStands(p, journal')
    BY <1>1, <1>4, <1>5, <2>1, StandsAppended
  <2> QED BY <1>3, <1>5, <2>2, StandsStill
<1>6. ASSUME NEW x \in Keys, Fresh(x) PROVE Fresh(x)'
  <2>1. now' \in Nat /\ now' >= now
    BY DEF Types
  <2> QED BY <1>3, <1>6, <2>1, FreshStays
<1>7. ASSUME NEW x \in Keys, x # k, Receipted(x, journal)
      PROVE  Fresh(x)' \/ Receipted(x, journal)'
  <2>1. Fresh(x) \/ <<x, "shed">> \in E \/ Receipted(x, L)
    BY <1>1, <1>7, KnownCarried
  <2>2. <<x, "shed">> \in E => Fresh(x)'
    BY <1>3 DEF Fresh, Excused
  <2>3. Receipted(x, L) => Receipted(x, journal')
    BY <1>1, <1>4, <1>7, KnownAppended
  <2>4. Receipted(x, journal') => Receipted(x, journal)'
    BY DEF Receipted, Terminal, HasLatest
  <2> QED BY <1>6, <2>1, <2>2, <2>3, <2>4
<1> QED BY <1>2, <1>3, <1>4, <1>5, <1>6, <1>7

LEMMA TroubleStays == Types /\ (Trouble \/ UNCHANGED trouble) => trouble' \in 0..MaxTrouble
BY TriggerAssumption DEF Types, Trouble

LEMMA OutlivedIsSmall == \A k : Outlived(k) \in SUBSET {<<k, "outlived">>}
BY DEF Outlived

\* A claim is its key's latest record; whoever was delivering that key has been
\* outlived, and its last success is no reason to wait.
LEMMA ClaimKept ==
  ASSUME RunnerInv, NEW p \in Pids, NEW k \in Keys, NEW lease \in Leases, Claim(p, k, lease)
  PROVE  RunnerInv'
<1>0. PICK r : r = Pending(k, p, now + lease)
  OBVIOUS
<1>1. /\ p \in alive /\ call[p].pc = "idle" /\ Deliverable(k)
      /\ now' = now /\ alive' = alive /\ lastOK' = lastOK
      /\ call' = [call EXCEPT ![p] = [pc |-> "deliver", key |-> k, since |-> now,
                                     expires |-> now + lease, ok |-> FALSE]]
  BY DEF Claim
<1>2. PICK fault \in BOOLEAN : AppendRecord(r, fault, Outlived(k))
  BY <1>0 DEF Claim
<1>3. trouble' \in 0..MaxTrouble
  BY TroubleStays DEF Claim, RunnerInv
<1>4. Appendable(r) /\ r.key = k
  BY <1>0, RecordsAreAppendable DEF RunnerInv
<1>5. Outlived(k) \in SUBSET {<<k, "outlived">>}
  BY OutlivedIsSmall
<1>6. /\ appended' \in 0..MaxRecords /\ Ordered(journal)' /\ segments' \subseteq 1..appended'
      /\ excused' \subseteq Keys \X {"shed", "loose", "outlived"}
      /\ excused \cup Outlived(k) \subseteq excused'
      /\ NothingLost'
      /\ r \in Receipts /\ HasLatest(journal', k, r)
      /\ \A q \in Pids : /\ Busy(q) /\ ClaimStands(q, journal)
                         /\ call'[q] = call[q] /\ call[q].key # k
                         => ClaimStands(q, journal)'
      /\ \A x \in Keys : Fresh(x) => Fresh(x)'
      /\ \A x \in Keys : x # k /\ Receipted(x, journal) => Fresh(x)' \/ Receipted(x, journal)'
  BY <1>1, <1>2, <1>4, <1>5, AppendKeeps DEF RunnerInv
<1>7. Types'
  BY <1>1, <1>3, <1>6 DEF RunnerInv, Types
<1>8. call \in [Pids -> CallRecords]
  BY DEF RunnerInv, CallTypes
<1>9. /\ call'[p].pc = "deliver" /\ call'[p].key = k /\ call'[p].since = now
      /\ call'[p].expires = now + lease /\ call'[p].ok = FALSE
      /\ \A q \in Pids : q # p => call'[q] = call[q]
  BY <1>1, <1>8 DEF CallRecords
<1>10. CallTypes'
  <2>1. now \in Nat /\ lease \in Nat /\ MaxLease \in Nat /\ lease <= MaxLease
    BY TriggerAssumption DEF RunnerInv, Types, Leases
  <2>2. call' \in [Pids -> CallRecords]
    <3>1. [pc |-> "deliver", key |-> k, since |-> now, expires |-> now + lease, ok |-> FALSE]
            \in CallRecords
      BY <2>1 DEF CallRecords
    <3> QED BY <1>1, <1>8, <3>1
  <2>3. ASSUME NEW q \in Pids, call'[q].pc # "idle"
        PROVE  /\ q \in alive' /\ call'[q].key \in Keys
               /\ call'[q].since <= now' /\ call'[q].expires <= call'[q].since + MaxLease
    <3>1. CASE q = p
      BY <1>1, <1>9, <2>1, <3>1
    <3>2. CASE q # p
      BY <1>1, <1>9, <2>3, <3>2 DEF RunnerInv, CallTypes, Busy
    <3> QED BY <3>1, <3>2
  <2>4. ASSUME NEW q \in Pids, call'[q].pc = "idle" PROVE ~call'[q].ok
    BY <1>9, <2>4 DEF RunnerInv, CallTypes, Busy
  <2> QED BY <2>2, <2>3, <2>4 DEF CallTypes, Busy
<1>11. ASSUME NEW q \in Pids, Busy(q), call[q].key = k PROVE <<k, "outlived">> \in excused'
  BY <1>1, <1>6, <1>11, ClaimBlocks DEF RunnerInv, Outlasted
<1>12. ASSUME NEW q \in Pids, Busy(q)' PROVE ClaimStands(q, journal)'
  <2>1. CASE q = p
    <3>1. IsClaimOf(p, r)'
      BY <1>0, <1>9 DEF IsClaimOf, InFlight, Pending
    <3>2. HasLatest(journal, k, r)'
      BY <1>6 DEF HasLatest
    <3> QED BY <1>6, <1>9, <2>1, <3>1, <3>2 DEF ClaimStands
  <2>2. CASE q # p /\ call[q].key = k
    BY <1>9, <1>11, <1>12, <2>2 DEF ClaimStands, Outlasted, Busy
  <2>3. CASE q # p /\ call[q].key # k
    BY <1>6, <1>9, <1>12, <2>3 DEF RunnerInv, ClaimsStand, Busy
  <2> QED BY <2>1, <2>2, <2>3
<1>13. NoOverlap'
  <2> SUFFICES ASSUME NEW q \in Pids, NEW s \in Pids, q # s, call'[q].pc # "idle",
                      call'[s].pc # "idle", call'[q].key = call'[s].key
               PROVE  <<call'[q].key, "outlived">> \in excused'
    BY DEF NoOverlap
  <2>1. CASE q = p
    BY <1>9, <1>11, <2>1 DEF Busy
  <2>2. CASE s = p
    BY <1>9, <1>11, <2>2 DEF Busy
  <2>3. CASE q # p /\ s # p
    BY <1>6, <1>9, <2>3 DEF RunnerInv, NoOverlap
  <2> QED BY <2>1, <2>2, <2>3
<1>14. Fresh(k)'
  <2>1. <<k, "outlived">> \in Outlived(k) => Fresh(k)'
    BY <1>6 DEF Fresh, Excused
  <2> QED BY <1>1, <1>6, <2>1, DeliverableIsFresh DEF RunnerInv
<1>15. DeliveriesAreFresh'
  BY <1>6, <1>9, <1>14 DEF RunnerInv, DeliveriesAreFresh, CallTypes, Busy
<1>16. ASSUME NEW x \in Keys PROVE Fresh(x)' \/ Settling(x)' \/ Receipted(x, journal)'
  <2>1. Settling(x) => Settling(x)'
    BY <1>1, <1>9 DEF Settling
  <2> QED BY <1>6, <1>14, <2>1 DEF RunnerInv, SuccessesAreKnown
<1> QED BY <1>6, <1>7, <1>10, <1>12, <1>13, <1>15, <1>16 DEF RunnerInv, ClaimsStand, SuccessesAreKnown

\* A rejection is a terminal record of now; a run it overtakes was outlived.
LEMMA RejectKept ==
  ASSUME RunnerInv, NEW k \in Keys, Reject(k)
  PROVE  RunnerInv'
<1>0. PICK r : r = Finished(k, "rejected")
  OBVIOUS
<1>1. /\ Deliverable(k) /\ AppendRecord(r, FALSE, Outlived(k))
      /\ now' = now /\ alive' = alive /\ lastOK' = lastOK /\ call' = call /\ trouble' = trouble
  BY <1>0 DEF Reject
<1>2. Appendable(r) /\ r.key = k /\ r.status = "rejected" /\ r.at = now
  BY <1>0, RecordsAreAppendable DEF RunnerInv, Status, Finished, Pending
<1>3. Outlived(k) \in SUBSET {<<k, "outlived">>}
  BY OutlivedIsSmall
<1>4. /\ appended' \in 0..MaxRecords /\ Ordered(journal)' /\ segments' \subseteq 1..appended'
      /\ excused' \subseteq Keys \X {"shed", "loose", "outlived"}
      /\ excused \cup Outlived(k) \subseteq excused'
      /\ NothingLost'
      /\ r \in Receipts /\ HasLatest(journal', k, r)
      /\ \A q \in Pids : /\ Busy(q) /\ ClaimStands(q, journal)
                         /\ call'[q] = call[q] /\ call[q].key # k
                         => ClaimStands(q, journal)'
      /\ \A x \in Keys : Fresh(x) => Fresh(x)'
      /\ \A x \in Keys : x # k /\ Receipted(x, journal) => Fresh(x)' \/ Receipted(x, journal)'
  BY <1>1, <1>2, <1>3, AppendKeeps DEF RunnerInv
<1>5. Types' /\ CallTypes'
  BY <1>1, <1>4 DEF RunnerInv, Types, CallTypes, Busy
<1>6. ASSUME NEW q \in Pids, Busy(q)' PROVE ClaimStands(q, journal)'
  <2>1. CASE call[q].key = k
    BY <1>1, <1>4, <1>6, <2>1, ClaimBlocks DEF RunnerInv, ClaimStands, Outlasted, Busy
  <2>2. CASE call[q].key # k
    BY <1>1, <1>4, <1>6, <2>2 DEF RunnerInv, ClaimsStand, Busy
  <2> QED BY <2>1, <2>2
<1>7. NoOverlap'
  BY <1>1, <1>4 DEF RunnerInv, NoOverlap
<1>8. DeliveriesAreFresh'
  BY <1>1, <1>4 DEF RunnerInv, DeliveriesAreFresh, CallTypes, Busy
<1>9. Fresh(k)' \/ Receipted(k, journal)'
  <2>1. lastOK[k] # None => r.at >= lastOK[k]
    BY <1>2 DEF RunnerInv, Types
  <2>2. lastOK[k] = None => Fresh(k)'
    BY <1>1 DEF Fresh
  <2>3. Terminal(r)'
    BY <1>2 DEF Terminal
  <2>4. HasLatest(journal, k, r)'
    BY <1>4 DEF HasLatest
  <2> QED BY <1>1, <1>4, <2>1, <2>2, <2>3, <2>4 DEF Receipted
<1>10. ASSUME NEW x \in Keys PROVE Fresh(x)' \/ Settling(x)' \/ Receipted(x, journal)'
  <2>1. Settling(x) => Settling(x)'
    BY <1>1 DEF Settling
  <2> QED BY <1>4, <1>9, <2>1 DEF RunnerInv, SuccessesAreKnown
<1> QED BY <1>4, <1>5, <1>6, <1>7, <1>8, <1>10 DEF RunnerInv, ClaimsStand, SuccessesAreKnown

\* A delivery either succeeds now, and is about to be recorded, or fails.
LEMMA DeliverKept ==
  ASSUME RunnerInv, NEW p \in Pids, Deliver(p)
  PROVE  RunnerInv'
<1>1. PICK ok \in BOOLEAN :
        /\ call' = [call EXCEPT ![p].pc = "settle", ![p].ok = ok]
        /\ lastOK' = IF ok THEN [lastOK EXCEPT ![call[p].key] = now] ELSE lastOK
  BY DEF Deliver
<1>2. /\ call[p].pc = "deliver" /\ call[p].key \in Keys
      /\ UNCHANGED <<now, journal, segments, appended, alive, excused, trouble>>
  BY DEF Deliver, store, RunnerInv, CallTypes, Busy
<1>3. call \in [Pids -> CallRecords]
  BY DEF RunnerInv, CallTypes
<1>4. /\ call' \in [Pids -> CallRecords]
      /\ call'[p].pc = "settle" /\ call'[p].ok = ok
      /\ \A q \in Pids : /\ call'[q].key = call[q].key /\ call'[q].since = call[q].since
                         /\ call'[q].expires = call[q].expires
                         /\ call'[q].pc # "idle" <=> call[q].pc # "idle"
                         /\ q # p => call'[q] = call[q]
  BY <1>1, <1>2, <1>3 DEF CallRecords
<1>5. /\ lastOK' \in [Keys -> Nat \cup {None}] /\ now \in Nat
      /\ \A k \in Keys : k # call[p].key => lastOK'[k] = lastOK[k]
      /\ ok => lastOK'[call[p].key] = now
      /\ ~ok => lastOK' = lastOK
  BY <1>1, <1>2 DEF RunnerInv, Types
<1>6. Types'
  BY <1>2, <1>5 DEF RunnerInv, Types, Ordered
<1>7. CallTypes'
  BY <1>2, <1>4 DEF RunnerInv, CallTypes, Busy
<1>8. NothingLost'
  BY <1>2 DEF RunnerInv, NothingLost
<1>9. ClaimsStand'
  BY <1>2, <1>4 DEF RunnerInv, ClaimsStand, ClaimStands, Busy, Outlasted, IsClaimOf, InFlight,
                    HasLatest, NoneOf
<1>10. NoOverlap'
  BY <1>2, <1>4 DEF RunnerInv, NoOverlap
<1>11. ASSUME NEW k \in Keys, Fresh(k), k # call[p].key \/ ~ok PROVE Fresh(k)'
  BY <1>2, <1>5, <1>11 DEF Fresh, Excused
<1>12. ASSUME NEW q \in Pids, (call[q].pc = "deliver")' PROVE Fresh(call[q].key)'
  <2>1. q # p /\ call'[q] = call[q] /\ call[q].key \in Keys
    BY <1>4, <1>12 DEF RunnerInv, CallTypes, Busy
  <2>2. CASE call[q].key = call[p].key
    BY <1>2, <1>12, <2>1, <2>2 DEF RunnerInv, NoOverlap, Fresh, Excused
  <2>3. CASE call[q].key # call[p].key
    BY <1>11, <1>12, <2>1, <2>3 DEF RunnerInv, DeliveriesAreFresh
  <2> QED BY <2>2, <2>3
<1>13. ASSUME NEW k \in Keys PROVE Fresh(k)' \/ Settling(k)' \/ Receipted(k, journal)'
  <2>1. CASE k = call[p].key /\ ok
    BY <1>4, <2>1 DEF Settling
  <2>2. CASE k # call[p].key \/ ~ok
    <3>1. lastOK'[k] = lastOK[k]
      BY <1>5, <2>2
    <3>2. Settling(k) => Settling(k)'
      BY <1>2, <1>4 DEF Settling
    <3>3. Receipted(k, journal) => Receipted(k, journal)'
      BY <1>2, <3>1 DEF Receipted, HasLatest, Terminal
    <3> QED BY <1>11, <2>2, <3>2, <3>3 DEF RunnerInv, SuccessesAreKnown
  <2> QED BY <2>1, <2>2
<1> QED BY <1>6, <1>7, <1>8, <1>9, <1>10, <1>12, <1>13
    DEF RunnerInv, DeliveriesAreFresh, SuccessesAreKnown

\* Steps that append nothing: a rewrite carries the journal over, calls go on,
\* end, or forget a success that is excused.
LEMMA QuietKept ==
  ASSUME RunnerInv, Types', NothingLost', now' = now, lastOK' = lastOK, excused \subseteq excused',
         NEW L, NEW E, Carried(L, E), journal' = L, E \subseteq excused',
         call' \in [Pids -> CallRecords],
         \A q \in Pids : \/ call'[q] = call[q]
                         \/ call'[q] = NoCall
                         \/ call[q].pc = "settle" /\ call'[q] = [call[q] EXCEPT !.ok = FALSE],
         \A q \in Pids : call'[q] = call[q] \/ Loose(q) \subseteq excused',
         \A q \in Pids : call'[q].pc # "idle" => q \in alive'
  PROVE  RunnerInv'
<1>1. ASSUME NEW q \in Pids, call'[q].pc # "idle"
      PROVE  /\ call'[q].key = call[q].key /\ call'[q].pc = call[q].pc
             /\ call'[q].since = call[q].since /\ call'[q].expires = call[q].expires
  <2>1. call[q] \in CallRecords
    BY DEF RunnerInv, CallTypes
  <2> QED BY <1>1, <2>1 DEF CallRecords, NoCall
<1>2. CallTypes'
  <2>1. ASSUME NEW q \in Pids, call'[q].pc = "idle" PROVE ~call'[q].ok
    <3>1. call[q] \in CallRecords
      BY DEF RunnerInv, CallTypes
    <3>2. call'[q] = call[q] \/ call'[q] = NoCall
      BY <2>1, <3>1 DEF CallRecords
    <3> QED BY <2>1, <3>2 DEF RunnerInv, CallTypes, Busy, NoCall
  <2> QED BY <1>1, <2>1 DEF RunnerInv, CallTypes, Busy
<1>3. ASSUME NEW q \in Pids, Busy(q)' PROVE ClaimStands(q, journal)'
  <2>1. Busy(q) /\ ClaimStands(q, journal)
    BY <1>1, <1>3 DEF RunnerInv, ClaimsStand, Busy
  <2>2. ClaimStands(q, L)
    BY <2>1, StandsCarried DEF RunnerInv
  <2> QED BY <1>1, <1>3, <2>2
      DEF ClaimStands, Busy, Outlasted, IsClaimOf, InFlight, HasLatest, NoneOf
<1>4. NoOverlap'
  <2> SUFFICES ASSUME NEW q \in Pids, NEW r \in Pids, q # r, call'[q].pc # "idle",
                      call'[r].pc # "idle", call'[q].key = call'[r].key
               PROVE  <<call'[q].key, "outlived">> \in excused'
    BY DEF NoOverlap
  <2> QED BY <1>1 DEF RunnerInv, NoOverlap
<1>5. ASSUME NEW k \in Keys, Fresh(k) PROVE Fresh(k)'
  BY <1>5 DEF Fresh, Excused
<1>6. DeliveriesAreFresh'
  <2> SUFFICES ASSUME NEW q \in Pids, (call[q].pc = "deliver")' PROVE Fresh(call[q].key)'
    BY DEF DeliveriesAreFresh
  <2>1. call[q].pc = "deliver" /\ call'[q].key = call[q].key /\ call[q].key \in Keys
    BY <1>1 DEF RunnerInv, CallTypes, Busy
  <2> QED BY <1>5, <2>1 DEF RunnerInv, DeliveriesAreFresh
<1>7. ASSUME NEW k \in Keys PROVE Fresh(k)' \/ Settling(k)' \/ Receipted(k, journal)'
  <2>1. CASE Fresh(k)
    BY <1>5, <2>1
  <2>2. ASSUME NEW q \in Pids, call[q].pc = "settle", call[q].ok, call[q].key = k
        PROVE  Fresh(k)' \/ Settling(k)'
    <3>1. CASE call'[q] = call[q]
      BY <2>2, <3>1 DEF Settling
    <3>2. CASE Loose(q) \subseteq excused'
      <4>1. <<k, "loose">> \in excused'
        BY <2>2, <3>2 DEF Loose
      <4> QED BY <4>1 DEF Fresh, Excused
    <3> QED BY <3>1, <3>2
  <2>3. CASE Receipted(k, journal)
    <3>1. Fresh(k) \/ <<k, "shed">> \in E \/ Receipted(k, L)
      BY <2>3, KnownCarried DEF RunnerInv
    <3>2. <<k, "shed">> \in E => Fresh(k)'
      BY DEF Fresh, Excused
    <3>3. Receipted(k, L) => Receipted(k, journal)'
      BY DEF Receipted, HasLatest, Terminal
    <3> QED BY <1>5, <3>1, <3>2, <3>3
  <2> QED BY <2>1, <2>2, <2>3 DEF RunnerInv, SuccessesAreKnown, Settling
<1> QED BY <1>2, <1>3, <1>4, <1>6, <1>7 DEF RunnerInv, ClaimsStand, SuccessesAreKnown

\* Nothing is carried over where nothing changes.
LEMMA SameCarries == Types => Carried(journal, {})
BY DEF Types, Carried

LEMMA LooseIsSmall ==
  ASSUME CallTypes, NEW p \in Pids
  PROVE  Loose(p) \subseteq Keys \X {"loose"}
BY DEF Loose, CallTypes

LEMMA SettleUnwrittenKept ==
  ASSUME RunnerInv, NEW p \in Pids, SettleUnwritten(p)
  PROVE  RunnerInv'
<1>1. /\ call[p].pc = "settle" /\ call' = [call EXCEPT ![p] = NoCall]
      /\ excused' = excused \cup Loose(p)
      /\ UNCHANGED <<now, journal, segments, appended, alive, lastOK>>
  BY DEF SettleUnwritten, store
<1>2. trouble' \in 0..MaxTrouble
  BY TroubleStays DEF SettleUnwritten, RunnerInv
<1>3. Loose(p) \subseteq Keys \X {"loose"}
  BY LooseIsSmall DEF RunnerInv
<1>4. excused' \subseteq Keys \X {"shed", "loose", "outlived"} /\ excused \subseteq excused'
  BY <1>1, <1>3 DEF RunnerInv, Types
<1>5. Types' /\ NothingLost'
  BY <1>1, <1>2, <1>4 DEF RunnerInv, Types, NothingLost, Ordered
<1>6. call \in [Pids -> CallRecords] /\ NoCall \in CallRecords
  BY DEF RunnerInv, CallTypes, CallRecords, NoCall
<1>7. /\ call' \in [Pids -> CallRecords] /\ call'[p] = NoCall /\ call'[p].pc = "idle"
      /\ \A q \in Pids : q # p => call'[q] = call[q]
  BY <1>1, <1>6 DEF NoCall
<1>8. \A q \in Pids : call'[q].pc # "idle" => q \in alive'
  BY <1>1, <1>7 DEF RunnerInv, CallTypes, Busy
<1>9. \A q \in Pids : \/ call'[q] = call[q]
                      \/ call'[q] = NoCall
                      \/ call[q].pc = "settle" /\ call'[q] = [call[q] EXCEPT !.ok = FALSE]
  BY <1>1, <1>7
<1>10. \A q \in Pids : call'[q] = call[q] \/ Loose(q) \subseteq excused'
  BY <1>1, <1>7
<1>11. Carried(journal, {})
  BY SameCarries DEF RunnerInv
<1>12. now' = now /\ lastOK' = lastOK /\ journal' = journal /\ {} \subseteq excused'
  BY <1>1
<1>13. excused \subseteq excused' /\ call' \in [Pids -> CallRecords]
  BY <1>4, <1>7
<1> QED BY <1>5, <1>8, <1>9, <1>10, <1>11, <1>12, <1>13, QuietKept

LEMMA LockTimeoutKept ==
  ASSUME RunnerInv, NEW p \in Pids, LockTimeout(p)
  PROVE  RunnerInv'
<1>1. /\ call[p].pc = "settle"
      /\ call' = [call EXCEPT ![p] = IF call[p].ok THEN [call[p] EXCEPT !.ok = FALSE] ELSE NoCall]
      /\ excused' = excused \cup Loose(p)
      /\ UNCHANGED <<now, journal, segments, appended, alive, lastOK>>
  BY DEF LockTimeout, store
<1>2. trouble' \in 0..MaxTrouble
  BY TroubleStays DEF LockTimeout, RunnerInv
<1>3. Loose(p) \subseteq Keys \X {"loose"}
  BY LooseIsSmall DEF RunnerInv
<1>4. excused' \subseteq Keys \X {"shed", "loose", "outlived"} /\ excused \subseteq excused'
  BY <1>1, <1>3 DEF RunnerInv, Types
<1>5. Types' /\ NothingLost'
  BY <1>1, <1>2, <1>4 DEF RunnerInv, Types, NothingLost, Ordered
<1>6. /\ call \in [Pids -> CallRecords] /\ NoCall \in CallRecords
      /\ [call[p] EXCEPT !.ok = FALSE] \in CallRecords
  BY DEF RunnerInv, CallTypes, CallRecords, NoCall
<1>7. /\ call' \in [Pids -> CallRecords]
      /\ call'[p] = [call[p] EXCEPT !.ok = FALSE] \/ call'[p] = NoCall
      /\ \A q \in Pids : q # p => call'[q] = call[q]
  BY <1>1, <1>6 DEF NoCall
<1>8. \A q \in Pids : call'[q].pc # "idle" => q \in alive'
  BY <1>1, <1>7 DEF RunnerInv, CallTypes, Busy
<1>9. \A q \in Pids : \/ call'[q] = call[q]
                      \/ call'[q] = NoCall
                      \/ call[q].pc = "settle" /\ call'[q] = [call[q] EXCEPT !.ok = FALSE]
  BY <1>1, <1>7
<1>10. \A q \in Pids : call'[q] = call[q] \/ Loose(q) \subseteq excused'
  BY <1>1, <1>7
<1>11. Carried(journal, {})
  BY SameCarries DEF RunnerInv
<1>12. now' = now /\ lastOK' = lastOK /\ journal' = journal /\ {} \subseteq excused'
  BY <1>1
<1>13. excused \subseteq excused' /\ call' \in [Pids -> CallRecords]
  BY <1>4, <1>7
<1> QED BY <1>5, <1>8, <1>9, <1>10, <1>11, <1>12, <1>13, QuietKept

LEMMA RestartKept ==
  ASSUME RunnerInv, NEW p \in Pids, Restart(p)
  PROVE  RunnerInv'
<1>1. /\ alive' = alive \cup {p}
      /\ UNCHANGED <<now, journal, segments, appended, call, lastOK, excused, trouble>>
  BY DEF Restart, store
<1>2. Types' /\ NothingLost' /\ CallTypes'
  BY <1>1 DEF RunnerInv, Types, NothingLost, Ordered, CallTypes, Busy
<1>3. ClaimsStand' /\ NoOverlap'
  BY <1>1 DEF RunnerInv, ClaimsStand, ClaimStands, Busy, Outlasted, IsClaimOf, InFlight,
              HasLatest, NoneOf, NoOverlap
<1>4. DeliveriesAreFresh' /\ SuccessesAreKnown'
  BY <1>1 DEF RunnerInv, DeliveriesAreFresh, SuccessesAreKnown, Fresh, Excused, Settling,
              Receipted, HasLatest, Terminal
<1> QED BY <1>2, <1>3, <1>4 DEF RunnerInv

\* A rotation keeps what claims need and excuses what it sheds.
LEMMA RotateKept ==
  ASSUME RunnerInv, NEW n \in 0..KeepStable, Rotate(n)
  PROVE  RunnerInv'
<1> DEFINE keep == RotationKeep(n)
<1>1. /\ journal' = Live(keep) /\ segments' = segments \cup DroppedIds(keep)
      /\ excused' = excused \cup Shed(keep)
      /\ UNCHANGED <<now, appended, alive, call, lastOK, trouble>>
  BY DEF Rotate, Split
<1>2. n \in Nat /\ now \in Nat
  BY TriggerAssumption DEF RunnerInv, Types
<1>3. Carried(Live(keep), Shed(keep))
  BY <1>2, RotationCarries DEF RunnerInv, Types, Split
<1>4. keep \in SUBSET DOMAIN journal
  BY DEF RotationKeep, DedupeWindow
<1>5. /\ DroppedIds(keep) \subseteq 1..appended
      /\ 1..appended \subseteq segments \cup DroppedIds(keep)
                              \cup {Live(keep)[i].id : i \in DOMAIN Live(keep)}
      /\ Shed(keep) \subseteq Keys \X {"shed"}
  BY <1>4, SplitKeepsAll DEF RunnerInv
<1> HIDE DEF keep
<1>6. Ordered(journal)'
  BY <1>1, <1>3 DEF Carried, Ordered
<1>7. Types' /\ NothingLost'
  BY <1>1, <1>5, <1>6 DEF RunnerInv, Types, NothingLost
<1>8. /\ call \in [Pids -> CallRecords]
      /\ \A q \in Pids : call'[q].pc # "idle" => q \in alive'
  BY <1>1 DEF RunnerInv, CallTypes, Busy
<1> QED BY <1>1, <1>3, <1>7, <1>8, QuietKept

\* A process dies with its call, between two steps or while it rewrites.
LEMMA CrashKept ==
  ASSUME RunnerInv, NEW p \in Pids, Crash(p)
  PROVE  RunnerInv'
<1>1. PICK fault \in BOOLEAN : \E x \in Compacted(fault) :
        /\ journal' = x.f.journal /\ segments' = x.f.segments
        /\ excused' = excused \cup Loose(p) \cup x.shed
  BY DEF Crash
<1>2. PICK x \in Compacted(fault) :
        /\ journal' = x.f.journal /\ segments' = x.f.segments
        /\ excused' = excused \cup Loose(p) \cup x.shed
  BY <1>1
<1>3. /\ alive' = alive \ {p} /\ call' = [call EXCEPT ![p] = NoCall]
      /\ UNCHANGED <<now, appended, lastOK>>
  BY DEF Crash
<1>4. trouble' \in 0..MaxTrouble
  BY TroubleStays DEF Crash, RunnerInv
<1>5. Carried(x.f.journal, x.shed)
  BY CompactedCarries DEF RunnerInv, Types
<1>6. /\ x.f.segments \subseteq 1..appended
      /\ 1..appended \subseteq x.f.segments \cup {x.f.journal[i].id : i \in DOMAIN x.f.journal}
      /\ x.shed \subseteq Keys \X {"shed"}
  BY CompactedKeepsAll DEF RunnerInv
<1>7. Loose(p) \subseteq Keys \X {"loose"}
  BY LooseIsSmall DEF RunnerInv
<1>8. excused' \subseteq Keys \X {"shed", "loose", "outlived"} /\ excused \subseteq excused'
  BY <1>2, <1>6, <1>7 DEF RunnerInv, Types
<1>9. Ordered(journal)'
  BY <1>2, <1>3, <1>5 DEF Carried, Ordered
<1>10. segments' \subseteq 1..appended' /\ NothingLost'
  BY <1>2, <1>3, <1>6 DEF NothingLost
<1>11. Types'
  BY <1>3, <1>4, <1>8, <1>9, <1>10 DEF RunnerInv, Types
<1>12. call \in [Pids -> CallRecords] /\ NoCall \in CallRecords
  BY DEF RunnerInv, CallTypes, CallRecords, NoCall
<1>13. /\ call' \in [Pids -> CallRecords] /\ call'[p] = NoCall /\ call'[p].pc = "idle"
       /\ \A q \in Pids : q # p => call'[q] = call[q]
  BY <1>3, <1>12 DEF NoCall
<1>14. \A q \in Pids : call'[q].pc # "idle" => q \in alive'
  BY <1>3, <1>13 DEF RunnerInv, CallTypes, Busy
<1>15. \A q \in Pids : call'[q] = call[q] \/ call'[q] = NoCall
  BY <1>13
<1>16. \A q \in Pids : call'[q] = call[q] \/ Loose(q) \subseteq excused'
  BY <1>2, <1>13
<1>17. x.shed \subseteq excused'
  BY <1>2
<1> QED BY <1>2, <1>3, <1>5, <1>8, <1>10, <1>11, <1>13, <1>14, <1>15, <1>16, <1>17, QuietKept

\* The clock ticks: what is outside the window stays outside it.
LEMMA TickKept ==
  ASSUME RunnerInv, Tick
  PROVE  RunnerInv'
<1>1. /\ now < MaxNow /\ now' = now + 1 /\ now \in Nat /\ MaxLease \in Nat /\ Window \in Nat
      /\ UNCHANGED <<journal, segments, appended, alive, call, lastOK, excused, trouble>>
  BY TriggerAssumption DEF Tick, store, RunnerInv, Types
<1>2. Ordered(journal)'
  BY <1>1 DEF RunnerInv, Types, Ordered
<1>3. Types'
  <2>1. now' \in 0..MaxNow
    BY <1>1, TriggerAssumption
  <2>2. \A k \in Keys : lastOK[k] # None => lastOK[k] <= now'
    BY <1>1 DEF RunnerInv, Types
  <2> QED BY <1>1, <1>2, <2>1, <2>2 DEF RunnerInv, Types
<1>4. NothingLost'
  BY <1>1 DEF RunnerInv, NothingLost
<1>5. CallTypes'
  <2>1. \A p \in Pids : call[p].since \in Nat
    BY DEF RunnerInv, CallTypes, CallRecords
  <2>2. \A p \in Pids : Busy(p) => call[p].since <= now'
    BY <1>1, <2>1 DEF RunnerInv, CallTypes
  <2> QED BY <1>1, <2>2 DEF RunnerInv, CallTypes, Busy
<1>6. ClaimsStand'
  <2>1. \A p \in Pids : call[p].expires \in Nat
    BY DEF RunnerInv, CallTypes, CallRecords
  <2>2. \A p \in Pids : call[p].expires + Window < now => call[p].expires + Window < now'
    BY <1>1, <2>1
  <2> QED BY <1>1, <2>2 DEF RunnerInv, ClaimsStand, ClaimStands, Busy, Outlasted, IsClaimOf,
             InFlight, HasLatest, NoneOf
<1>7. NoOverlap'
  BY <1>1 DEF RunnerInv, NoOverlap
<1>8. \A k \in Keys : Fresh(k) => Fresh(k)'
  BY <1>1, FreshStays DEF RunnerInv
<1>9. DeliveriesAreFresh'
  BY <1>1, <1>8 DEF RunnerInv, DeliveriesAreFresh, CallTypes, Busy
<1>10. SuccessesAreKnown'
  BY <1>1, <1>8 DEF RunnerInv, SuccessesAreKnown, Settling, Receipted, HasLatest, Terminal
<1> QED BY <1>3, <1>4, <1>5, <1>6, <1>7, <1>9, <1>10 DEF RunnerInv

\* A success is recorded; a failure replaces no receipt of a success, because
\* the run's own claim was the latest record.
LEMMA SettleKept ==
  ASSUME RunnerInv, NEW p \in Pids, Settle(p)
  PROVE  RunnerInv'
<1>a. PICK k \in Keys : k = call[p].key
  BY DEF Settle, RunnerInv, CallTypes, Busy
<1>0. PICK r : /\ k = call[p].key
               /\ r = Finished(k, IF call[p].ok THEN "delivered" ELSE "failed")
  BY <1>a
<1>1. /\ call[p].pc = "settle" /\ AppendRecord(r, FALSE, {})
      /\ call' = [call EXCEPT ![p] = NoCall]
      /\ UNCHANGED <<now, alive, lastOK, trouble>>
  BY <1>0 DEF Settle
<1>2. /\ Appendable(r) /\ r.key = k /\ r.at = now /\ (call[p].ok => Terminal(r))
  <2>1. (IF call[p].ok THEN "delivered" ELSE "failed") \in Status
    BY DEF Status
  <2>2. Appendable(r) /\ r.key = k
    BY <1>0, <2>1, RecordsAreAppendable DEF RunnerInv
  <2> QED BY <1>0, <2>2 DEF Finished, Pending, Terminal
<1>3. /\ appended' \in 0..MaxRecords /\ Ordered(journal)' /\ segments' \subseteq 1..appended'
      /\ excused' \subseteq Keys \X {"shed", "loose", "outlived"}
      /\ excused \subseteq excused'
      /\ NothingLost'
      /\ r \in Receipts /\ HasLatest(journal', k, r)
      /\ \A q \in Pids : /\ Busy(q) /\ ClaimStands(q, journal)
                         /\ call'[q] = call[q] /\ call[q].key # k
                         => ClaimStands(q, journal)'
      /\ \A x \in Keys : Fresh(x) => Fresh(x)'
      /\ \A x \in Keys : x # k /\ Receipted(x, journal) => Fresh(x)' \/ Receipted(x, journal)'
  BY <1>1, <1>2, AppendKeeps DEF RunnerInv
<1>4. Types'
  BY <1>1, <1>3 DEF RunnerInv, Types
<1>5. call \in [Pids -> CallRecords] /\ NoCall \in CallRecords
  BY DEF RunnerInv, CallTypes, CallRecords, NoCall
<1>6. /\ call' \in [Pids -> CallRecords] /\ call'[p] = NoCall /\ call'[p].pc = "idle"
      /\ \A q \in Pids : q # p => call'[q] = call[q]
  BY <1>1, <1>5 DEF NoCall
<1>7. CallTypes'
  BY <1>1, <1>6 DEF RunnerInv, CallTypes, Busy, NoCall
<1>8. ASSUME NEW q \in Pids, Busy(q)' PROVE ClaimStands(q, journal)'
  <2>1. q # p /\ call'[q] = call[q] /\ Busy(q)
    BY <1>6, <1>8 DEF Busy
  <2>2. CASE call[q].key = k
    BY <1>0, <1>1, <1>3, <2>1, <2>2 DEF RunnerInv, NoOverlap, ClaimStands, Outlasted, Busy
  <2>3. CASE call[q].key # k
    BY <1>3, <2>1, <2>3 DEF RunnerInv, ClaimsStand
  <2> QED BY <2>2, <2>3
<1>9. NoOverlap'
  <2> SUFFICES ASSUME NEW q \in Pids, NEW s \in Pids, q # s, call'[q].pc # "idle",
                      call'[s].pc # "idle", call'[q].key = call'[s].key
               PROVE  <<call'[q].key, "outlived">> \in excused'
    BY DEF NoOverlap
  <2> QED BY <1>3, <1>6 DEF RunnerInv, NoOverlap
<1>10. DeliveriesAreFresh'
  BY <1>3, <1>6 DEF RunnerInv, DeliveriesAreFresh, CallTypes, Busy
<1>11. Fresh(k)' \/ Settling(k)' \/ Receipted(k, journal)'
  <2>1. CASE call[p].ok
    <3>1. lastOK[k] # None => r.at >= lastOK[k]
      BY <1>2 DEF RunnerInv, Types
    <3>2. lastOK[k] = None => Fresh(k)'
      BY <1>1 DEF Fresh
    <3>3. HasLatest(journal, k, r)'
      BY <1>3 DEF HasLatest
    <3>4. Terminal(r)'
      BY <1>2, <2>1 DEF Terminal
    <3> QED BY <1>1, <1>3, <3>1, <3>2, <3>3, <3>4 DEF Receipted
  <2>2. CASE ~call[p].ok
    <3>1. Settling(k) => Settling(k)'
      BY <1>6, <2>2 DEF Settling
    <3>2. ASSUME NEW x \in Receipts, HasLatest(journal, k, x), Terminal(x) PROVE Fresh(k)
      <4>1. journal \in Seq(Receipts)
        BY DEF RunnerInv, Types, Ordered
      <4>2. ~NoneOf(journal, k) /\ \A y : HasLatest(journal, k, y) => y = x
        BY <3>2, <4>1, LatestIsOne
      <4>3. \A y : IsClaimOf(p, y) => ~Terminal(y)
        BY DEF IsClaimOf, InFlight, Terminal
      <4>4. ClaimStands(p, journal)
        BY <1>1 DEF RunnerInv, ClaimsStand, Busy
      <4>5. Outlasted(k)
        BY <1>0, <3>2, <4>2, <4>3, <4>4 DEF ClaimStands
      <4> QED BY <4>5 DEF Outlasted, Fresh, Excused
    <3> QED BY <1>3, <3>1, <3>2 DEF RunnerInv, SuccessesAreKnown, Receipted
  <2> QED BY <2>1, <2>2
<1>12. ASSUME NEW x \in Keys, x # k PROVE Fresh(x)' \/ Settling(x)' \/ Receipted(x, journal)'
  <2>1. Settling(x) => Settling(x)'
    BY <1>0, <1>6, <1>12 DEF Settling
  <2> QED BY <1>3, <1>12, <2>1 DEF RunnerInv, SuccessesAreKnown
<1> QED BY <1>3, <1>4, <1>7, <1>8, <1>9, <1>10, <1>11, <1>12
    DEF RunnerInv, ClaimsStand, SuccessesAreKnown
-----------------------------------------------------------------------------
\* The invariant is inductive.
LEMMA RunnerKept == RunnerInv /\ [Next]_vars => RunnerInv'
<1> SUFFICES ASSUME RunnerInv, [Next]_vars PROVE RunnerInv'
  OBVIOUS
<1>1. ASSUME NEW p \in Pids, NEW k \in Keys, NEW lease \in Leases, Claim(p, k, lease)
      PROVE  RunnerInv'
  BY <1>1, ClaimKept
<1>2. ASSUME NEW p \in Pids, Deliver(p) \/ Settle(p) \/ SettleUnwritten(p) \/ LockTimeout(p)
      PROVE  RunnerInv'
  BY <1>2, DeliverKept, SettleKept, SettleUnwrittenKept, LockTimeoutKept
<1>3. ASSUME NEW p \in Pids, Crash(p) \/ Restart(p) PROVE RunnerInv'
  BY <1>3, CrashKept, RestartKept
<1>4. ASSUME NEW k \in Keys, Reject(k) PROVE RunnerInv'
  BY <1>4, RejectKept
<1>5. ASSUME NEW n \in 0..KeepStable, Rotate(n) PROVE RunnerInv'
  BY <1>5, RotateKept
<1>6. CASE Tick
  BY <1>6, TickKept
<1>7. CASE UNCHANGED vars
  <2>1. /\ now' = now /\ journal' = journal /\ segments' = segments /\ appended' = appended
        /\ alive' = alive /\ call' = call /\ lastOK' = lastOK /\ excused' = excused
        /\ trouble' = trouble
    BY <1>7 DEF vars
  <2>2. Types' /\ CallTypes' /\ NothingLost'
    BY <2>1 DEF RunnerInv, Types, CallTypes, NothingLost, Ordered, Busy
  <2>3. ClaimsStand' /\ NoOverlap'
    BY <2>1 DEF RunnerInv, ClaimsStand, ClaimStands, NoOverlap, Busy, Outlasted, IsClaimOf,
                InFlight, HasLatest, NoneOf
  <2>4. DeliveriesAreFresh' /\ SuccessesAreKnown'
    BY <2>1 DEF RunnerInv, DeliveriesAreFresh, SuccessesAreKnown, Fresh, Excused, Settling,
                Receipted, HasLatest, Terminal
  <2> QED BY <2>2, <2>3, <2>4 DEF RunnerInv
<1> QED BY <1>1, <1>2, <1>3, <1>4, <1>5, <1>6, <1>7 DEF Next

LEMMA RunnerInvariant == Spec => []RunnerInv
BY InitRunner, RunnerKept, PTL DEF Spec

\* The state is well typed: in particular the ids in the journal and in the
\* segments are those of records appended, and only a live process has a call.
THEOREM RunnerTypes == Spec => []TypeOK
<1>1. RunnerInv => TypeOK
  BY DEF RunnerInv, Types, CallTypes, CallRecords, Ordered, Busy, TypeOK
<1> QED BY <1>1, RunnerInvariant, PTL

\* Every record ever appended is in the live journal or in a segment, whatever
\* rewrite failed or died (splitJournal).
THEOREM RecordsAreKept == Spec => []NothingLost
<1>1. RunnerInv => NothingLost
  BY DEF RunnerInv
<1> QED BY <1>1, RunnerInvariant, PTL

\* Two deliveries of one key are under way together only when a claim outlived
\* the dedupe window (TriggerRunner.run, retainTriggerDedupeWindow).
THEOREM DeliveriesDoNotOverlap == Spec => []NoOverlap
<1>1. RunnerInv => NoOverlap
  BY DEF RunnerInv
<1> QED BY <1>1, RunnerInvariant, PTL

\* An effect is repeated inside the window only with an excuse, for any keys,
\* processes, windows, leases and thresholds.
THEOREM EffectsAreNotRepeated == Spec => EffectNotRepeated
<1> DEFINE NotRepeated ==
      \A p \in Pids :
        LET k == call[p].key
        IN call[p].pc = "deliver" /\ call'[p].ok /\ lastOK[k] # None =>
             lastOK[k] < now - Window \/ Excused(k)
<1>1. RunnerInv => NotRepeated
  BY DEF RunnerInv, DeliveriesAreFresh, Fresh
<1>2. RunnerInv /\ [Next]_vars => [NotRepeated]_vars
  BY <1>1
<1> QED BY <1>2, RunnerInvariant, PTL DEF Spec, EffectNotRepeated
=============================================================================
