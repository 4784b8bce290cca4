------------------------ MODULE AppendOnlyStoreProofs ------------------------
(***************************************************************************)
(* TLAPS proofs about AppendOnlyStore, for any appenders, keys, policies,  *)
(* thresholds and bounds: copies are left behind only by a failure, no     *)
(* line is in the live file twice, older lines stay before newer ones, no  *)
(* line is lost, and a reader sees what was there before it began.         *)
(*                                                                         *)
(* A rewrite only reads its copies, so what they hold between the parking  *)
(* and the publication is what was moved aside and the appends that were   *)
(* open then. The first invariants say of these lines in which files they  *)
(* are; Gather's file then holds each of the chosen places once            *)
(* (GatherEnumerates).                                                     *)
(*                                                                         *)
(* The others go by an order of the lines. "Not older" is not transitive,  *)
(* for appends overlap; but in every state there are ranks that all        *)
(* appends and files agree with (Orders). A line that is late gets a rank  *)
(* in the middle, so a step may need other ranks, which follow the         *)
(* earlier ones on the lines that were there (OrderGoesOn). What stands    *)
(* for a line, in a file or for a reader, is then one of its key that      *)
(* ranks as high.                                                          *)
(***************************************************************************)
EXTENDS AppendOnlyStore, FiniteSetTheorems, SequenceTheorems,
        WellFoundedInduction, TLAPS

CopyRecord == [name : Nat, lines : Seq(Nat)]
MineRecord == [name : Nat, indexed : Nat, adopted : BOOLEAN]
Maintainer ==
  [pc : MaintainerPcs, run : {"none", "compact", "window", "merge"}, mine : Seq(MineRecord),
   round : Nat, temp : Seq(Nat), published : BOOLEAN, restored : BOOLEAN,
   failed : BOOLEAN, cleaned : BOOLEAN]
Types ==
  /\ policy.action \in {"compact", "window", "rotate"}
  /\ key \in Seq(Keys)
  /\ live \in Seq(Nat) \cup {None}
  /\ copies \in Seq(CopyRecord)
  /\ parks \in Nat /\ trouble \in Nat
  /\ app \in [Appenders -> [at : Int \cup {None}, line : Nat]]
  /\ m \in Maintainer

\* A copy has a name of its own, which was never used before; a run's copies are there.
NamesAreOwn ==
  /\ \A i, j \in DOMAIN copies : copies[i].name = copies[j].name => i = j
  /\ Names \subseteq 1..parks
MineIsParked ==
  /\ \A i, j \in DOMAIN m.mine : m.mine[i].name = m.mine[j].name => i = j
  /\ Mine \subseteq Names
OnlyMergesAdopt == m.run # "merge" => Own = DOMAIN m.mine
\* Without trouble every copy belongs to the run under way, which parked it.
AccountedFor == trouble = 0 => Names \subseteq Mine /\ Own = DOMAIN m.mine

\* An append that is open on the live file has one.
OpenIsLive == \A a \in Appenders : app[a].at = Live => live # None

CopyInv == Types /\ OpenIsLive /\ NamesAreOwn /\ MineIsParked /\ OnlyMergesAdopt /\ AccountedFor

\* No file has a line twice; they hold lines that were opened; a line whose append is
\* under way is in none of them and has one appender.
FilesAreInjective ==
  /\ live # None => IsInjective(live)
  /\ \A n \in Names : IsInjective(CopyLines(n))
LinesAreKnown ==
  /\ InFile(live) \subseteq Lines
  /\ \A n \in Names : ToSet(CopyLines(n)) \subseteq Lines
PendingIsNowhere ==
  \A a \in Appenders : app[a].at # None =>
    /\ app[a].line \in Lines \ InFile(live)
    /\ \A n \in Names : app[a].line \notin ToSet(CopyLines(n))
    /\ \A b \in Appenders : app[b].at # None /\ app[b].line = app[a].line => a = b
\* The result of a rewrite is a file like these.
Fits(f) ==
  /\ IsInjective(f) /\ ToSet(f) \subseteq Lines
  /\ \A a \in Appenders : app[a].at # None => app[a].line \notin ToSet(f)

\* Until the run's result is in place, its own copies share no line with each other
\* or with the live file, and a line that arrived after pass 1 is in no other file.
Rewriting == m.pc \in {"park", "look", "survivors", "publish", "restore", "restore_move"}
MineLines(i) == CopyLines(m.mine[i].name)
OwnIsDisjoint ==
  \A i \in Own :
    /\ ToSet(MineLines(i)) \cap InFile(live) = {}
    /\ \A j \in Own : i # j => ToSet(MineLines(i)) \cap ToSet(MineLines(j)) = {}
LateIsNowhereElse ==
  \A i \in DOMAIN m.mine : \A k \in DOMAIN MineLines(i) : k > m.mine[i].indexed =>
    /\ MineLines(i)[k] \notin InFile(live)
    /\ \A j \in DOMAIN m.mine : i # j => MineLines(i)[k] \notin ToSet(MineLines(j))

DoubleInv ==
  /\ CopyInv
  /\ FilesAreInjective /\ LinesAreKnown /\ PendingIsNowhere /\ Fits(m.temp)
  /\ Rewriting => OwnIsDisjoint /\ LateIsNowhereElse
-----------------------------------------------------------------------------
(* Files and copies *)

\* Appending a line.
LEMMA AppendedLine ==
  ASSUME NEW s \in Seq(Nat), NEW x \in Nat
  PROVE  /\ Append(s, x) \in Seq(Nat)
         /\ ToSet(Append(s, x)) = ToSet(s) \cup {x}
         /\ IsInjective(s) /\ x \notin ToSet(s) => IsInjective(Append(s, x))
<1> DEFINE t == Append(s, x)
<1>1. t \in Seq(Nat) /\ Len(t) = Len(s) + 1 /\ DOMAIN t = 1..(Len(s) + 1) /\ DOMAIN s = 1..Len(s)
      /\ t[Len(s) + 1] = x /\ \A i \in DOMAIN s : t[i] = s[i]
  BY LenProperties
<1>2. ToSet(t) = ToSet(s) \cup {x}
  BY <1>1, LenProperties DEF ToSet
<1>3. ASSUME IsInjective(s), x \notin ToSet(s)  PROVE IsInjective(t)
  BY <1>1, <1>3, LenProperties DEF ToSet, IsInjective
<1> QED BY <1>1, <1>2, <1>3

\* A set of natural numbers has a least one.
LEMMA LeastNat ==
  ASSUME NEW S \in SUBSET Nat, S # {}
  PROVE  \E i \in S : \A j \in S : i <= j
<1>1. IsWellFoundedOn(OpToRel(<, Nat), Nat)
  BY NatLessThanWellFounded
<1>2. PICK i \in S : \A j \in S : <<j, i>> \notin OpToRel(<, Nat)
  BY <1>1, WFMin
<1>3. \A j \in S : ~(j < i)
  BY <1>2 DEF OpToRel
<1> QED BY <1>3

\* Removing the element at c: what is now at i was there or one further.
Skip(c, i) == IF i < c THEN i ELSE i + 1
LEMMA RemovedAt ==
  ASSUME NEW S, NEW s \in Seq(S), NEW c \in 1..Len(s), NEW t, t = RemoveAt(s, c)
  PROVE  /\ t \in Seq(S) /\ DOMAIN t = 1..(Len(s) - 1)
         /\ \A i \in DOMAIN t : t[i] = s[Skip(c, i)] /\ Skip(c, i) \in DOMAIN s \ {c}
         /\ \A i, j \in DOMAIN t : i < j => Skip(c, i) < Skip(c, j)
         /\ \A k \in DOMAIN s \ {c} : \E i \in DOMAIN t : Skip(c, i) = k
<1> DEFINE l == SubSeq(s, 1, c - 1)
           r == SubSeq(s, c + 1, Len(s))
<1>1. Len(s) \in Nat /\ DOMAIN s = 1..Len(s) /\ \A i \in 1..Len(s) : s[i] \in S
  BY LenProperties, ElementOfSeq
<1>2. l \in Seq(S) /\ Len(l) = c - 1 /\ \A i \in 1..(c - 1) : l[i] = s[i]
  <2>1. \A i \in 1..(c - 1) : s[i] \in S
    BY <1>1
  <2>2. /\ l \in Seq(S) /\ Len(l) = IF 1 <= c - 1 THEN (c - 1) - 1 + 1 ELSE 0
        /\ \A i \in 1..((c - 1) - 1 + 1) : l[i] = s[1 + i - 1]
    BY <2>1, SubSeqProperties
  <2> QED BY <1>1, <2>2
<1>3. r \in Seq(S) /\ Len(r) = Len(s) - c /\ \A i \in 1..(Len(s) - c) : r[i] = s[i + c]
  <2>1. \A i \in (c + 1)..Len(s) : s[i] \in S
    BY <1>1
  <2>2. /\ r \in Seq(S) /\ Len(r) = IF c + 1 <= Len(s) THEN Len(s) - (c + 1) + 1 ELSE 0
        /\ \A i \in 1..(Len(s) - (c + 1) + 1) : r[i] = s[(c + 1) + i - 1]
    BY <1>1, <2>1, SubSeqProperties
  <2> HIDE DEF r
  <2>3. Len(r) = Len(s) - c
    <3>1. Len(s) \in Nat /\ c \in Nat /\ c <= Len(s)
      BY <1>1
    <3>2. Len(r) = IF c + 1 <= Len(s) THEN Len(s) - (c + 1) + 1 ELSE 0
      BY <2>2
    <3>3. CASE c < Len(s)
      BY <3>1, <3>2, <3>3
    <3>4. CASE c = Len(s)
      BY <3>1, <3>2, <3>4
    <3> QED BY <3>1, <3>3, <3>4
  <2>4. ASSUME NEW i \in 1..(Len(s) - c)  PROVE r[i] = s[i + c]
    <3>1. i \in 1..(Len(s) - (c + 1) + 1) /\ (c + 1) + i - 1 = i + c
      BY <1>1
    <3>2. r[i] = s[(c + 1) + i - 1]
      BY <3>1, <2>2
    <3> QED BY <3>1, <3>2
  <2> QED BY <2>2, <2>3, <2>4
<1> HIDE DEF l, r
<1>4. t = l \o r
  BY DEF RemoveAt, l, r
<1>5. t \in Seq(S) /\ Len(t) = Len(s) - 1
      /\ \A i \in 1..(Len(s) - 1) : t[i] = IF i <= c - 1 THEN l[i] ELSE r[i - (c - 1)]
  <2>1. /\ t \in Seq(S) /\ Len(t) = Len(l) + Len(r)
        /\ \A i \in 1..(Len(l) + Len(r)) : t[i] = IF i <= Len(l) THEN l[i] ELSE r[i - Len(l)]
    <3>1. l \in Seq(S) /\ r \in Seq(S)
      BY <1>2, <1>3
    <3> QED BY <3>1, <1>4, ConcatProperties
  <2> QED BY <1>1, <1>2, <1>3, <2>1
<1>6. DOMAIN t = 1..(Len(s) - 1)
  BY <1>5, LenProperties
<1>7. ASSUME NEW i \in DOMAIN t  PROVE t[i] = s[Skip(c, i)] /\ Skip(c, i) \in DOMAIN s \ {c}
  <2>1. CASE i < c
    BY <2>1, <1>1, <1>2, <1>5, <1>6 DEF Skip
  <2>2. CASE i >= c
    <3>1. i - (c - 1) \in 1..(Len(s) - c) /\ i \in 1..(Len(s) - 1) /\ ~(i <= c - 1)
      BY <2>2, <1>1, <1>6
    <3>4. t[i] = r[i - (c - 1)]
      BY <3>1, <1>5
    <3>2. r[i - (c - 1)] = s[(i - (c - 1)) + c]
      BY <3>1, <1>3
    <3>3. (i - (c - 1)) + c = i + 1
      BY <1>6
    <3> QED BY <2>2, <1>1, <1>6, <3>2, <3>3, <3>4 DEF Skip
  <2> QED BY <2>1, <2>2, <1>6
<1>8. \A i, j \in DOMAIN t : i < j => Skip(c, i) < Skip(c, j)
  BY <1>6 DEF Skip
<1>9. ASSUME NEW k \in DOMAIN s \ {c}  PROVE \E i \in DOMAIN t : Skip(c, i) = k
  <2>1. CASE k < c
    BY <2>1, <1>1, <1>6 DEF Skip
  <2>2. CASE k > c
    <3>1. k - 1 \in DOMAIN t /\ Skip(c, k - 1) = k
      BY <2>2, <1>1, <1>6 DEF Skip
    <3> QED BY <3>1
  <2> QED BY <2>1, <2>2, <1>1
<1> QED BY <1>5, <1>6, <1>7, <1>8, <1>9

\* The name of a copy leads to it.
LEMMA CopyNamed ==
  ASSUME NEW n \in Names
  PROVE  Copy(n) \in DOMAIN copies /\ copies[Copy(n)].name = n
BY Zenon DEF Copy, Names
LEMMA CopyNamedNext ==
  ASSUME NEW n \in Names'
  PROVE  Copy(n)' \in DOMAIN copies' /\ copies'[Copy(n)'].name = n
BY Zenon DEF Copy, Names

\* What the name of a copy gives, and what no name gives.
LEMMA CopyFound ==
  ASSUME Types, NamesAreOwn
  PROVE  /\ \A i \in DOMAIN copies : copies[i].name \in Names /\ Copy(copies[i].name) = i
         /\ \A n \in Names : Copy(n) \in DOMAIN copies /\ copies[Copy(n)].name = n
                            /\ CopyLines(n) = copies[Copy(n)].lines
         /\ \A n : CopyLines(n) \in Seq(Nat)
         /\ None \notin Names
<1>1. copies \in Seq(CopyRecord) /\ DOMAIN copies = 1..Len(copies)
      /\ \A i \in DOMAIN copies : copies[i] \in CopyRecord
  BY LenProperties, ElementOfSeq DEF Types
<1>2. ASSUME NEW n \in Names  PROVE Copy(n) \in DOMAIN copies /\ copies[Copy(n)].name = n
  BY CopyNamed
<1>3. \A i \in DOMAIN copies : copies[i].name \in Names /\ Copy(copies[i].name) = i
  BY <1>2 DEF Names, NamesAreOwn
<1>4. \A n : CopyLines(n) \in Seq(Nat)
  BY <1>1, <1>2 DEF CopyLines, CopyRecord
<1>5. None \notin Names
  <2>1. \A n \in Names : n \in Int
    BY DEF NamesAreOwn, Types
  <2> QED BY <2>1, NoneIsNoFile
<1> QED BY <1>2, <1>3, <1>4, <1>5 DEF CopyLines

\* A line written to a copy.
LEMMA CopyGrows ==
  ASSUME Types, NamesAreOwn, NEW n \in Names, NEW x \in Nat,
         copies' = [copies EXCEPT ![Copy(n)].lines = Append(@, x)]
  PROVE  /\ copies' \in Seq(CopyRecord) /\ Names' = Names
         /\ \A i, j \in DOMAIN copies' : copies'[i].name = copies'[j].name => i = j
         /\ \A k : CopyLines(k)' = IF k = n THEN Append(CopyLines(n), x) ELSE CopyLines(k)
<1>1. copies \in Seq(CopyRecord) /\ DOMAIN copies = 1..Len(copies)
      /\ \A i \in DOMAIN copies : copies[i] \in CopyRecord
  BY LenProperties, ElementOfSeq DEF Types
<1>2. Copy(n) \in DOMAIN copies /\ copies[Copy(n)].name = n /\ CopyLines(n) = copies[Copy(n)].lines
  BY CopyFound
<1>3. DOMAIN copies' = DOMAIN copies
      /\ \A i \in DOMAIN copies : copies'[i] = IF i = Copy(n) THEN [copies[i] EXCEPT !.lines = Append(@, x)] ELSE copies[i]
  BY <1>1
<1>4. \A i \in DOMAIN copies : copies'[i] \in CopyRecord /\ copies'[i].name = copies[i].name
        /\ copies'[i].lines = IF i = Copy(n) THEN Append(copies[i].lines, x) ELSE copies[i].lines
  BY <1>1, <1>3, AppendedLine DEF CopyRecord
<1>5. copies' \in Seq(CopyRecord)
  <2> DEFINE e == [copies[Copy(n)] EXCEPT !.lines = Append(@, x)]
  <2>1. copies' = [copies EXCEPT ![Copy(n)] = e]
    BY <1>1, <1>2
  <2>2. e \in CopyRecord
    BY <1>2, <1>3, <1>4
  <2> HIDE DEF e
  <2> QED BY <1>1, <1>2, <2>1, <2>2, ExceptSeq
<1>6. Names' = Names
  BY <1>3, <1>4 DEF Names
<1>7. \A i, j \in DOMAIN copies' : copies'[i].name = copies'[j].name => i = j
  BY <1>3, <1>4 DEF NamesAreOwn
<1>8. ASSUME NEW k  PROVE CopyLines(k)' = IF k = n THEN Append(CopyLines(n), x) ELSE CopyLines(k)
  <2>1. CASE k \notin Names
    BY <2>1, <1>6 DEF CopyLines
  <2>2. CASE k \in Names
    <3>1. Copy(k) \in DOMAIN copies /\ copies[Copy(k)].name = k /\ CopyLines(k) = copies[Copy(k)].lines
      BY <2>2, CopyFound
    <3>2. Copy(k)' \in DOMAIN copies' /\ copies'[Copy(k)'].name = k
      <4>1. k \in Names'
        BY <2>2, <1>6
      <4> QED BY <4>1, CopyNamedNext
    <3>3. Copy(k)' = Copy(k)
      BY <3>1, <3>2, <1>3, <1>4 DEF NamesAreOwn
    <3>4. CopyLines(k)' = copies'[Copy(k)].lines
      BY <2>2, <1>6, <3>3 DEF CopyLines
    <3>5. Copy(k) = Copy(n) <=> k = n
      BY <3>1, <1>2
    <3> QED BY <3>1, <3>4, <3>5, <1>2, <1>4
  <2> QED BY <2>1, <2>2
<1> QED BY <1>5, <1>6, <1>7, <1>8

\* The live file parked under a new name.
LEMMA CopyAdded ==
  ASSUME Types, NamesAreOwn, live \in Seq(Nat),
         copies' = Append(copies, [name |-> parks + 1, lines |-> live])
  PROVE  /\ copies' \in Seq(CopyRecord) /\ Names' = Names \cup {parks + 1} /\ parks + 1 \notin Names
         /\ \A i, j \in DOMAIN copies' : copies'[i].name = copies'[j].name => i = j
         /\ \A k : CopyLines(k)' = IF k = parks + 1 THEN live ELSE CopyLines(k)
<1> DEFINE N == Len(copies) + 1
<1>1. copies \in Seq(CopyRecord) /\ DOMAIN copies = 1..Len(copies) /\ Len(copies) \in Nat
      /\ \A i \in DOMAIN copies : copies[i] \in CopyRecord
  BY LenProperties, ElementOfSeq DEF Types
<1>2. [name |-> parks + 1, lines |-> live] \in CopyRecord
  BY DEF Types, CopyRecord
<1>3. copies' \in Seq(CopyRecord) /\ DOMAIN copies' = 1..N
      /\ copies'[N] = [name |-> parks + 1, lines |-> live]
      /\ \A i \in DOMAIN copies : copies'[i] = copies[i]
  BY <1>1, <1>2, LenProperties
<1>4. parks + 1 \notin Names
  BY DEF NamesAreOwn, Types
<1>5. Names' = Names \cup {parks + 1}
  BY <1>1, <1>3 DEF Names
<1>6. \A i, j \in DOMAIN copies' : copies'[i].name = copies'[j].name => i = j
  <2>1. \A i \in DOMAIN copies : copies'[i].name \in Names
    BY <1>3 DEF Names
  <2> QED BY <2>1, <1>1, <1>3, <1>4 DEF NamesAreOwn
<1>7. ASSUME NEW k  PROVE CopyLines(k)' = IF k = parks + 1 THEN live ELSE CopyLines(k)
  <2>1. CASE k \notin Names /\ k # parks + 1
    BY <2>1, <1>5 DEF CopyLines
  <2>2. CASE k = parks + 1
    <3>1. Copy(k)' \in DOMAIN copies' /\ copies'[Copy(k)'].name = k
      <4>1. k \in Names'
        BY <2>2, <1>5
      <4> QED BY <4>1, CopyNamedNext
    <3>2. N \in DOMAIN copies' /\ copies'[N].name = k
      BY <2>2, <1>1, <1>3
    <3>3. Copy(k)' = N
      BY <3>1, <3>2, <1>6
    <3> QED BY <2>2, <3>3, <1>3, <1>5 DEF CopyLines
  <2>3. CASE k \in Names
    <3>1. Copy(k) \in DOMAIN copies /\ copies[Copy(k)].name = k /\ CopyLines(k) = copies[Copy(k)].lines
      BY <2>3, CopyFound
    <3>2. Copy(k)' \in DOMAIN copies' /\ copies'[Copy(k)'].name = k
      <4>1. k \in Names'
        BY <2>3, <1>5
      <4> QED BY <4>1, CopyNamedNext
    <3>3. Copy(k)' = Copy(k)
      <4>1. Copy(k) \in DOMAIN copies' /\ copies'[Copy(k)].name = k
        BY <3>1, <1>1, <1>3
      <4> QED BY <4>1, <3>2, <1>6
    <3> QED BY <2>3, <1>4, <3>1, <3>3, <1>3, <1>5 DEF CopyLines
  <2> QED BY <2>1, <2>2, <2>3
<1> QED BY <1>3, <1>4, <1>5, <1>6, <1>7

\* A copy removed.
LEMMA CopyGone ==
  ASSUME Types, NamesAreOwn, NEW n \in Names, copies' = RemoveAt(copies, Copy(n))
  PROVE  /\ copies' \in Seq(CopyRecord) /\ Names' = Names \ {n}
         /\ \A i, j \in DOMAIN copies' : copies'[i].name = copies'[j].name => i = j
         /\ \A k : CopyLines(k)' = IF k = n THEN <<>> ELSE CopyLines(k)
<1> DEFINE c == Copy(n)
<1>0. copies \in Seq(CopyRecord)
  BY DEF Types
<1>1. DOMAIN copies = 1..Len(copies) /\ Len(copies) \in Nat
      /\ \A i \in DOMAIN copies : copies[i] \in CopyRecord
  BY <1>0, LenProperties, ElementOfSeq
<1>2. c \in 1..Len(copies) /\ copies[c].name = n
  BY <1>1, CopyFound
<1> HIDE DEF c
<1>3. copies' = RemoveAt(copies, c)
  BY DEF c
<1>4. /\ copies' \in Seq(CopyRecord) /\ DOMAIN copies' = 1..(Len(copies) - 1)
      /\ \A i \in DOMAIN copies' : copies'[i] = copies[Skip(c, i)] /\ Skip(c, i) \in DOMAIN copies \ {c}
      /\ \A i, j \in DOMAIN copies' : i < j => Skip(c, i) < Skip(c, j)
      /\ \A k \in DOMAIN copies \ {c} : \E i \in DOMAIN copies' : Skip(c, i) = k
  BY <1>0, <1>2, <1>3, RemovedAt
<1>5. \A i, j \in DOMAIN copies' : Skip(c, i) = Skip(c, j) => i = j
  BY <1>4 DEF Skip
<1>6. \A i, j \in DOMAIN copies' : copies'[i].name = copies'[j].name => i = j
  BY <1>4, <1>5 DEF NamesAreOwn
<1>7. Names' = Names \ {n}
  <2>1. ASSUME NEW i \in DOMAIN copies'  PROVE copies'[i].name \in Names \ {n}
    BY <1>1, <1>2, <1>4, <1>5 DEF Names, NamesAreOwn
  <2>2. ASSUME NEW k \in Names \ {n}  PROVE \E i \in DOMAIN copies' : copies'[i].name = k
    BY <1>2, <1>4, <1>5 DEF Names
  <2> QED BY <2>1, <2>2 DEF Names
<1>8. ASSUME NEW k  PROVE CopyLines(k)' = IF k = n THEN <<>> ELSE CopyLines(k)
  <2>1. CASE k \notin Names \ {n}
    BY <2>1, <1>7 DEF CopyLines
  <2>2. CASE k \in Names \ {n}
    <3>1. Copy(k)' \in DOMAIN copies' /\ copies'[Copy(k)'].name = k
      <4>1. k \in Names'
        BY <2>2, <1>7
      <4> QED BY <4>1, CopyNamedNext
    <3>2. copies[Skip(c, Copy(k)')].name = k /\ Skip(c, Copy(k)') \in DOMAIN copies
          /\ copies'[Copy(k)'].lines = copies[Skip(c, Copy(k)')].lines
      BY <3>1, <1>4, <1>5
    <3>3. Copy(k) = Skip(c, Copy(k)')
      BY <3>2, CopyFound
    <3> QED BY <2>2, <3>2, <3>3, <1>7 DEF CopyLines
  <2> QED BY <2>1, <2>2
<1> QED BY <1>4, <1>6, <1>7, <1>8

-----------------------------------------------------------------------------
(* The file that holds the lines at some places *)

RankIn(P, p) == Cardinality({q \in P : Precedes(q, p)})

\* The ranks number the places in their order, without gaps.
LEMMA RanksEnumerate ==
  ASSUME NEW P \in SUBSET (Nat \X Nat), IsFiniteSet(P)
  PROVE  /\ Cardinality(P) \in Nat
         /\ \A p \in P : RankIn(P, p) \in 1..Cardinality(P)
         /\ \A p, q \in P : p # q /\ Precedes(p, q) => RankIn(P, p) < RankIn(P, q)
         /\ \A p, q \in P : RankIn(P, p) = RankIn(P, q) => p = q
         /\ \A k \in 1..Cardinality(P) : \E p \in P : RankIn(P, p) = k
<1> DEFINE Upto(p) == {q \in P : Precedes(q, p)}
<1>1. ASSUME NEW p \in P  PROVE p \in Nat \X Nat /\ p[1] \in Nat /\ p[2] \in Nat /\ p = <<p[1], p[2]>>
  OBVIOUS
<1>2. ASSUME NEW p \in P  PROVE p \in Upto(p) /\ Upto(p) \in SUBSET P
  BY <1>1 DEF Precedes
<1>3. ASSUME NEW p \in P, NEW q \in P, p # q, Precedes(p, q)
      PROVE  Upto(p) \in SUBSET Upto(q) /\ q \notin Upto(p)
  BY <1>1, <1>3 DEF Precedes
<1>4. \A p, q \in P : Precedes(p, q) \/ Precedes(q, p)
  BY <1>1 DEF Precedes
<1>5. Cardinality(P) \in Nat
  BY FS_CardinalityType
<1>6. ASSUME NEW p \in P  PROVE IsFiniteSet(Upto(p)) /\ Cardinality(Upto(p)) \in 1..Cardinality(P)
  <2>1. IsFiniteSet(Upto(p)) /\ Cardinality(Upto(p)) <= Cardinality(P)
    BY <1>2, FS_Subset
  <2>2. Cardinality(Upto(p)) \in Nat
    BY <2>1, FS_CardinalityType
  <2>3. Cardinality(Upto(p)) # 0
    BY <2>1, <1>2, FS_EmptySet
  <2> QED BY <1>5, <2>1, <2>2, <2>3
<1>7. ASSUME NEW p \in P, NEW q \in P, p # q, Precedes(p, q)
      PROVE  Cardinality(Upto(p)) < Cardinality(Upto(q))
  <2>1. IsFiniteSet(Upto(q)) /\ Upto(p) \in SUBSET Upto(q) /\ Upto(p) # Upto(q)
    BY <1>2, <1>3, <1>6, <1>7
  <2>2. Cardinality(Upto(p)) <= Cardinality(Upto(q)) /\ Cardinality(Upto(p)) # Cardinality(Upto(q))
    BY <2>1, FS_Subset
  <2>3. Cardinality(Upto(p)) \in Nat /\ Cardinality(Upto(q)) \in Nat
    BY <1>6
  <2> QED BY <2>2, <2>3
<1>8. \A p \in P : RankIn(P, p) = Cardinality(Upto(p))
  BY DEF RankIn
<1> HIDE DEF Upto
<1>9. \A p \in P : RankIn(P, p) \in 1..Cardinality(P)
  BY <1>6, <1>8
<1>10. \A p, q \in P : p # q /\ Precedes(p, q) => RankIn(P, p) < RankIn(P, q)
  BY <1>7, <1>8
<1>11. \A p, q \in P : RankIn(P, p) = RankIn(P, q) => p = q
  BY <1>4, <1>9, <1>10
<1> DEFINE f == [p \in P |-> RankIn(P, p)]
           K == 1..Cardinality(P)
<1>12. f \in Injection(P, K)
  BY <1>9, <1>11 DEF Injection, IsInjective
<1>13. IsFiniteSet(K) /\ Cardinality(K) = Cardinality(P)
  BY <1>5, FS_Interval
<1>14. f \in Surjection(P, K)
  BY <1>12, <1>13, FS_Injection
<1>15. \A k \in K : \E p \in P : f[p] = k
  BY <1>14 DEF Surjection
<1> QED BY <1>5, <1>9, <1>10, <1>11, <1>15

\* Gather holds the lines at the places P, each place once, in their order.
LEMMA GatherEnumerates ==
  ASSUME NEW P \in SUBSET (Nat \X Nat), IsFiniteSet(P), \A p \in P : LineAt(p) \in Nat
  PROVE  /\ Gather(P) \in Seq(Nat) /\ DOMAIN Gather(P) = 1..Cardinality(P)
         /\ \E f \in [1..Cardinality(P) -> P] :
              /\ \A k \in 1..Cardinality(P) : Gather(P)[k] = LineAt(f[k])
              /\ \A j, k \in 1..Cardinality(P) : j < k => f[j] # f[k] /\ Precedes(f[j], f[k])
              /\ \A p \in P : \E k \in 1..Cardinality(P) : f[k] = p
<1> DEFINE K == 1..Cardinality(P)
           At(k) == CHOOSE p \in P : RankIn(P, p) = k
           f == [k \in K |-> At(k)]
<1>1. Cardinality(P) \in Nat
  BY RanksEnumerate
<1>2. ASSUME NEW k \in K  PROVE At(k) \in P /\ RankIn(P, At(k)) = k
  BY RanksEnumerate
<1>3. Gather(P) = [k \in K |-> LineAt(At(k))]
  BY DEF Gather, RankIn
<1> HIDE DEF At
<1>4. f \in [K -> P]
  BY <1>2
<1>5. Gather(P) \in [K -> Nat] /\ DOMAIN Gather(P) = K
  BY <1>2, <1>3
<1>6. \A k \in K : Gather(P)[k] = LineAt(f[k])
  BY <1>3
<1>7. ASSUME NEW j \in K, NEW k \in K, j < k  PROVE f[j] # f[k] /\ Precedes(f[j], f[k])
  <2>1. f[j] \in P /\ f[k] \in P /\ RankIn(P, f[j]) = j /\ RankIn(P, f[k]) = k
    BY <1>2
  <2>2. f[j] # f[k]
    BY <2>1, <1>7
  <2>3. Precedes(f[j], f[k]) \/ Precedes(f[k], f[j])
    BY <2>1 DEF Precedes
  <2>4. ~Precedes(f[k], f[j])
    <3>1. SUFFICES ASSUME Precedes(f[k], f[j])  PROVE FALSE
      OBVIOUS
    <3>2. RankIn(P, f[k]) < RankIn(P, f[j])
      BY <2>1, <2>2, <3>1, RanksEnumerate
    <3> QED BY <2>1, <3>2, <1>7
  <2> QED BY <2>2, <2>3, <2>4
<1>8. ASSUME NEW p \in P  PROVE \E k \in K : f[k] = p
  <2>1. RankIn(P, p) \in K
    BY RanksEnumerate
  <2>2. At(RankIn(P, p)) = p
    BY <2>1, <1>2, RanksEnumerate
  <2> QED BY <2>1, <2>2
<1>9. Gather(P) \in Seq(Nat)
  BY <1>1, <1>5
<1> HIDE DEF f
<1> QED BY <1>4, <1>5, <1>6, <1>7, <1>8, <1>9

\* The places of a run's copies.
LEMMA PlacesHold ==
  ASSUME Types, NamesAreOwn, NEW N \in SUBSET DOMAIN m.mine
  PROVE  /\ Places(N) \in SUBSET (Nat \X Nat) /\ IsFiniteSet(Places(N))
         /\ \A p \in Places(N) :
              /\ p[1] \in N /\ p[2] \in DOMAIN MineLines(p[1]) /\ p = <<p[1], p[2]>>
              /\ LineAt(p) = MineLines(p[1])[p[2]] /\ LineAt(p) \in Nat
         /\ \A n \in N : \A i \in DOMAIN MineLines(n) : <<n, i>> \in Places(N)
<1> DEFINE S(n) == {n} \X DOMAIN MineLines(n)
           SS == {S(n) : n \in N}
<1>1. DOMAIN m.mine = 1..Len(m.mine) /\ Len(m.mine) \in Nat
  BY LenProperties DEF Types, Maintainer
<1>2. \A n : MineLines(n) \in Seq(Nat)
  BY CopyFound DEF MineLines
<1>3. \A n : DOMAIN MineLines(n) = 1..Len(MineLines(n)) /\ Len(MineLines(n)) \in Nat
  BY <1>2, LenProperties
<1>4. Places(N) = UNION SS
  BY DEF Places, MineLines
<1>5. IsFiniteSet(SS)
  <2> DEFINE f == [n \in N |-> S(n)]
  <2>1. IsFiniteSet(N)
    <3>1. IsFiniteSet(1..Len(m.mine))
      BY <1>1, FS_Interval
    <3> QED BY <1>1, <3>1, FS_Subset
  <2>2. f \in Surjection(N, SS)
    BY DEF Surjection
  <2> QED BY <2>1, <2>2, FS_Surjection
<1>6. ASSUME NEW T \in SS  PROVE IsFiniteSet(T)
  <2>1. PICK n \in N : T = S(n)
    OBVIOUS
  <2>2. IsFiniteSet({n}) /\ IsFiniteSet(DOMAIN MineLines(n))
    <3>1. IsFiniteSet(1..Len(MineLines(n)))
      BY <1>3, FS_Interval
    <3> QED BY <1>3, <3>1, FS_Singleton
  <2> QED BY <2>1, <2>2, FS_Product
<1>7. IsFiniteSet(Places(N))
  BY <1>4, <1>5, <1>6, FS_UNION
<1>8. \A p : p \in Places(N) <=> \E n \in N : \E i \in DOMAIN MineLines(n) : p = <<n, i>>
  BY <1>4
<1>9. ASSUME NEW p \in Places(N)
      PROVE  /\ p[1] \in N /\ p[2] \in DOMAIN MineLines(p[1]) /\ p = <<p[1], p[2]>>
             /\ LineAt(p) = MineLines(p[1])[p[2]] /\ LineAt(p) \in Nat
  <2>1. PICK n \in N : \E i \in DOMAIN MineLines(n) : p = <<n, i>>
    BY <1>8
  <2>2. PICK i \in DOMAIN MineLines(n) : p = <<n, i>>
    BY <2>1
  <2>3. LineAt(p) = MineLines(n)[i]
    BY <2>2 DEF LineAt, MineLines
  <2>4. MineLines(n)[i] \in Nat
    BY <1>2, <1>3, ElementOfSeq
  <2> QED BY <2>2, <2>3, <2>4
<1>10. Places(N) \in SUBSET (Nat \X Nat)
  BY <1>1, <1>3, <1>9
<1> QED BY <1>7, <1>8, <1>9, <1>10

-----------------------------------------------------------------------------
(* Copies and the run they belong to *)

LEMMA IdleIsTyped ==
  /\ Idle \in Maintainer /\ Idle.pc = "idle" /\ Idle.mine = <<>> /\ Idle.run = "none"
  /\ Idle.temp = <<>> /\ Idle.published = FALSE /\ Idle.restored = FALSE /\ Idle.failed = FALSE
BY EmptySeq DEF Idle, Maintainer, MaintainerPcs

\* Files and appenders keep their types when the open appends follow a file.
LEMMA FollowIsTyped ==
  ASSUME Types, NEW to \in Int
  PROVE  /\ Follow(to) \in [Appenders -> [at : Int \cup {None}, line : Nat]]
         /\ \A a \in Appenders : to # Live => Follow(to)[a].at # Live
BY DEF Follow, Types

LEMMA MaintainerFields ==
  ASSUME Types
  PROVE  /\ m.pc \in MaintainerPcs /\ m.run \in {"none", "compact", "window", "merge"}
         /\ m.mine \in Seq(MineRecord) /\ m.round \in Nat /\ m.temp \in Seq(Nat)
         /\ DOMAIN m.mine = 1..Len(m.mine) /\ Len(m.mine) \in Nat
         /\ \A i \in DOMAIN m.mine : m.mine[i] \in MineRecord /\ m.mine[i].name \in Nat
              /\ m.mine[i].indexed \in Nat /\ m.mine[i].adopted \in BOOLEAN
<1>1. m \in Maintainer
  BY DEF Types
<1>2. m.mine \in Seq(MineRecord)
  BY <1>1 DEF Maintainer
<1>3. DOMAIN m.mine = 1..Len(m.mine) /\ Len(m.mine) \in Nat
  BY <1>2, LenProperties
<1>4. \A i \in DOMAIN m.mine : m.mine[i] \in MineRecord
  BY <1>2, <1>3, ElementOfSeq
<1> QED BY <1>1, <1>2, <1>3, <1>4 DEF Maintainer, MineRecord

\* A maintainer that moves on.
LEMMA NextRoundKeeps ==
  ASSUME NEW mm \in Maintainer
  PROVE  /\ NextRound(mm) \in Maintainer /\ NextRound(mm).mine = mm.mine
         /\ NextRound(mm).run = mm.run /\ NextRound(mm).temp = mm.temp
         /\ NextRound(mm).pc \in {"park", "restore"}
<1> DEFINE r == mm.round + 1
           a == [mm EXCEPT !.pc = "park", !.round = r]
           b == [mm EXCEPT !.pc = "restore"]
<1>0. r \in Nat
  BY DEF Maintainer
<1> HIDE DEF r
<1>1. a \in Maintainer /\ a.mine = mm.mine /\ a.run = mm.run /\ a.temp = mm.temp /\ a.pc = "park"
  BY <1>0 DEF Maintainer, MaintainerPcs
<1>2. b \in Maintainer /\ b.mine = mm.mine /\ b.run = mm.run /\ b.temp = mm.temp /\ b.pc = "restore"
  BY DEF Maintainer, MaintainerPcs
<1> HIDE DEF a, b
<1>3. NextRound(mm) = a \/ NextRound(mm) = b
  BY DEF NextRound, Maintainer, a, b, r
<1> QED BY <1>1, <1>2, <1>3

\* The live file joins the run's copies.
LEMMA ParkedJoins ==
  ASSUME CopyInv, live # None, NEW pc \in MaintainerPcs, Parked(pc)
  PROVE  /\ live \in Seq(Nat) /\ parks' = parks + 1 /\ live' = None /\ copies' \in Seq(CopyRecord)
         /\ app' = Follow(parks + 1) /\ app' \in [Appenders -> [at : Int \cup {None}, line : Nat]]
         /\ m' \in Maintainer /\ m'.pc = pc /\ m'.run = m.run /\ m'.temp = m.temp
         /\ DOMAIN m'.mine = 1..(Len(m.mine) + 1)
         /\ \A i \in DOMAIN m.mine : i # Len(m.mine) + 1 /\ m'.mine[i] = m.mine[i]
         /\ m'.mine[Len(m.mine) + 1] = [name |-> parks + 1, indexed |-> Len(live), adopted |-> FALSE]
<1>1. live \in Seq(Nat) /\ Len(live) \in Nat /\ parks \in Nat
  BY LenProperties DEF CopyInv, Types
<1>2. copies' \in Seq(CopyRecord)
  BY <1>1, CopyAdded DEF Parked, CopyInv
<1>3. app' = Follow(parks + 1) /\ app' \in [Appenders -> [at : Int \cup {None}, line : Nat]]
  <2>1. parks + 1 \in Int
    BY <1>1
  <2> QED BY <2>1, FollowIsTyped DEF Parked, CopyInv
<1> DEFINE c == [name |-> parks + 1, indexed |-> Len(live), adopted |-> FALSE]
<1>4. c \in MineRecord
  BY <1>1 DEF MineRecord
<1>5. m.mine \in Seq(MineRecord) /\ DOMAIN m.mine = 1..Len(m.mine) /\ Len(m.mine) \in Nat
  BY MaintainerFields DEF CopyInv
<1> HIDE DEF c
<1>6. m' = [m EXCEPT !.pc = pc, !.mine = Append(m.mine, c)]
  BY DEF Parked, c, CopyInv, Types, Maintainer
<1>7. Append(m.mine, c) \in Seq(MineRecord) /\ Len(Append(m.mine, c)) = Len(m.mine) + 1
      /\ \A i \in 1..(Len(m.mine) + 1) : Append(m.mine, c)[i] = IF i = Len(m.mine) + 1 THEN c ELSE m.mine[i]
  BY <1>4, <1>5
<1>8. DOMAIN Append(m.mine, c) = 1..(Len(m.mine) + 1)
  BY <1>7, LenProperties
<1>9. m \in Maintainer
  BY DEF CopyInv, Types
<1>10. m' \in Maintainer /\ m'.pc = pc /\ m'.run = m.run /\ m'.temp = m.temp /\ m'.mine = Append(m.mine, c)
  BY <1>6, <1>7, <1>9 DEF Maintainer
<1>11. \A i \in DOMAIN m.mine : i # Len(m.mine) + 1 /\ m'.mine[i] = m.mine[i]
  BY <1>5, <1>7, <1>10
<1>12. m'.mine[Len(m.mine) + 1] = c
  BY <1>5, <1>7, <1>10
<1>13. parks' = parks + 1 /\ live' = None
  BY DEF Parked
<1> QED BY <1>1, <1>2, <1>3, <1>8, <1>10, <1>11, <1>12, <1>13 DEF c

LEMMA ParkedKeepsCopyInv ==
  ASSUME CopyInv, live # None, NEW pc \in MaintainerPcs, Parked(pc),
         UNCHANGED <<policy, key, trouble>>
  PROVE  CopyInv'
<1> DEFINE N == Len(m.mine) + 1
<1>1. Types'
  BY ParkedJoins DEF CopyInv, Types
<1>0. OpenIsLive'
  <2>1. app' = Follow(parks + 1) /\ parks + 1 \in Int /\ parks + 1 # Live
    BY ParkedJoins DEF CopyInv, Types, Live
  <2> QED BY <2>1, FollowIsTyped DEF CopyInv, OpenIsLive
<1>2. Names' = Names \cup {parks + 1} /\ parks + 1 \notin Names /\ parks' = parks + 1
  BY ParkedJoins, CopyAdded DEF CopyInv, Parked
<1>3. NamesAreOwn'
  <2>1. \A i, j \in DOMAIN copies' : copies'[i].name = copies'[j].name => i = j
    BY ParkedJoins, CopyAdded DEF CopyInv, Parked
  <2> QED BY <1>2, <2>1 DEF NamesAreOwn, CopyInv, Types
<1>4. DOMAIN m.mine = 1..Len(m.mine) /\ Len(m.mine) \in Nat
  BY MaintainerFields DEF CopyInv
<1>5. /\ DOMAIN m'.mine = DOMAIN m.mine \cup {N} /\ N \notin DOMAIN m.mine
      /\ \A i \in DOMAIN m.mine : m'.mine[i] = m.mine[i]
      /\ m'.mine[N].name = parks + 1 /\ m'.mine[N].adopted = FALSE /\ m'.run = m.run
  BY <1>4, ParkedJoins
<1> HIDE DEF N
<1>6. Mine' = Mine \cup {parks + 1} /\ Own' = Own \cup {N}
  BY <1>5 DEF Mine, Own
<1>7. \A i \in DOMAIN m.mine : m.mine[i].name # parks + 1
  BY <1>2 DEF CopyInv, MineIsParked, Mine
<1>8. MineIsParked'
  BY <1>2, <1>5, <1>6, <1>7 DEF CopyInv, MineIsParked
<1>9. OnlyMergesAdopt' /\ AccountedFor'
  BY <1>2, <1>5, <1>6 DEF CopyInv, OnlyMergesAdopt, AccountedFor
<1> QED BY <1>0, <1>1, <1>3, <1>8, <1>9 DEF CopyInv

\* Steps that leave the copies alone, and go on with the run or end it.
LEMMA SameCopies ==
  ASSUME CopyInv, Types', OpenIsLive', UNCHANGED <<copies, parks>>, trouble' >= trouble,
         \/ m'.mine = m.mine /\ m'.run = m.run
         \/ m'.mine = <<>> /\ (m.mine = <<>> \/ trouble' > 0)
  PROVE  CopyInv'
<1>1. Names' = Names
  BY DEF Names
<1>2. NamesAreOwn'
  BY <1>1 DEF CopyInv, NamesAreOwn
<1>3. trouble \in Nat /\ trouble' \in Nat
  BY DEF CopyInv, Types
<1>4. CASE m'.mine = m.mine /\ m'.run = m.run
  <2>1. Mine' = Mine /\ Own' = Own
    BY <1>4 DEF Mine, Own
  <2> QED BY <1>1, <1>2, <1>3, <1>4, <2>1 DEF CopyInv, MineIsParked, OnlyMergesAdopt, AccountedFor
<1>5. CASE m'.mine = <<>> /\ (m.mine = <<>> \/ trouble' > 0)
  <2>1. DOMAIN m'.mine = {}
    BY <1>5
  <2>2. Mine' = {} /\ Own' = {}
    BY <2>1 DEF Mine, Own
  <2>3. m.mine = <<>> => Mine = {}
    BY DEF Mine
  <2> QED BY <1>1, <1>2, <1>3, <1>5, <2>1, <2>2, <2>3 DEF CopyInv, MineIsParked, OnlyMergesAdopt, AccountedFor
<1> QED BY <1>4, <1>5

LEMMA InitIsCopyInv == Init => CopyInv
<1> SUFFICES ASSUME Init  PROVE CopyInv
  OBVIOUS
<1>1. live \in Seq(Nat) /\ key \in Seq(Keys)
  BY StoreAssumption DEF Init
<1>2. copies = <<>> /\ DOMAIN copies = {} /\ copies \in Seq(CopyRecord)
  BY DEF Init
<1>3. Names = {}
  BY <1>2 DEF Names
<1>4. m = Idle /\ m.mine = <<>> /\ DOMAIN m.mine = {}
  BY IdleIsTyped DEF Init
<1>5. app \in [Appenders -> [at : Int \cup {None}, line : Nat]] /\ \A a \in Appenders : app[a].at = None
  BY DEF Init
<1>6. policy.action \in {"compact", "window", "rotate"}
  BY DEF Init
<1>7. parks \in Nat /\ trouble \in Nat
  BY DEF Init
<1>8. Types
  BY <1>1, <1>2, <1>4, <1>5, <1>6, <1>7, IdleIsTyped DEF Types
<1>9. Mine = {} /\ Own = {}
  BY <1>4 DEF Mine, Own
<1>10. OpenIsLive
  BY <1>5, NoneIsNoFile DEF OpenIsLive, Live
<1> QED BY <1>2, <1>3, <1>4, <1>8, <1>9, <1>10
        DEF CopyInv, NamesAreOwn, MineIsParked, OnlyMergesAdopt, AccountedFor

LEMMA OpenKeepsCopyInv ==
  ASSUME CopyInv, NEW a \in Appenders, NEW k \in Keys, Open(a, k)
  PROVE  CopyInv'
<1>1. Append(key, k) \in Seq(Keys) /\ Len(key) \in Nat
  BY LenProperties DEF CopyInv, Types
<1>2. live' \in Seq(Nat) \cup {None} /\ live' # None
  <2>1. <<>> \in Seq(Nat) /\ <<>> # None
    BY EmptySeq, NoneIsNoFile
  <2> QED BY <2>1 DEF Open, CopyInv, Types
<1>3. app' \in [Appenders -> [at : Int \cup {None}, line : Nat]]
  BY <1>1 DEF Open, CopyInv, Types, Live
<1>4. UNCHANGED <<policy, copies, parks, m, trouble>> /\ key' = Append(key, k)
  BY DEF Open
<1>5. Types'
  BY <1>1, <1>2, <1>3, <1>4 DEF CopyInv, Types
<1>6. OpenIsLive'
  BY <1>2 DEF OpenIsLive
<1>7. trouble' >= trouble
  BY <1>4 DEF CopyInv, Types
<1> QED BY <1>4, <1>5, <1>6, <1>7, SameCopies

\* What a written line changes.
LEMMA WriteChanges ==
  ASSUME CopyInv, NEW a \in Appenders, Write(a)
  PROVE  /\ app[a].line \in Nat
         /\ live' = IF app[a].at = Live THEN Append(live, app[a].line) ELSE live
         /\ app[a].at = Live => live \in Seq(Nat)
         /\ live' \in Seq(Nat) \cup {None} /\ (live' = None <=> live = None)
         /\ copies' \in Seq(CopyRecord) /\ Names' = Names
         /\ \A i, j \in DOMAIN copies' : copies'[i].name = copies'[j].name => i = j
         /\ \A k : CopyLines(k)' = IF k \in Names /\ k = app[a].at
                                   THEN Append(CopyLines(k), app[a].line) ELSE CopyLines(k)
         /\ app' \in [Appenders -> [at : Int \cup {None}, line : Nat]]
         /\ app' = [app EXCEPT ![a] = [at |-> None, line |-> 0]]
<1>1. app[a].line \in Nat /\ app[a].at \in Int \cup {None}
  BY DEF CopyInv, Types
<1>2. app[a].at = Live => live \in Seq(Nat)
  BY DEF CopyInv, Types, OpenIsLive
<1>3. live' = IF app[a].at = Live THEN Append(live, app[a].line) ELSE live
  BY DEF Write
<1>4. live' \in Seq(Nat) \cup {None} /\ (live' = None <=> live = None)
  <2>1. CASE app[a].at = Live
    <3>1. live' \in Seq(Nat)
      BY <2>1, <1>1, <1>2, <1>3, AppendedLine
    <3> QED BY <2>1, <3>1, <1>2, NoneIsNoFile
  <2>2. CASE app[a].at # Live
    BY <2>2, <1>3 DEF CopyInv, Types
  <2> QED BY <2>1, <2>2
<1>5. app' = [app EXCEPT ![a] = [at |-> None, line |-> 0]]
  BY DEF Write
<1>6. app' \in [Appenders -> [at : Int \cup {None}, line : Nat]]
  BY <1>5 DEF CopyInv, Types
<1>7. /\ copies' \in Seq(CopyRecord) /\ Names' = Names
      /\ \A i, j \in DOMAIN copies' : copies'[i].name = copies'[j].name => i = j
      /\ \A k : CopyLines(k)' = IF k \in Names /\ k = app[a].at
                                THEN Append(CopyLines(k), app[a].line) ELSE CopyLines(k)
  <2>1. CASE app[a].at \in Names
    <3>1. copies' = [copies EXCEPT ![Copy(app[a].at)].lines = Append(@, app[a].line)]
      BY <2>1 DEF Write
    <3> QED BY <1>1, <2>1, <3>1, CopyGrows DEF CopyInv
  <2>2. CASE app[a].at \notin Names
    <3>1. copies' = copies
      BY <2>2 DEF Write
    <3>2. Names' = Names /\ \A k : CopyLines(k)' = CopyLines(k)
      BY <3>1 DEF Names, CopyLines, Copy
    <3> QED BY <2>2, <3>1, <3>2 DEF CopyInv, Types, NamesAreOwn
  <2> QED BY <2>1, <2>2
<1> QED BY <1>1, <1>2, <1>3, <1>4, <1>5, <1>6, <1>7

LEMMA WriteKeepsCopyInv ==
  ASSUME CopyInv, NEW a \in Appenders, Write(a)
  PROVE  CopyInv'
<1>1. UNCHANGED <<policy, key, parks, m, trouble>>
  BY DEF Write
<1>2. Types'
  BY <1>1, WriteChanges DEF CopyInv, Types
<1>3. OpenIsLive'
  <2>1. \A b \in Appenders : app'[b].at = IF b = a THEN None ELSE app[b].at
    BY WriteChanges DEF CopyInv, Types
  <2>2. None # Live
    BY NoneIsNoFile DEF Live
  <2> QED BY <2>1, <2>2, WriteChanges DEF CopyInv, OpenIsLive
<1>4. Names' = Names
  BY WriteChanges
<1>5. NamesAreOwn'
  <2>1. \A i, j \in DOMAIN copies' : copies'[i].name = copies'[j].name => i = j
    BY WriteChanges
  <2> QED BY <1>1, <1>4, <2>1 DEF CopyInv, NamesAreOwn
<1>6. Mine' = Mine /\ Own' = Own
  BY <1>1 DEF Mine, Own
<1> QED BY <1>1, <1>2, <1>3, <1>4, <1>5, <1>6 DEF CopyInv, MineIsParked, OnlyMergesAdopt, AccountedFor

LEMMA RotateKeepsCopyInv ==
  ASSUME CopyInv, Rotate
  PROVE  CopyInv'
<1>1. UNCHANGED <<policy, key, copies, parks, app, m, trouble>> /\ live' = None
  BY DEF Rotate, MUnchanged
<1>2. Types'
  BY <1>1 DEF CopyInv, Types
<1>3. OpenIsLive'
  BY <1>1 DEF Rotate, OpenIsLive
<1>4. trouble' >= trouble
  BY <1>1 DEF CopyInv, Types
<1> QED BY <1>1, <1>2, <1>3, <1>4, SameCopies

LEMMA StartRewriteKeepsCopyInv ==
  ASSUME CopyInv, StartRewrite
  PROVE  CopyInv'
<1>1. UNCHANGED <<policy, key, store, app, trouble>> /\ m = Idle
  BY DEF StartRewrite, MUnchanged
<1>2. policy.action \in {"compact", "window"}
  BY DEF StartRewrite, CopyInv, Types
<1>3. m' \in Maintainer /\ m'.mine = <<>> /\ m.mine = <<>>
  BY <1>1, <1>2, IdleIsTyped DEF StartRewrite, Maintainer, MaintainerPcs
<1>4. Types'
  BY <1>1, <1>3 DEF CopyInv, Types, store
<1>5. OpenIsLive' /\ trouble' >= trouble /\ UNCHANGED <<copies, parks>>
  BY <1>1 DEF CopyInv, Types, OpenIsLive, store
<1> QED BY <1>3, <1>4, <1>5, SameCopies

\* The copies a merge adopts.
LEMMA MergeAdopts ==
  ASSUME CopyInv, StartMerge
  PROVE  /\ m = Idle /\ copies # <<>> /\ UNCHANGED <<policy, key, done, before, store, app, trouble>>
         /\ m' \in Maintainer /\ m'.run = "merge" /\ m'.pc = "park" /\ m'.temp = <<>>
         /\ DOMAIN m'.mine = DOMAIN copies
         /\ \A i \in DOMAIN copies : m'.mine[i] = [name |-> copies[i].name,
                                    indexed |-> Len(copies[i].lines), adopted |-> TRUE]
<1> DEFINE f == [i \in DOMAIN copies |->
                  [name |-> copies[i].name, indexed |-> Len(copies[i].lines), adopted |-> TRUE]]
<1>1. copies \in Seq(CopyRecord) /\ DOMAIN copies = 1..Len(copies) /\ Len(copies) \in Nat
      /\ \A i \in DOMAIN copies : copies[i] \in CopyRecord
  BY LenProperties, ElementOfSeq DEF CopyInv, Types
<1>2. \A i \in DOMAIN copies : f[i] \in MineRecord
  BY <1>1, LenProperties DEF CopyRecord, MineRecord
<1>3. f \in [1..Len(copies) -> MineRecord]
  BY <1>1, <1>2
<1> HIDE DEF f
<1>4. f \in Seq(MineRecord)
  BY <1>1, <1>3
<1>5. m' = [Idle EXCEPT !.pc = "park", !.run = "merge", !.mine = f]
  BY DEF StartMerge, ParkOrder, f
<1>6. m' \in Maintainer /\ m'.run = "merge" /\ m'.pc = "park" /\ m'.temp = <<>> /\ m'.mine = f
  BY <1>4, <1>5, IdleIsTyped DEF Maintainer, MaintainerPcs
<1>7. m = Idle /\ copies # <<>> /\ UNCHANGED <<policy, key, done, before, store, app, trouble>>
  BY DEF StartMerge, MUnchanged
<1> QED BY <1>6, <1>7 DEF f

LEMMA StartMergeKeepsCopyInv ==
  ASSUME CopyInv, StartMerge
  PROVE  CopyInv'
<1>0. DOMAIN m'.mine = DOMAIN copies /\ \A i \in DOMAIN copies : m'.mine[i].name = copies[i].name
  <2>1. DOMAIN m'.mine = DOMAIN copies
    BY MergeAdopts
  <2>2. ASSUME NEW i \in DOMAIN copies  PROVE m'.mine[i].name = copies[i].name
    <3>1. m'.mine[i] = [name |-> copies[i].name, indexed |-> Len(copies[i].lines), adopted |-> TRUE]
      BY MergeAdopts
    <3> QED BY <3>1
  <2> QED BY <2>1, <2>2
<1>1. Types'
  BY MergeAdopts DEF CopyInv, Types, store
<1>2. OpenIsLive' /\ UNCHANGED <<copies, parks, trouble>>
  BY MergeAdopts DEF CopyInv, OpenIsLive, store
<1>3. Names' = Names
  BY <1>2 DEF Names
<1>4. NamesAreOwn'
  BY <1>2, <1>3 DEF CopyInv, NamesAreOwn
<1>5. Mine' = Names
  BY <1>0 DEF Mine, Names
<1>6. MineIsParked'
  <2>1. \A i, j \in DOMAIN m'.mine : m'.mine[i].name = m'.mine[j].name => i = j
    BY <1>0 DEF CopyInv, NamesAreOwn
  <2> QED BY <1>3, <1>5, <2>1 DEF MineIsParked
<1>7. OnlyMergesAdopt'
  BY MergeAdopts DEF OnlyMergesAdopt
<1>8. AccountedFor'
  <2>1. SUFFICES ASSUME trouble = 0  PROVE FALSE
    BY <1>2 DEF AccountedFor
  <2>2. DOMAIN m.mine = {}
    BY MergeAdopts, IdleIsTyped
  <2>3. Mine = {}
    BY <2>2 DEF Mine
  <2>4. Names = {}
    BY <2>1, <2>3 DEF CopyInv, AccountedFor
  <2>5. DOMAIN copies = {}
    BY <2>4 DEF Names
  <2>6. copies = <<>>
    BY <2>5, EmptySeq, LenProperties DEF CopyInv, Types
  <2> QED BY <2>6, MergeAdopts
<1> QED BY <1>1, <1>2, <1>4, <1>6, <1>7, <1>8 DEF CopyInv

LEMMA ParkKeepsCopyInv ==
  ASSUME CopyInv, Park
  PROVE  CopyInv'
<1>1. UNCHANGED <<policy, key, trouble>>
  BY DEF Park, MUnchanged
<1>2. CASE live # None /\ Parked("look")
  BY <1>1, <1>2, ParkedKeepsCopyInv DEF MaintainerPcs
<1>3. CASE live = None /\ UNCHANGED <<live, copies, parks, app>>
           /\ m' = IF m.mine = <<>> THEN Idle ELSE [m EXCEPT !.pc = "look"]
  <2>1. m' \in Maintainer /\ ((m'.mine = m.mine /\ m'.run = m.run) \/ (m'.mine = <<>> /\ m.mine = <<>>))
    <3>1. CASE m.mine = <<>>
      BY <1>3, <3>1, IdleIsTyped
    <3>2. CASE m.mine # <<>>
      <4>1. m' = [m EXCEPT !.pc = "look"]
        BY <1>3, <3>2
      <4>2. m' \in Maintainer /\ m'.mine = m.mine /\ m'.run = m.run
        BY <4>1 DEF CopyInv, Types, Maintainer, MaintainerPcs
      <4> QED BY <4>2
    <3> QED BY <3>1, <3>2
  <2>2. Types' /\ OpenIsLive' /\ trouble' >= trouble
    BY <1>1, <1>3, <2>1 DEF CopyInv, Types, OpenIsLive
  <2> QED BY <1>3, <2>1, <2>2, SameCopies
<1> QED BY <1>2, <1>3 DEF Park

LEMMA LookKeepsCopyInv ==
  ASSUME CopyInv, Look
  PROVE  CopyInv'
<1>1. UNCHANGED <<policy, key, store, app, trouble>>
      /\ m' = IF live = None THEN [m EXCEPT !.pc = "survivors"] ELSE NextRound(m)
  BY DEF Look, MUnchanged
<1>2. m' \in Maintainer /\ m'.mine = m.mine /\ m'.run = m.run
  BY <1>1, NextRoundKeeps DEF CopyInv, Types, Maintainer, MaintainerPcs
<1>3. Types' /\ OpenIsLive' /\ trouble' >= trouble /\ UNCHANGED <<copies, parks>>
  BY <1>1, <1>2 DEF CopyInv, Types, OpenIsLive, store
<1> QED BY <1>2, <1>3, SameCopies

\* What the survivors and the union of a run's own copies are made of.
LEMMA OwnIsMine == Own \in SUBSET DOMAIN m.mine
BY DEF Own
LEMMA SurvivorsHold ==
  ASSUME CopyInv
  PROVE  /\ Survivors \in SUBSET Places(DOMAIN m.mine)
         /\ Survivors \in SUBSET (Nat \X Nat) /\ IsFiniteSet(Survivors)
         /\ \A p \in Survivors : LineAt(p) \in Nat
<1>1. Places(DOMAIN m.mine) \in SUBSET (Nat \X Nat) /\ IsFiniteSet(Places(DOMAIN m.mine))
      /\ \A p \in Places(DOMAIN m.mine) : LineAt(p) \in Nat
  BY PlacesHold DEF CopyInv
<1>2. Survivors \in SUBSET Places(DOMAIN m.mine)
  BY DEF Survivors
<1>3. IsFiniteSet(Survivors)
  BY <1>1, <1>2, FS_Subset
<1> QED BY <1>1, <1>2, <1>3

LEMMA WriteSurvivorsChanges ==
  ASSUME CopyInv, WriteSurvivors
  PROVE  /\ m.pc = "survivors" /\ m'.pc = "publish" /\ m'.temp = Gather(Survivors)
         /\ m' \in Maintainer /\ m'.mine = m.mine /\ m'.run = m.run
         /\ UNCHANGED <<policy, key, done, before, store, app, trouble>>
<1> DEFINE t == Gather(Survivors)
<1>1. t \in Seq(Nat)
  BY SurvivorsHold, GatherEnumerates
<1>2. m.pc = "survivors" /\ m' = [m EXCEPT !.pc = "publish", !.temp = t]
      /\ UNCHANGED <<policy, key, done, before, store, app, trouble>>
  BY DEF WriteSurvivors, MUnchanged
<1> HIDE DEF t
<1>3. m' \in Maintainer /\ m'.mine = m.mine /\ m'.run = m.run /\ m'.pc = "publish" /\ m'.temp = t
  BY <1>1, <1>2 DEF CopyInv, Types, Maintainer, MaintainerPcs
<1> QED BY <1>2, <1>3 DEF t

LEMMA WriteSurvivorsKeepsCopyInv ==
  ASSUME CopyInv, WriteSurvivors
  PROVE  CopyInv'
<1>1. Types' /\ OpenIsLive' /\ trouble' >= trouble /\ UNCHANGED <<copies, parks>>
  BY WriteSurvivorsChanges DEF CopyInv, Types, OpenIsLive, store
<1> QED BY <1>1, WriteSurvivorsChanges, SameCopies

LEMMA PublishKeepsCopyInv ==
  ASSUME CopyInv, Publish
  PROVE  CopyInv'
<1>1. UNCHANGED <<policy, key, copies, parks, trouble>>
  BY DEF Publish, MUnchanged
<1>2. CASE /\ live' = m.temp /\ app' = Follow(Gone)
           /\ m' = [m EXCEPT !.pc = "archive", !.temp = <<>>, !.published = TRUE, !.restored = TRUE]
  <2>1. m' \in Maintainer /\ m'.mine = m.mine /\ m'.run = m.run
    BY <1>2, EmptySeq DEF CopyInv, Types, Maintainer, MaintainerPcs
  <2>2. live' \in Seq(Nat)
    BY <1>2, MaintainerFields DEF CopyInv
  <2>3. app' \in [Appenders -> [at : Int \cup {None}, line : Nat]] /\ \A a \in Appenders : app'[a].at # Live
    BY <1>2, FollowIsTyped DEF CopyInv, Gone, Live
  <2>4. Types' /\ OpenIsLive' /\ trouble' >= trouble
    BY <1>1, <2>1, <2>2, <2>3 DEF CopyInv, Types, OpenIsLive
  <2> QED BY <1>1, <2>1, <2>4, SameCopies
<1>3. CASE m' = NextRound([m EXCEPT !.temp = <<>>]) /\ UNCHANGED <<live, app>>
  <2> DEFINE mm == [m EXCEPT !.temp = <<>>]
  <2>1. mm \in Maintainer /\ mm.mine = m.mine /\ mm.run = m.run
    BY EmptySeq DEF CopyInv, Types, Maintainer
  <2> HIDE DEF mm
  <2>2. m' = NextRound(mm)
    BY <1>3 DEF mm
  <2>3. m' \in Maintainer /\ m'.mine = m.mine /\ m'.run = m.run
    BY <2>1, <2>2, NextRoundKeeps
  <2>4. Types' /\ OpenIsLive' /\ trouble' >= trouble
    BY <1>1, <1>3, <2>3 DEF CopyInv, Types, OpenIsLive
  <2> QED BY <1>1, <2>3, <2>4, SameCopies
<1> QED BY <1>2, <1>3 DEF Publish

LEMMA RestoreParkKeepsCopyInv ==
  ASSUME CopyInv, RestorePark
  PROVE  CopyInv'
<1>1. UNCHANGED <<policy, key, trouble>>
  BY DEF RestorePark, MUnchanged
<1>2. CASE live # None /\ Parked("restore_move")
  BY <1>1, <1>2, ParkedKeepsCopyInv DEF MaintainerPcs
<1>3. CASE live = None /\ m' = [m EXCEPT !.pc = "restore_move"] /\ UNCHANGED <<live, copies, parks, app>>
  <2>1. m' \in Maintainer /\ m'.mine = m.mine /\ m'.run = m.run
    BY <1>3 DEF CopyInv, Types, Maintainer, MaintainerPcs
  <2>2. Types' /\ OpenIsLive' /\ trouble' >= trouble
    BY <1>1, <1>3, <2>1 DEF CopyInv, Types, OpenIsLive
  <2> QED BY <1>3, <2>1, <2>2, SameCopies
<1> QED BY <1>2, <1>3 DEF RestorePark

\* The union of a run's own copies.
LEMMA OwnHold ==
  ASSUME CopyInv
  PROVE  /\ Places(Own) \in SUBSET (Nat \X Nat) /\ IsFiniteSet(Places(Own))
         /\ \A p \in Places(Own) : LineAt(p) \in Nat
         /\ Gather(Places(Own)) \in Seq(Nat)
<1>1. Places(Own) \in SUBSET (Nat \X Nat) /\ IsFiniteSet(Places(Own))
      /\ \A p \in Places(Own) : LineAt(p) \in Nat
  BY OwnIsMine, PlacesHold DEF CopyInv
<1> QED BY <1>1, GatherEnumerates

LEMMA RestoreMoveKeepsCopyInv ==
  ASSUME CopyInv, RestoreMove
  PROVE  CopyInv'
<1>1. UNCHANGED <<policy, key, copies, parks, trouble>>
      /\ m' = [m EXCEPT !.pc = AfterRestore, !.restored = TRUE]
  BY DEF RestoreMove, MUnchanged
<1>2. m' \in Maintainer /\ m'.mine = m.mine /\ m'.run = m.run
  <2>1. AfterRestore \in MaintainerPcs
    BY DEF AfterRestore, MaintainerPcs
  <2> QED BY <1>1, <2>1 DEF CopyInv, Types, Maintainer
<1>3. CASE UNCHANGED <<live, app>>
  <2>1. Types' /\ OpenIsLive' /\ trouble' >= trouble
    BY <1>1, <1>2, <1>3 DEF CopyInv, Types, OpenIsLive
  <2> QED BY <1>1, <1>2, <2>1, SameCopies
<1>4. CASE live' = Gather(Places(Own)) /\ app' = Follow(Gone)
  <2>1. live' \in Seq(Nat)
    BY <1>4, OwnHold
  <2>2. app' \in [Appenders -> [at : Int \cup {None}, line : Nat]] /\ \A a \in Appenders : app'[a].at # Live
    BY <1>4, FollowIsTyped DEF CopyInv, Gone, Live
  <2>3. Types' /\ OpenIsLive' /\ trouble' >= trouble
    BY <1>1, <1>2, <2>1, <2>2 DEF CopyInv, Types, OpenIsLive
  <2> QED BY <1>1, <1>2, <2>3, SameCopies
<1> QED BY <1>3, <1>4 DEF RestoreMove

LEMMA ArchiveKeepsCopyInv ==
  ASSUME CopyInv, Archive
  PROVE  CopyInv'
<1>1. UNCHANGED <<policy, key, live, copies, parks, app, trouble>> /\ m' = [m EXCEPT !.pc = "cleanup"]
  BY DEF Archive, MUnchanged
<1>2. m' \in Maintainer /\ m'.mine = m.mine /\ m'.run = m.run
  BY <1>1 DEF CopyInv, Types, Maintainer, MaintainerPcs
<1>3. Types' /\ OpenIsLive' /\ trouble' >= trouble
  BY <1>1, <1>2 DEF CopyInv, Types, OpenIsLive
<1> QED BY <1>1, <1>2, <1>3, SameCopies

\* The removal of the copy that the run lists at c, the first one it may remove, and an
\* unlink of it that fails.
Removes(c) ==
  /\ m.pc = "cleanup" /\ c \in DOMAIN m.mine /\ NextToRemove(c)
  /\ copies' = RemoveAt(copies, Copy(m.mine[c].name))
  /\ m' = [m EXCEPT !.mine = RemoveAt(@, c), !.cleaned = TRUE]
PassesOver(c) ==
  /\ m.pc = "cleanup" /\ c \in DOMAIN m.mine /\ NextToRemove(c)
  /\ m' = [m EXCEPT !.mine = RemoveAt(@, c)]
CleanedUp == m.pc = "cleanup" /\ AllRemoved /\ m' = Idle /\ UNCHANGED copies
LEMMA CleanupChanges ==
  ASSUME CopyInv, Cleanup
  PROVE  /\ UNCHANGED <<policy, key, done, before, live, parks, archived, app, trouble>>
         /\ (\E c \in DOMAIN m.mine : Removes(c)) \/ CleanedUp
BY DEF Cleanup, MUnchanged, Removes, CleanedUp

\* A run's list without the copy at c.
LEMMA ShorterList ==
  ASSUME CopyInv, NEW c \in DOMAIN m.mine, NEW t, t = RemoveAt(m.mine, c)
  PROVE  /\ t \in Seq(MineRecord)
         /\ \A i \in DOMAIN t : t[i] = m.mine[Skip(c, i)] /\ Skip(c, i) \in DOMAIN m.mine \ {c}
         /\ \A i, j \in DOMAIN t : i < j => Skip(c, i) < Skip(c, j)
         /\ \A i, j \in DOMAIN t : Skip(c, i) = Skip(c, j) => i = j
         /\ \A k \in DOMAIN m.mine \ {c} : \E i \in DOMAIN t : Skip(c, i) = k
<1>1. m.mine \in Seq(MineRecord) /\ DOMAIN m.mine = 1..Len(m.mine) /\ c \in 1..Len(m.mine)
  BY MaintainerFields DEF CopyInv
<1>2. /\ t \in Seq(MineRecord) /\ DOMAIN t = 1..(Len(m.mine) - 1)
      /\ \A i \in DOMAIN t : t[i] = m.mine[Skip(c, i)] /\ Skip(c, i) \in DOMAIN m.mine \ {c}
      /\ \A i, j \in DOMAIN t : i < j => Skip(c, i) < Skip(c, j)
      /\ \A k \in DOMAIN m.mine \ {c} : \E i \in DOMAIN t : Skip(c, i) = k
  <2>1. m.mine \in Seq(MineRecord) /\ c \in 1..Len(m.mine) /\ t = RemoveAt(m.mine, c)
    BY <1>1
  <2> QED BY <2>1, RemovedAt
<1>3. \A i, j \in DOMAIN t : Skip(c, i) = Skip(c, j) => i = j
  <2>1. c \in Nat /\ DOMAIN t \subseteq Nat
    BY <1>1, <1>2
  <2> QED BY <2>1 DEF Skip
<1> QED BY <1>2, <1>3

\* What a failing unlink leaves.
LEMMA PassingOverLeaves ==
  ASSUME CopyInv, NEW c, PassesOver(c)
  PROVE  /\ m' \in Maintainer /\ m'.pc = "cleanup" /\ m'.run = m.run /\ m'.temp = m.temp
         /\ m'.published = m.published /\ m'.restored = m.restored /\ m'.cleaned = m.cleaned
         /\ m'.mine = RemoveAt(m.mine, c)
         /\ \A i \in DOMAIN m'.mine : m'.mine[i] = m.mine[Skip(c, i)] /\ Skip(c, i) \in DOMAIN m.mine \ {c}
         /\ \A i, j \in DOMAIN m'.mine : i < j => Skip(c, i) < Skip(c, j)
         /\ \A i, j \in DOMAIN m'.mine : Skip(c, i) = Skip(c, j) => i = j
         /\ \A k \in DOMAIN m.mine \ {c} : \E i \in DOMAIN m'.mine : Skip(c, i) = k
<1> DEFINE t == RemoveAt(m.mine, c)
<1>1. c \in DOMAIN m.mine /\ m.pc = "cleanup" /\ m \in Maintainer /\ m' = [m EXCEPT !.mine = t]
  BY DEF PassesOver, CopyInv, Types, Maintainer
<1>2. t = RemoveAt(m.mine, c)
  OBVIOUS
<1> HIDE DEF t
<1>3. /\ t \in Seq(MineRecord)
      /\ \A i \in DOMAIN t : t[i] = m.mine[Skip(c, i)] /\ Skip(c, i) \in DOMAIN m.mine \ {c}
      /\ \A i, j \in DOMAIN t : i < j => Skip(c, i) < Skip(c, j)
      /\ \A i, j \in DOMAIN t : Skip(c, i) = Skip(c, j) => i = j
      /\ \A k \in DOMAIN m.mine \ {c} : \E i \in DOMAIN t : Skip(c, i) = k
  BY <1>1, <1>2, ShorterList
<1>4. /\ m' \in Maintainer /\ m'.mine = t /\ m'.pc = "cleanup" /\ m'.run = m.run /\ m'.temp = m.temp
      /\ m'.published = m.published /\ m'.restored = m.restored /\ m'.cleaned = m.cleaned
  BY <1>1, <1>3 DEF Maintainer
<1> QED BY <1>2, <1>3, <1>4

\* What the removal of a copy leaves.
LEMMA RemovalLeaves ==
  ASSUME CopyInv, NEW c, Removes(c)
  PROVE  /\ m.mine[c].name \in Names
         /\ copies' \in Seq(CopyRecord) /\ Names' = Names \ {m.mine[c].name}
         /\ \A i, j \in DOMAIN copies' : copies'[i].name = copies'[j].name => i = j
         /\ \A k : CopyLines(k)' = IF k = m.mine[c].name THEN <<>> ELSE CopyLines(k)
         /\ m' \in Maintainer /\ m'.pc = "cleanup" /\ m'.run = m.run /\ m'.temp = m.temp
         /\ \A i \in DOMAIN m'.mine : m'.mine[i] = m.mine[Skip(c, i)] /\ Skip(c, i) \in DOMAIN m.mine \ {c}
         /\ \A i, j \in DOMAIN m'.mine : i < j => Skip(c, i) < Skip(c, j)
         /\ \A i, j \in DOMAIN m'.mine : Skip(c, i) = Skip(c, j) => i = j
         /\ \A k \in DOMAIN m.mine \ {c} : \E i \in DOMAIN m'.mine : Skip(c, i) = k
<1>1. m.mine \in Seq(MineRecord) /\ DOMAIN m.mine = 1..Len(m.mine)
  BY MaintainerFields DEF CopyInv
<1>2. c \in 1..Len(m.mine) /\ m.mine[c].name \in Names
  BY <1>1 DEF Removes, CopyInv, MineIsParked, Mine
<1>3. /\ copies' \in Seq(CopyRecord) /\ Names' = Names \ {m.mine[c].name}
      /\ \A i, j \in DOMAIN copies' : copies'[i].name = copies'[j].name => i = j
      /\ \A k : CopyLines(k)' = IF k = m.mine[c].name THEN <<>> ELSE CopyLines(k)
  BY <1>2, CopyGone DEF CopyInv, Removes
<1> DEFINE t == RemoveAt(m.mine, c)
<1>4. m.pc = "cleanup" /\ m \in Maintainer /\ m' = [m EXCEPT !.mine = t, !.cleaned = TRUE]
  BY DEF Removes, CopyInv, Types, Maintainer
<1>5. t = RemoveAt(m.mine, c) /\ c \in DOMAIN m.mine
  BY DEF Removes
<1> HIDE DEF t
<1>6. /\ t \in Seq(MineRecord)
      /\ \A i \in DOMAIN t : t[i] = m.mine[Skip(c, i)] /\ Skip(c, i) \in DOMAIN m.mine \ {c}
      /\ \A i, j \in DOMAIN t : i < j => Skip(c, i) < Skip(c, j)
      /\ \A i, j \in DOMAIN t : Skip(c, i) = Skip(c, j) => i = j
      /\ \A k \in DOMAIN m.mine \ {c} : \E i \in DOMAIN t : Skip(c, i) = k
  BY <1>5, ShorterList
<1>7. m' \in Maintainer /\ m'.mine = t /\ m'.pc = "cleanup" /\ m'.run = m.run /\ m'.temp = m.temp
  BY <1>4, <1>6 DEF Maintainer
<1> QED BY <1>2, <1>3, <1>6, <1>7

LEMMA CleanupKeepsCopyInv ==
  ASSUME CopyInv, Cleanup
  PROVE  CopyInv'
<1>1. UNCHANGED <<policy, key, live, parks, app, trouble>>
  BY CleanupChanges
<1>2. OpenIsLive' /\ trouble' >= trouble
  BY <1>1 DEF CopyInv, Types, OpenIsLive
<1>3. ASSUME NEW c \in DOMAIN m.mine, Removes(c)  PROVE CopyInv'
  <2>1. Types'
    BY <1>1, <1>3, RemovalLeaves DEF CopyInv, Types
  <2>2. NamesAreOwn'
    <3>1. \A i, j \in DOMAIN copies' : copies'[i].name = copies'[j].name => i = j
      BY <1>3, RemovalLeaves
    <3>2. Names' = Names \ {m.mine[c].name}
      BY <1>3, RemovalLeaves
    <3> QED BY <1>1, <3>1, <3>2 DEF CopyInv, NamesAreOwn
  <2>3. /\ \A i \in DOMAIN m'.mine : m'.mine[i] = m.mine[Skip(c, i)] /\ Skip(c, i) \in DOMAIN m.mine \ {c}
        /\ \A i, j \in DOMAIN m'.mine : Skip(c, i) = Skip(c, j) => i = j
        /\ \A k \in DOMAIN m.mine \ {c} : \E i \in DOMAIN m'.mine : Skip(c, i) = k
        /\ m'.run = m.run /\ Names' = Names \ {m.mine[c].name}
    BY <1>3, RemovalLeaves
  <2>4. Mine' = Mine \ {m.mine[c].name}
    <3>1. \A i \in DOMAIN m.mine \ {c} : m.mine[i].name # m.mine[c].name
      BY <1>3 DEF CopyInv, MineIsParked
    <3>2. ASSUME NEW n \in Mine'  PROVE n \in Mine \ {m.mine[c].name}
      BY <2>3, <3>1 DEF Mine
    <3>3. ASSUME NEW n \in Mine \ {m.mine[c].name}  PROVE n \in Mine'
      <4>1. PICK k \in DOMAIN m.mine \ {c} : m.mine[k].name = n
        BY DEF Mine
      <4>2. PICK i \in DOMAIN m'.mine : Skip(c, i) = k
        BY <2>3
      <4> QED BY <2>3, <4>1, <4>2 DEF Mine
    <3> QED BY <3>2, <3>3
  <2>5. MineIsParked'
    BY <2>3, <2>4 DEF CopyInv, MineIsParked
  <2>6. Own = DOMAIN m.mine => Own' = DOMAIN m'.mine
    BY <2>3 DEF Own
  <2>7. OnlyMergesAdopt' /\ AccountedFor'
    BY <1>1, <2>3, <2>4, <2>6 DEF CopyInv, OnlyMergesAdopt, AccountedFor
  <2> QED BY <1>2, <2>1, <2>2, <2>5, <2>7 DEF CopyInv
<1>4. CASE CleanedUp
  <2>1. Types' /\ UNCHANGED <<copies, parks>> /\ m' = Idle
    BY <1>1, <1>4, IdleIsTyped DEF CopyInv, Types, CleanedUp
  <2>2. CASE trouble = 0
    <3>1. DOMAIN m.mine = {}
      <4>1. Own = DOMAIN m.mine
        BY <2>2 DEF CopyInv, AccountedFor
      <4>2. \A i \in DOMAIN m.mine : Removable(m.mine[i])
        BY <4>1 DEF Own, Removable
      <4> QED BY <1>4, <4>2 DEF CleanedUp, AllRemoved
    <3>2. m.mine = <<>>
      <4>1. m.mine \in Seq(MineRecord) /\ Len(m.mine) \in Nat /\ 1..Len(m.mine) = {}
        BY <3>1, MaintainerFields DEF CopyInv
      <4>2. Len(m.mine) # 0 => 1 \in 1..Len(m.mine)
        BY <4>1
      <4>3. Len(m.mine) = 0
        BY <4>1, <4>2
      <4> QED BY <4>1, <4>3, EmptySeq
    <3> QED BY <1>2, <2>1, <3>2, IdleIsTyped, SameCopies
  <2>3. CASE trouble # 0
    <3>1. trouble' > 0
      BY <2>3, <1>1 DEF CopyInv, Types
    <3> QED BY <1>2, <2>1, <3>1, IdleIsTyped, SameCopies
  <2> QED BY <2>2, <2>3
<1> QED BY <1>3, <1>4, CleanupChanges

\* What a fault may do to the maintainer.
LEMMA FaultChanges ==
  ASSUME CopyInv, Fault
  PROVE  /\ UNCHANGED <<policy, key, done, before, store, app>> /\ trouble' = trouble + 1
         /\ m' \in Maintainer
         /\ \/ m' = Idle
            \/ m'.mine = m.mine /\ m'.run = m.run /\ m'.temp \in {m.temp, <<>>}
               /\ m.pc \in {"survivors", "publish", "park", "restore", "restore_move"} /\ m'.pc = "restore"
            \/ m'.mine = m.mine /\ m'.run = m.run /\ m'.temp = m.temp /\ m'.pc = "cleanup"
            \/ \E c \in DOMAIN m.mine : PassesOver(c)
<1>1. UNCHANGED <<policy, key, done, before, store, app>> /\ trouble' = trouble + 1
  BY DEF Fault, MUnchanged
<1>2. m \in Maintainer
  BY DEF CopyInv, Types
<1>3. CASE /\ m.pc \in {"survivors", "publish", "park", "restore", "restore_move"}
           /\ m' = [m EXCEPT !.pc = "restore", !.failed = TRUE, !.temp = <<>>]
  <2>1. m' \in Maintainer /\ m'.mine = m.mine /\ m'.run = m.run /\ m'.temp = <<>> /\ m'.pc = "restore"
    BY <1>2, <1>3, EmptySeq DEF Maintainer, MaintainerPcs
  <2> QED BY <1>1, <1>3, <2>1
<1>4. CASE m' = [m EXCEPT !.pc = "cleanup"]
  <2>1. m' \in Maintainer /\ m'.mine = m.mine /\ m'.run = m.run /\ m'.temp = m.temp /\ m'.pc = "cleanup"
    BY <1>2, <1>4 DEF Maintainer, MaintainerPcs
  <2> QED BY <1>1, <2>1
<1>5. ASSUME NEW c \in DOMAIN m.mine, PassesOver(c)  PROVE m' \in Maintainer
  BY <1>5, PassingOverLeaves
<1>6. CASE m' = Idle
  BY <1>1, <1>6, IdleIsTyped
<1>7. m = [m EXCEPT !.mine = m.mine]
  BY <1>2 DEF Maintainer
<1> QED
  <2>1. CASE /\ m.pc \in {"survivors", "publish", "park", "restore", "restore_move"} /\ ~m.failed
             /\ m' = IF m.mine = <<>> THEN Idle ELSE [m EXCEPT !.pc = "restore", !.failed = TRUE, !.temp = <<>>]
    BY <2>1, <1>3, <1>6
  <2>2. CASE m' = IF KeepsCopies THEN Idle ELSE [m EXCEPT !.pc = "cleanup"]
    BY <2>2, <1>4, <1>6
  <2>3. CASE /\ m.pc = "cleanup"
             /\ \E i \in DOMAIN m.mine : NextToRemove(i) /\ m' = [m EXCEPT !.mine = RemoveAt(@, i)]
    <3>1. PICK c \in DOMAIN m.mine : NextToRemove(c) /\ m' = [m EXCEPT !.mine = RemoveAt(@, c)]
      BY <2>3
    <3>2. PassesOver(c)
      BY <2>3, <3>1 DEF PassesOver
    <3> QED BY <1>1, <1>5, <3>2
  <2> QED BY <2>1, <2>2, <2>3 DEF Fault

LEMMA FaultKeepsCopyInv ==
  ASSUME CopyInv, Fault
  PROVE  CopyInv'
<1>1. Types' /\ OpenIsLive' /\ trouble' >= trouble /\ trouble' > 0 /\ UNCHANGED <<copies, parks>>
  BY FaultChanges DEF CopyInv, Types, OpenIsLive, store
<1>2. CASE m' = Idle
  BY <1>1, <1>2, IdleIsTyped, SameCopies
<1>3. CASE m'.mine = m.mine /\ m'.run = m.run
  BY <1>1, <1>3, SameCopies
<1>4. ASSUME NEW c \in DOMAIN m.mine, PassesOver(c)  PROVE CopyInv'
  <2>1. /\ m'.run = m.run
        /\ \A i \in DOMAIN m'.mine : m'.mine[i] = m.mine[Skip(c, i)] /\ Skip(c, i) \in DOMAIN m.mine
        /\ \A i, j \in DOMAIN m'.mine : Skip(c, i) = Skip(c, j) => i = j
    BY <1>4, PassingOverLeaves
  <2>2. Names' = Names
    BY <1>1 DEF Names
  <2>3. NamesAreOwn'
    BY <1>1, <2>2 DEF CopyInv, NamesAreOwn
  <2>4. Mine' \subseteq Mine
    BY <2>1 DEF Mine
  <2>5. MineIsParked'
    BY <2>1, <2>2, <2>4 DEF CopyInv, MineIsParked
  <2>6. OnlyMergesAdopt'
    BY <2>1 DEF CopyInv, OnlyMergesAdopt, Own
  <2>7. AccountedFor'
    BY <1>1 DEF AccountedFor
  <2> QED BY <1>1, <2>3, <2>5, <2>6, <2>7 DEF CopyInv
<1> QED BY <1>2, <1>3, <1>4, FaultChanges

LEMMA CrashKeepsCopyInv ==
  ASSUME CopyInv, Crash
  PROVE  CopyInv'
<1>1. UNCHANGED <<policy, key, store, app>> /\ m' = Idle /\ trouble' = trouble + 1
  BY DEF Crash, hist
<1>2. Types' /\ OpenIsLive' /\ trouble' >= trouble /\ trouble' > 0 /\ UNCHANGED <<copies, parks>>
  BY <1>1, IdleIsTyped DEF CopyInv, Types, OpenIsLive, store
<1> QED BY <1>1, <1>2, IdleIsTyped, SameCopies

\* The reader changes nothing; a step of it, or of nobody.
ReaderStep == ReadStart \/ ReadCopy \/ ReadLive \/ Relist \/ ReadReturn
Untouched == UNCHANGED <<policy, key, live, copies, parks, archived, app, m, done, before, trouble>>
LEMMA ReaderTouchesNothing ==
  ASSUME ReaderStep \/ UNCHANGED vars
  PROVE  Untouched
BY DEF ReaderStep, ReadStart, ReadCopy, ReadLive, Relist, ReadReturn, RUnchanged, Untouched, hist, store, vars
LEMMA UntouchedKeepsCopyInv ==
  ASSUME CopyInv, Untouched
  PROVE  CopyInv'
<1>1. Types' /\ OpenIsLive' /\ trouble' >= trouble
  BY DEF Untouched, CopyInv, Types, OpenIsLive
<1>2. UNCHANGED <<copies, parks, m>>
  BY DEF Untouched
<1> QED BY <1>1, <1>2, SameCopies

LEMMA CopyStep == CopyInv /\ [Next]_vars => CopyInv'
<1> SUFFICES ASSUME CopyInv, [Next]_vars  PROVE CopyInv'
  OBVIOUS
<1>1. ASSUME NEW a \in Appenders, Write(a)  PROVE CopyInv'
  BY <1>1, WriteKeepsCopyInv
<1>2. ASSUME NEW a \in Appenders, NEW k \in Keys, Open(a, k)  PROVE CopyInv'
  BY <1>2, OpenKeepsCopyInv
<1>3. CASE Rotate \/ StartRewrite \/ StartMerge \/ Park \/ Look \/ WriteSurvivors \/ Publish
  BY <1>3, RotateKeepsCopyInv, StartRewriteKeepsCopyInv, StartMergeKeepsCopyInv, ParkKeepsCopyInv,
     LookKeepsCopyInv, WriteSurvivorsKeepsCopyInv, PublishKeepsCopyInv
<1>4. CASE RestorePark \/ RestoreMove \/ Archive \/ Cleanup \/ Fault \/ Crash
  BY <1>4, RestoreParkKeepsCopyInv, RestoreMoveKeepsCopyInv, ArchiveKeepsCopyInv, CleanupKeepsCopyInv,
     FaultKeepsCopyInv, CrashKeepsCopyInv
<1>5. CASE ReaderStep \/ UNCHANGED vars
  BY <1>5, ReaderTouchesNothing, UntouchedKeepsCopyInv
<1> QED BY <1>1, <1>2, <1>3, <1>4, <1>5 DEF Next, ReaderStep

\* Copies are left behind only by a death or a failing file operation: without one, every
\* copy that rewriteParked parked is among those its cleanup removes.
THEOREM LeftoversHaveCause == Spec => []CopiesHaveCause
<1>1. CopyInv => CopiesHaveCause
  <2>1. SUFFICES ASSUME CopyInv, m = Idle, trouble = 0  PROVE copies = <<>>
    BY DEF CopyInv, Types, CopiesHaveCause
  <2>2. DOMAIN m.mine = {}
    BY <2>1, IdleIsTyped
  <2>3. Mine = {}
    BY <2>2 DEF Mine
  <2>4. Names = {}
    BY <2>1, <2>3 DEF CopyInv, AccountedFor
  <2>5. DOMAIN copies = {}
    BY <2>4 DEF Names
  <2> QED BY <2>1, <2>5, EmptySeq, LenProperties DEF CopyInv, Types
<1> QED BY <1>1, InitIsCopyInv, CopyStep, PTL DEF Spec

-----------------------------------------------------------------------------
(* Lines and the files they are in *)

LEMMA FollowKeeps ==
  ASSUME Types, NEW to \in Int
  PROVE  \A a \in Appenders :
           /\ Follow(to)[a].line = app[a].line
           /\ (Follow(to)[a].at # None) <=> (app[a].at # None)
<1>1. to # None /\ Live # None
  BY NoneIsNoFile DEF Live
<1> QED BY <1>1 DEF Follow, Types

\* The lines of a copy of the run, and of the live file.
LEMMA MineIsNamed ==
  ASSUME CopyInv
  PROVE  /\ \A i \in DOMAIN m.mine :
              /\ m.mine[i].name \in Names /\ MineLines(i) \in Seq(Nat)
              /\ DOMAIN MineLines(i) = 1..Len(MineLines(i))
         /\ \A i, j \in DOMAIN m.mine : m.mine[i].name = m.mine[j].name => i = j
         /\ InFile(None) = {} /\ ToSet(<<>>) = {} /\ IsInjective(<<>>)
         /\ live # None => live \in Seq(Nat) /\ InFile(live) = ToSet(live)
<1>1. \A i \in DOMAIN m.mine : m.mine[i].name \in Names
  BY DEF CopyInv, MineIsParked, Mine
<1>2. \A i \in DOMAIN m.mine : MineLines(i) \in Seq(Nat)
  BY CopyFound DEF CopyInv, MineLines
<1>3. \A i \in DOMAIN m.mine : DOMAIN MineLines(i) = 1..Len(MineLines(i))
  BY <1>2, LenProperties
<1>4. \A i, j \in DOMAIN m.mine : m.mine[i].name = m.mine[j].name => i = j
  BY DEF CopyInv, MineIsParked
<1>5. InFile(None) = {} /\ ToSet(<<>>) = {} /\ IsInjective(<<>>)
  BY DEF InFile, ToSet, IsInjective
<1>6. live # None => live \in Seq(Nat) /\ InFile(live) = ToSet(live)
  BY DEF CopyInv, Types, InFile
<1> QED BY <1>1, <1>2, <1>3, <1>4, <1>5, <1>6

\* A file gathered from places of the run's copies where no line is twice.
LEMMA GatheredFits ==
  ASSUME DoubleInv, NEW P \in SUBSET Places(DOMAIN m.mine),
         \A p, q \in P : LineAt(p) = LineAt(q) => p = q
  PROVE  Gather(P) \in Seq(Nat) /\ Fits(Gather(P))
<1> DEFINE K == 1..Cardinality(P)
<1>1. /\ Places(DOMAIN m.mine) \in SUBSET (Nat \X Nat) /\ IsFiniteSet(Places(DOMAIN m.mine))
      /\ \A p \in Places(DOMAIN m.mine) :
           /\ p[1] \in DOMAIN m.mine /\ p[2] \in DOMAIN MineLines(p[1])
           /\ LineAt(p) = MineLines(p[1])[p[2]] /\ LineAt(p) \in Nat
  BY PlacesHold DEF DoubleInv, CopyInv
<1>2. P \in SUBSET (Nat \X Nat) /\ IsFiniteSet(P) /\ \A p \in P : LineAt(p) \in Nat
  BY <1>1, FS_Subset
<1>3. /\ Gather(P) \in Seq(Nat) /\ DOMAIN Gather(P) = K
      /\ \E f \in [K -> P] :
           /\ \A k \in K : Gather(P)[k] = LineAt(f[k])
           /\ \A j, k \in K : j < k => f[j] # f[k] /\ Precedes(f[j], f[k])
           /\ \A p \in P : \E k \in K : f[k] = p
  BY <1>2, GatherEnumerates
<1>4. PICK f \in [K -> P] :
           /\ \A k \in K : Gather(P)[k] = LineAt(f[k])
           /\ \A j, k \in K : j < k => f[j] # f[k]
  BY <1>3
<1>5. IsInjective(Gather(P))
  <2>1. SUFFICES ASSUME NEW j \in K, NEW k \in K, Gather(P)[j] = Gather(P)[k]  PROVE j = k
    BY <1>3 DEF IsInjective
  <2>2. f[j] = f[k]
    BY <1>4, <2>1
  <2>3. j \in Int /\ k \in Int
    OBVIOUS
  <2> QED BY <1>4, <2>2, <2>3
<1>6. ASSUME NEW x \in ToSet(Gather(P))
      PROVE  \E n \in Names : x \in ToSet(CopyLines(n))
  <2>1. PICK k \in K : x = Gather(P)[k]
    BY <1>3 DEF ToSet
  <2>2. f[k] \in P /\ x = LineAt(f[k])
    BY <1>4, <2>1
  <2>3. x \in ToSet(MineLines(f[k][1])) /\ f[k][1] \in DOMAIN m.mine
    BY <1>1, <2>2 DEF ToSet
  <2>4. m.mine[f[k][1]].name \in Names
    BY <2>3, MineIsNamed DEF DoubleInv
  <2> QED BY <2>3, <2>4 DEF MineLines
<1>7. ToSet(Gather(P)) \subseteq Lines
  BY <1>6 DEF DoubleInv, LinesAreKnown
<1>8. \A a \in Appenders : app[a].at # None => app[a].line \notin ToSet(Gather(P))
  BY <1>6 DEF DoubleInv, PendingIsNowhere
<1> QED BY <1>3, <1>5, <1>7, <1>8 DEF Fits

\* The union of a run's own copies has no line twice.
LEMMA OwnUnionFits ==
  ASSUME DoubleInv, Rewriting
  PROVE  Gather(Places(Own)) \in Seq(Nat) /\ Fits(Gather(Places(Own)))
<1>1. /\ \A p \in Places(Own) :
           /\ p[1] \in Own /\ p[2] \in DOMAIN MineLines(p[1]) /\ p = <<p[1], p[2]>>
           /\ LineAt(p) = MineLines(p[1])[p[2]]
  BY OwnIsMine, PlacesHold DEF DoubleInv, CopyInv
<1>2. Places(Own) \in SUBSET Places(DOMAIN m.mine)
  BY DEF Places, Own
<1>3. ASSUME NEW p \in Places(Own), NEW q \in Places(Own), LineAt(p) = LineAt(q)  PROVE p = q
  <2>1. LineAt(p) \in ToSet(MineLines(p[1])) /\ LineAt(q) \in ToSet(MineLines(q[1]))
    BY <1>1 DEF ToSet
  <2>2. p[1] = q[1]
    BY <1>1, <1>3, <2>1 DEF DoubleInv, OwnIsDisjoint
  <2>3. IsInjective(MineLines(p[1]))
    <3>1. m.mine[p[1]].name \in Names
      BY <1>1, OwnIsMine, MineIsNamed DEF DoubleInv
    <3> QED BY <3>1 DEF DoubleInv, FilesAreInjective, MineLines
  <2>4. p[2] = q[2]
    BY <1>1, <1>3, <2>2, <2>3 DEF IsInjective
  <2> QED BY <1>1, <2>2, <2>4
<1> QED BY <1>2, <1>3, GatheredFits

\* The survivors have no line twice: own copies share none, and a merge keeps of the
\* lines it has seen the first one only.
LEMMA SurvivorsFit ==
  ASSUME DoubleInv, Rewriting
  PROVE  Gather(Survivors) \in Seq(Nat) /\ Fits(Gather(Survivors))
<1>1. \A p \in Survivors :
        /\ p \in Places(DOMAIN m.mine) /\ p[1] \in DOMAIN m.mine /\ p[1] \in Nat
        /\ p[2] \in DOMAIN MineLines(p[1]) /\ p = <<p[1], p[2]>>
        /\ LineAt(p) = MineLines(p[1])[p[2]] /\ LineAt(p) \in ToSet(MineLines(p[1]))
        /\ p \in Indexed \/ p[2] > m.mine[p[1]].indexed
  <2>1. SUFFICES ASSUME NEW p \in Survivors
                 PROVE  /\ p \in Places(DOMAIN m.mine) /\ p[1] \in DOMAIN m.mine /\ p[1] \in Nat
                        /\ p[2] \in DOMAIN MineLines(p[1]) /\ p = <<p[1], p[2]>>
                        /\ LineAt(p) = MineLines(p[1])[p[2]] /\ LineAt(p) \in ToSet(MineLines(p[1]))
                        /\ p \in Indexed \/ p[2] > m.mine[p[1]].indexed
    OBVIOUS
  <2>2. p \in Places(DOMAIN m.mine)
    BY DEF Survivors
  <2>3. /\ p[1] \in DOMAIN m.mine /\ p[2] \in DOMAIN MineLines(p[1]) /\ p = <<p[1], p[2]>>
        /\ LineAt(p) = MineLines(p[1])[p[2]]
    BY <2>2, PlacesHold DEF DoubleInv, CopyInv
  <2>4. p[1] \in Nat /\ p[2] \in Nat /\ m.mine[p[1]].indexed \in Nat
    <3>1. MineLines(p[1]) \in Seq(Nat)
      BY <2>3, MineIsNamed DEF DoubleInv
    <3>2. DOMAIN MineLines(p[1]) = 1..Len(MineLines(p[1]))
      BY <3>1, LenProperties
    <3> QED BY <2>3, <3>2, MaintainerFields DEF DoubleInv, CopyInv
  <2>5. p \in Indexed \/ p[2] > m.mine[p[1]].indexed
    BY <2>2, <2>4 DEF Indexed
  <2> QED BY <2>2, <2>3, <2>4, <2>5 DEF ToSet
<1>2. ASSUME NEW p \in Survivors, NEW q \in Survivors, LineAt(p) = LineAt(q)
      PROVE  ~(p[1] < q[1])
  <2>1. SUFFICES ASSUME p[1] < q[1]  PROVE FALSE
    OBVIOUS
  <2>2. p[1] \in DOMAIN m.mine /\ q[1] \in DOMAIN m.mine /\ p[1] # q[1]
        /\ LineAt(p) \in ToSet(MineLines(p[1])) /\ LineAt(p) \in ToSet(MineLines(q[1]))
    BY <1>1, <1>2, <2>1
  <2>3. CASE m.run # "merge"
    <3>1. p[1] \in Own /\ q[1] \in Own
      BY <2>2, <2>3 DEF DoubleInv, CopyInv, OnlyMergesAdopt
    <3> QED BY <2>2, <3>1 DEF DoubleInv, OwnIsDisjoint
  <2>4. CASE p[2] > m.mine[p[1]].indexed
    BY <1>1, <2>2, <2>4 DEF DoubleInv, LateIsNowhereElse
  <2>5. CASE q[2] > m.mine[q[1]].indexed
    BY <1>1, <1>2, <2>2, <2>5 DEF DoubleInv, LateIsNowhereElse
  <2>6. CASE m.run = "merge" /\ p \in Indexed /\ q \in Indexed
    <3>1. EarlierFile(q)
      BY <1>2, <2>1, <2>6 DEF EarlierFile
    <3>2. Keep(q)
      BY <2>6 DEF Survivors
    <3> QED BY <2>6, <3>1, <3>2 DEF Keep
  <2> QED BY <1>1, <2>3, <2>4, <2>5, <2>6
<1>3. ASSUME NEW p \in Survivors, NEW q \in Survivors, LineAt(p) = LineAt(q)  PROVE p = q
  <2>1. p[1] = q[1]
    BY <1>1, <1>2, <1>3
  <2>2. IsInjective(MineLines(p[1]))
    <3>1. m.mine[p[1]].name \in Names
      BY <1>1, MineIsNamed DEF DoubleInv
    <3> QED BY <3>1 DEF DoubleInv, FilesAreInjective, MineLines
  <2>3. p[2] = q[2]
    BY <1>1, <1>3, <2>1, <2>2 DEF IsInjective
  <2> QED BY <1>1, <2>1, <2>3
<1>4. Survivors \in SUBSET Places(DOMAIN m.mine)
  BY <1>1
<1> QED BY <1>3, <1>4, GatheredFits

\* Steps of the maintainer that leave the files alone.
LEMMA SameFiles ==
  ASSUME DoubleInv, CopyInv', UNCHANGED <<key, live, copies, app>>,
         m'.temp \in {m.temp, <<>>} \/ Fits(m'.temp),
         \/ ~Rewriting'
         \/ Rewriting /\ m'.mine = m.mine
         \/ DOMAIN m'.mine = {}
         \/ OwnIsDisjoint' /\ LateIsNowhereElse'
  PROVE  DoubleInv'
<1>1. Names' = Names /\ \A n : CopyLines(n)' = CopyLines(n)
  BY DEF Names, CopyLines, Copy
<1>2. InFile(live)' = InFile(live) /\ Lines' = Lines
  BY DEF InFile, Lines
<1>3. FilesAreInjective' /\ LinesAreKnown' /\ PendingIsNowhere'
  BY <1>1, <1>2 DEF DoubleInv, FilesAreInjective, LinesAreKnown, PendingIsNowhere
<1>4. Fits(m.temp)'
  <2>1. Fits(m'.temp)
    BY MineIsNamed DEF DoubleInv, Fits
  <2> QED BY <1>2, <2>1 DEF Fits
<1>5. Rewriting' => OwnIsDisjoint' /\ LateIsNowhereElse'
  <2>1. CASE Rewriting /\ m'.mine = m.mine
    <3>1. Own' = Own /\ \A i : MineLines(i)' = MineLines(i)
      BY <1>1, <2>1 DEF Own, MineLines
    <3> QED BY <1>2, <2>1, <3>1 DEF DoubleInv, OwnIsDisjoint, LateIsNowhereElse
  <2>2. CASE DOMAIN m'.mine = {}
    <3>1. Own' = {}
      BY <2>2 DEF Own
    <3> QED BY <2>2, <3>1 DEF OwnIsDisjoint, LateIsNowhereElse
  <2> QED BY <2>1, <2>2
<1> QED BY <1>3, <1>4, <1>5 DEF DoubleInv

LEMMA InitIsDoubleInv == Init => DoubleInv
<1> SUFFICES ASSUME Init  PROVE DoubleInv
  OBVIOUS
<1>1. CopyInv
  BY InitIsCopyInv
<1>2. live = [i \in 1..StartLines |-> i] /\ Len(key) = StartLines /\ live # None
  BY <1>1, StoreAssumption, NoneIsNoFile DEF Init
<1>3. InFile(live) \subseteq Lines /\ IsInjective(live)
  BY <1>2 DEF InFile, ToSet, Lines, IsInjective
<1>4. Names = {}
  BY DEF Init, Names
<1>5. m = Idle /\ m.temp = <<>> /\ ~Rewriting
  BY IdleIsTyped DEF Init, Rewriting
<1>6. \A a \in Appenders : app[a].at = None
  BY DEF Init
<1>7. Fits(m.temp)
  BY <1>1, <1>5, MineIsNamed DEF Fits
<1> QED BY <1>1, <1>2, <1>3, <1>4, <1>5, <1>6, <1>7
        DEF DoubleInv, FilesAreInjective, LinesAreKnown, PendingIsNowhere

LEMMA OpenKeepsDoubleInv ==
  ASSUME DoubleInv, NEW a \in Appenders, NEW k \in Keys, Open(a, k)
  PROVE  DoubleInv'
<1>1. CopyInv'
  BY OpenKeepsCopyInv DEF DoubleInv
<1>2. UNCHANGED <<copies, m>> /\ live' = IF live = None THEN <<>> ELSE live
  BY DEF Open
<1>3. Names' = Names /\ Own' = Own /\ \A n : CopyLines(n)' = CopyLines(n) /\ MineLines(n)' = MineLines(n)
  BY <1>2 DEF Names, CopyLines, Copy, Own, MineLines
<1>4. Len(key) \in Nat /\ Len(key') = Len(key) + 1
  BY LenProperties DEF DoubleInv, CopyInv, Types, Open
<1>5. Lines' = Lines \cup {Len(key) + 1} /\ Len(key) + 1 \notin Lines
  BY <1>4 DEF Lines
<1>6. InFile(live)' = InFile(live) /\ (live' # None => IsInjective(live'))
  <2>1. CASE live = None
    <3>1. live' = <<>>
      BY <1>2, <2>1
    <3>2. <<>> # None /\ InFile(<<>>) = {} /\ InFile(None) = {} /\ IsInjective(<<>>)
      BY EmptySeq, NoneIsNoFile, MineIsNamed DEF InFile, DoubleInv
    <3> QED BY <2>1, <3>1, <3>2 DEF InFile
  <2>2. CASE live # None
    BY <1>2, <2>2 DEF InFile, DoubleInv, FilesAreInjective
  <2> QED BY <2>1, <2>2
<1>7. app' = [app EXCEPT ![a] = [at |-> Live, line |-> Len(key) + 1]] /\ app[a].at = None
  BY DEF Open
<1>8. /\ app'[a].line = Len(key) + 1
      /\ \A b \in Appenders \ {a} : app'[b] = app[b]
  BY <1>7 DEF DoubleInv, CopyInv, Types
<1>9. FilesAreInjective' /\ LinesAreKnown'
  BY <1>3, <1>5, <1>6 DEF DoubleInv, FilesAreInjective, LinesAreKnown
<1>10. PendingIsNowhere'
  <2>1. Len(key) + 1 \notin InFile(live) /\ \A n \in Names : Len(key) + 1 \notin ToSet(CopyLines(n))
    BY <1>5 DEF DoubleInv, LinesAreKnown
  <2>2. ASSUME NEW b \in Appenders, app'[b].at # None
        PROVE  /\ app'[b].line \in Lines' \ InFile(live)'
               /\ \A n \in Names' : app'[b].line \notin ToSet(CopyLines(n)')
               /\ \A c \in Appenders : app'[c].at # None /\ app'[c].line = app'[b].line => b = c
    <3>1. CASE b = a
      <4>1. \A c \in Appenders \ {a} : app'[c].at # None => app'[c].line \in Lines
        BY <1>8 DEF DoubleInv, PendingIsNowhere
      <4> QED BY <1>3, <1>5, <1>6, <1>8, <2>1, <3>1, <4>1
    <3>2. CASE b # a
      <4>1. /\ app'[b] = app[b] /\ app[b].line \in Lines \ InFile(live)
            /\ \A n \in Names : app[b].line \notin ToSet(CopyLines(n))
            /\ \A c \in Appenders : app[c].at # None /\ app[c].line = app[b].line => b = c
        BY <1>8, <2>2, <3>2 DEF DoubleInv, PendingIsNowhere
      <4>2. app'[b].line \in Lines' \ InFile(live)'
        BY <1>5, <1>6, <4>1
      <4>3. \A n \in Names' : app'[b].line \notin ToSet(CopyLines(n)')
        BY <1>3, <4>1
      <4>4. ASSUME NEW c \in Appenders, app'[c].at # None /\ app'[c].line = app'[b].line  PROVE b = c
        <5>1. CASE c = a
          BY <1>5, <1>8, <4>1, <4>4, <5>1
        <5>2. CASE c # a
          <6>1. app'[c] = app[c]
            BY <1>8, <5>2
          <6>2. app[c].at # None /\ app[c].line = app[b].line
            BY <4>1, <4>4, <6>1
          <6> QED BY <4>1, <6>2
        <5> QED BY <5>1, <5>2
      <4> QED BY <4>2, <4>3, <4>4
    <3> QED BY <3>1, <3>2
  <2> QED BY <2>2 DEF PendingIsNowhere
<1>11. Fits(m.temp)'
  <2>1. m'.temp = m.temp /\ Len(key) + 1 \notin ToSet(m.temp)
    BY <1>2, <1>5 DEF DoubleInv, Fits
  <2> QED BY <1>5, <1>8, <2>1 DEF DoubleInv, Fits
<1>12. Rewriting' => OwnIsDisjoint' /\ LateIsNowhereElse'
  <2>1. Rewriting' = Rewriting /\ m' = m
    BY <1>2 DEF Rewriting
  <2> QED BY <1>3, <1>6, <2>1 DEF DoubleInv, OwnIsDisjoint, LateIsNowhereElse
<1> QED BY <1>1, <1>9, <1>10, <1>11, <1>12 DEF DoubleInv

\* A written line is new to every file, and is then in one.
LEMMA WriteKeepsDoubleInv ==
  ASSUME DoubleInv, NEW a \in Appenders, Write(a)
  PROVE  DoubleInv'
<1> DEFINE x == app[a].line
           at == app[a].at
<1>1. CopyInv'
  BY WriteKeepsCopyInv DEF DoubleInv
<1>2. UNCHANGED <<key, m>> /\ at # None /\ Names' = Names /\ x \in Nat
  BY WriteChanges DEF Write, DoubleInv
<1>3. Lines' = Lines /\ Own' = Own /\ Rewriting' = Rewriting
  BY <1>2 DEF Lines, Own, Rewriting
<1>4. /\ x \in Lines /\ x \notin InFile(live) /\ \A n \in Names : x \notin ToSet(CopyLines(n))
      /\ \A b \in Appenders : app[b].at # None /\ app[b].line = x => a = b
  BY <1>2 DEF DoubleInv, PendingIsNowhere
<1>5. Live \notin Names
  BY DEF Live, DoubleInv, CopyInv, NamesAreOwn
<1>6. /\ at = Live => InFile(live)' = InFile(live) \cup {x}
      /\ at # Live => InFile(live)' = InFile(live)
      /\ live' # None => IsInjective(live')
  <2>1. CASE at = Live
    <3>1. live \in Seq(Nat) /\ live' = Append(live, x) /\ live # None /\ live' # None
      BY <2>1, WriteChanges, NoneIsNoFile DEF DoubleInv
    <3>2. InFile(live) = ToSet(live) /\ InFile(live)' = ToSet(live')
      BY <3>1 DEF InFile
    <3>3. IsInjective(live) /\ x \notin ToSet(live)
      BY <1>4, <3>1, <3>2 DEF DoubleInv, FilesAreInjective
    <3> QED BY <1>2, <2>1, <3>1, <3>2, <3>3, AppendedLine
  <2>2. CASE at # Live
    <3>1. live' = live
      BY <2>2, WriteChanges DEF DoubleInv
    <3> QED BY <2>2, <3>1 DEF InFile, DoubleInv, FilesAreInjective
  <2> QED BY <2>1, <2>2
<1>7. ASSUME NEW n \in Names
      PROVE  /\ n = at => ToSet(CopyLines(n)') = ToSet(CopyLines(n)) \cup {x}
             /\ n # at => CopyLines(n)' = CopyLines(n)
             /\ IsInjective(CopyLines(n)')
             /\ CopyLines(n)' = IF n = at THEN Append(CopyLines(n), x) ELSE CopyLines(n)
  <2>1. CopyLines(n)' = IF n = at THEN Append(CopyLines(n), x) ELSE CopyLines(n)
    BY WriteChanges DEF DoubleInv
  <2>2. CopyLines(n) \in Seq(Nat) /\ IsInjective(CopyLines(n)) /\ x \notin ToSet(CopyLines(n))
    BY <1>4, CopyFound DEF DoubleInv, FilesAreInjective, CopyInv
  <2> QED BY <1>2, <2>1, <2>2, AppendedLine
<1>8. FilesAreInjective' /\ LinesAreKnown'
  <2>1. FilesAreInjective'
    BY <1>2, <1>6, <1>7 DEF FilesAreInjective
  <2>2. InFile(live)' \subseteq Lines
    BY <1>4, <1>6 DEF DoubleInv, LinesAreKnown
  <2>3. \A n \in Names : ToSet(CopyLines(n)') \subseteq Lines
    BY <1>4, <1>7 DEF DoubleInv, LinesAreKnown
  <2> QED BY <1>2, <1>3, <2>1, <2>2, <2>3 DEF LinesAreKnown
<1>9. /\ app'[a].at = None
      /\ \A b \in Appenders \ {a} : app'[b] = app[b]
  BY WriteChanges DEF DoubleInv, CopyInv, Types
<1>10. PendingIsNowhere'
  <2>1. ASSUME NEW b \in Appenders, app'[b].at # None
        PROVE  /\ app'[b].line \in Lines' \ InFile(live)'
               /\ \A n \in Names' : app'[b].line \notin ToSet(CopyLines(n)')
               /\ \A c \in Appenders : app'[c].at # None /\ app'[c].line = app'[b].line => b = c
    <3>1. b # a /\ app'[b] = app[b]
      BY <1>9, <2>1
    <3>2. /\ app[b].line \in Lines \ InFile(live) /\ app[b].line # x
          /\ \A n \in Names : app[b].line \notin ToSet(CopyLines(n))
          /\ \A c \in Appenders : app[c].at # None /\ app[c].line = app[b].line => b = c
      BY <1>4, <2>1, <3>1 DEF DoubleInv, PendingIsNowhere
    <3>3. \A n \in Names' : app'[b].line \notin ToSet(CopyLines(n)')
      BY <1>2, <1>7, <3>1, <3>2
    <3>4. app'[b].line \in Lines' \ InFile(live)'
      BY <1>3, <1>6, <3>1, <3>2
    <3> QED BY <1>9, <3>1, <3>2, <3>3, <3>4
  <2> QED BY <2>1 DEF PendingIsNowhere
<1>11. Fits(m.temp)'
  BY <1>2, <1>3, <1>9 DEF DoubleInv, Fits
<1>12. ASSUME Rewriting  PROVE OwnIsDisjoint' /\ LateIsNowhereElse'
  <2>1. \A i \in DOMAIN m.mine : m.mine[i].name \in Names /\ MineLines(i) \in Seq(Nat)
    BY MineIsNamed DEF DoubleInv
  <2>2. \A i, j \in DOMAIN m.mine : i # j => m.mine[i].name # m.mine[j].name
    BY MineIsNamed DEF DoubleInv
  <2>3. ASSUME NEW i \in DOMAIN m.mine
        PROVE  /\ m.mine[i].name = at => MineLines(i)' = Append(MineLines(i), x)
               /\ m.mine[i].name = at => ToSet(MineLines(i)') = ToSet(MineLines(i)) \cup {x}
               /\ m.mine[i].name # at => MineLines(i)' = MineLines(i)
               /\ x \notin ToSet(MineLines(i)) /\ m'.mine[i] = m.mine[i]
               /\ m.mine[i].name = at => at # Live
    BY <1>2, <1>4, <1>5, <1>7, <2>1 DEF MineLines
  <2>4. OwnIsDisjoint'
    <3>1. ASSUME NEW i \in Own  PROVE ToSet(MineLines(i)') \cap InFile(live)' = {}
      <4>1. i \in DOMAIN m.mine /\ ToSet(MineLines(i)) \cap InFile(live) = {}
        BY <1>12 DEF DoubleInv, OwnIsDisjoint, Own
      <4> QED BY <1>4, <1>6, <2>3, <4>1
    <3>2. ASSUME NEW i \in Own, NEW j \in Own, i # j
          PROVE  ToSet(MineLines(i)') \cap ToSet(MineLines(j)') = {}
      <4>1. i \in DOMAIN m.mine /\ j \in DOMAIN m.mine /\ ToSet(MineLines(i)) \cap ToSet(MineLines(j)) = {}
        BY <1>12, <3>2 DEF DoubleInv, OwnIsDisjoint, Own
      <4>2. m.mine[i].name # m.mine[j].name
        BY <2>2, <3>2, <4>1
      <4> QED BY <2>3, <4>1, <4>2
    <3> QED BY <1>3, <3>1, <3>2 DEF OwnIsDisjoint
  <2>5. LateIsNowhereElse'
    <3>1. ASSUME NEW i \in DOMAIN m.mine, NEW k \in DOMAIN MineLines(i)', k > m.mine[i].indexed
          PROVE  /\ MineLines(i)'[k] \notin InFile(live)'
                 /\ \A j \in DOMAIN m.mine : i # j => MineLines(i)'[k] \notin ToSet(MineLines(j)')
      <4>1. CASE k \in DOMAIN MineLines(i) /\ MineLines(i)'[k] = MineLines(i)[k]
        <5> DEFINE y == MineLines(i)[k]
        <5>1. y \in ToSet(MineLines(i)) /\ y # x
          BY <2>3, <4>1 DEF ToSet
        <5>2. y \notin InFile(live) /\ \A j \in DOMAIN m.mine : i # j => y \notin ToSet(MineLines(j))
          BY <1>12, <3>1, <4>1 DEF DoubleInv, LateIsNowhereElse
        <5> HIDE DEF y
        <5>3. y \notin InFile(live)'
          BY <1>6, <5>1, <5>2
        <5>4. \A j \in DOMAIN m.mine : i # j => y \notin ToSet(MineLines(j)')
          BY <2>3, <5>1, <5>2
        <5> QED BY <4>1, <5>3, <5>4 DEF y
      <4>2. CASE m.mine[i].name = at /\ MineLines(i)'[k] = x
        <5>1. x \notin InFile(live)'
          BY <1>4, <1>6, <2>3, <4>2
        <5>2. \A j \in DOMAIN m.mine : i # j => MineLines(j)' = MineLines(j)
          BY <2>2, <2>3, <4>2
        <5> QED BY <2>3, <4>2, <5>1, <5>2
      <4>3. CASE m.mine[i].name # at
        BY <2>3, <4>1, <4>3, <3>1
      <4>4. CASE m.mine[i].name = at
        <5>1. MineLines(i)' = Append(MineLines(i), x) /\ MineLines(i) \in Seq(Nat)
          BY <2>1, <2>3, <4>4
        <5>2. DOMAIN MineLines(i)' = 1..(Len(MineLines(i)) + 1) /\ DOMAIN MineLines(i) = 1..Len(MineLines(i))
              /\ Len(MineLines(i)) \in Nat
          BY <1>2, <5>1, LenProperties
        <5>3. CASE k \in DOMAIN MineLines(i)
          <6>1. MineLines(i)'[k] = MineLines(i)[k]
            BY <1>2, <5>1, <5>2, <5>3
          <6> QED BY <4>1, <5>3, <6>1
        <5>4. CASE k \notin DOMAIN MineLines(i)
          <6>1. k = Len(MineLines(i)) + 1
            BY <3>1, <5>2, <5>4
          <6>2. MineLines(i)'[k] = x
            BY <1>2, <5>1, <5>2, <6>1
          <6> QED BY <4>2, <4>4, <6>2
        <5> QED BY <5>3, <5>4
      <4> QED BY <4>3, <4>4
    <3> QED BY <1>2, <3>1 DEF LateIsNowhereElse
  <2> QED BY <2>4, <2>5
<1> QED BY <1>1, <1>3, <1>8, <1>10, <1>11, <1>12 DEF DoubleInv

\* The lines of the live file go with it into a copy of its own.
LEMMA ParkedKeepsDoubleInv ==
  ASSUME DoubleInv, CopyInv', Rewriting, live # None, NEW pc \in MaintainerPcs, Parked(pc), UNCHANGED key
  PROVE  DoubleInv'
<1>0. PICK N : N = Len(m.mine) + 1
  OBVIOUS
<1>1. /\ live \in Seq(Nat) /\ parks' = parks + 1 /\ live' = None /\ parks \in Nat
      /\ app' = Follow(parks + 1) /\ m'.temp = m.temp
      /\ DOMAIN m'.mine = 1..N
      /\ \A i \in DOMAIN m.mine : i # N /\ m'.mine[i] = m.mine[i]
      /\ m'.mine[N] = [name |-> parks + 1, indexed |-> Len(live), adopted |-> FALSE]
  BY <1>0, ParkedJoins DEF DoubleInv, CopyInv, Types
<1>2. DOMAIN m.mine = 1..Len(m.mine) /\ Len(m.mine) \in Nat
  BY MaintainerFields DEF DoubleInv, CopyInv
<1>3. DOMAIN m'.mine = DOMAIN m.mine \cup {N} /\ N \notin DOMAIN m.mine
  BY <1>0, <1>1, <1>2
<1>4. m'.mine[N].name = parks + 1 /\ m'.mine[N].indexed = Len(live) /\ m'.mine[N].adopted = FALSE
  BY <1>1
<1>5. Names' = Names \cup {parks + 1} /\ parks + 1 \notin Names
      /\ \A n : CopyLines(n)' = IF n = parks + 1 THEN live ELSE CopyLines(n)
  BY <1>1, CopyAdded DEF DoubleInv, CopyInv, Parked
<1>6. /\ Lines' = Lines /\ InFile(live)' = {} /\ InFile(live) = ToSet(live)
      /\ IsInjective(live) /\ InFile(live) \subseteq Lines
  BY <1>1, MineIsNamed DEF Lines, InFile, DoubleInv, FilesAreInjective, LinesAreKnown
<1>7. \A a \in Appenders : app'[a].line = app[a].line /\ (app'[a].at # None <=> app[a].at # None)
  <2>1. parks + 1 \in Int
    BY <1>1
  <2>2. Types
    BY DEF DoubleInv, CopyInv
  <2>3. \A a \in Appenders :
          /\ Follow(parks + 1)[a].line = app[a].line
          /\ (Follow(parks + 1)[a].at # None) <=> (app[a].at # None)
    BY <2>1, <2>2, FollowKeeps
  <2> QED BY <1>1, <2>3
<1>8. FilesAreInjective'
  BY <1>1, <1>5, <1>6 DEF DoubleInv, FilesAreInjective
<1>9. LinesAreKnown'
  BY <1>5, <1>6 DEF DoubleInv, LinesAreKnown
<1>10. PendingIsNowhere'
  BY <1>5, <1>6, <1>7 DEF DoubleInv, PendingIsNowhere
<1>11. Fits(m.temp)'
  BY <1>1, <1>6, <1>7 DEF DoubleInv, Fits
<1>12. /\ MineLines(N)' = live
       /\ \A i \in DOMAIN m.mine : m'.mine[i] = m.mine[i] /\ MineLines(i)' = MineLines(i)
  <2>1. MineLines(N)' = live
    BY <1>4, <1>5 DEF MineLines
  <2>2. ASSUME NEW i \in DOMAIN m.mine  PROVE m'.mine[i] = m.mine[i] /\ MineLines(i)' = MineLines(i)
    <3>1. m'.mine[i] = m.mine[i] /\ m.mine[i].name # parks + 1
      BY <1>1, <1>5, MineIsNamed DEF DoubleInv
    <3> QED BY <1>5, <3>1 DEF MineLines
  <2> QED BY <2>1, <2>2
<1>13. Own' = Own \cup {N}
  BY <1>3, <1>4, <1>12 DEF Own
<1>14. OwnIsDisjoint'
  <2>1. \A i \in Own : i \in DOMAIN m.mine
    BY DEF Own
  <2>2. ASSUME NEW i \in Own', NEW j \in Own', i # j  PROVE ToSet(MineLines(i)') \cap ToSet(MineLines(j)') = {}
    <3>1. CASE i \in Own /\ j \in Own
      BY <1>12, <2>1, <2>2, <3>1 DEF DoubleInv, OwnIsDisjoint
    <3>2. CASE i \in Own /\ j = N
      BY <1>6, <1>12, <2>1, <3>2 DEF DoubleInv, OwnIsDisjoint
    <3>3. CASE i = N /\ j \in Own
      BY <1>6, <1>12, <2>1, <3>3 DEF DoubleInv, OwnIsDisjoint
    <3> QED BY <1>13, <2>2, <3>1, <3>2, <3>3
  <2> QED BY <1>6, <2>2 DEF OwnIsDisjoint
<1>15. LateIsNowhereElse'
  <2>1. ASSUME NEW i \in DOMAIN m'.mine, NEW k \in DOMAIN MineLines(i)', k > m'.mine[i].indexed,
               NEW j \in DOMAIN m'.mine, i # j
        PROVE  MineLines(i)'[k] \notin ToSet(MineLines(j)')
    <3>1. i \in DOMAIN m.mine
      <4>1. SUFFICES ASSUME i = N  PROVE FALSE
        BY <1>3
      <4>2. k \in DOMAIN live /\ k > Len(live) /\ DOMAIN live = 1..Len(live)
        BY <1>1, <1>4, <1>12, <2>1, <4>1, LenProperties
      <4> QED BY <1>1, <4>2, LenProperties
    <3>2. MineLines(i)'[k] = MineLines(i)[k] /\ k \in DOMAIN MineLines(i) /\ k > m.mine[i].indexed
      BY <1>12, <2>1, <3>1
    <3>3. CASE j = N
      BY <1>6, <1>12, <3>1, <3>2, <3>3 DEF DoubleInv, LateIsNowhereElse
    <3>4. CASE j \in DOMAIN m.mine
      BY <1>12, <2>1, <3>1, <3>2, <3>4 DEF DoubleInv, LateIsNowhereElse
    <3> QED BY <1>3, <3>3, <3>4
  <2> QED BY <1>6, <2>1 DEF LateIsNowhereElse
<1> QED BY <1>8, <1>9, <1>10, <1>11, <1>14, <1>15 DEF DoubleInv

\* A result put in place: it fits, and the run is no longer rewriting.
LEMMA PlacedKeepsDoubleInv ==
  ASSUME DoubleInv, CopyInv', live' \in Seq(Nat), Fits(live'), app' = Follow(Gone),
         UNCHANGED <<key, copies>>, m'.temp \in {m.temp, <<>>}, ~Rewriting'
  PROVE  DoubleInv'
<1>1. Names' = Names /\ \A n : CopyLines(n)' = CopyLines(n)
  BY DEF Names, CopyLines, Copy
<1>2. Lines' = Lines /\ InFile(live)' = ToSet(live') /\ live' # None
  BY NoneIsNoFile DEF Lines, InFile
<1>3. \A a \in Appenders : app'[a].line = app[a].line /\ (app'[a].at # None <=> app[a].at # None)
  <2>1. Gone \in Int
    BY DEF Gone
  <2>2. Types
    BY DEF DoubleInv, CopyInv
  <2>3. \A a \in Appenders :
          /\ Follow(Gone)[a].line = app[a].line
          /\ (Follow(Gone)[a].at # None) <=> (app[a].at # None)
    BY <2>1, <2>2, FollowKeeps
  <2> QED BY <2>3
<1>4. FilesAreInjective' /\ LinesAreKnown'
  BY <1>1, <1>2 DEF DoubleInv, FilesAreInjective, LinesAreKnown, Fits
<1>5. PendingIsNowhere'
  BY <1>1, <1>2, <1>3 DEF DoubleInv, PendingIsNowhere, Fits
<1>6. Fits(m.temp)'
  <2>1. Fits(m'.temp)
    BY MineIsNamed DEF DoubleInv, Fits
  <2> QED BY <1>2, <1>3, <2>1 DEF Fits
<1> QED BY <1>4, <1>5, <1>6 DEF DoubleInv

LEMMA RotateKeepsDoubleInv ==
  ASSUME DoubleInv, Rotate
  PROVE  DoubleInv'
<1>1. CopyInv'
  BY RotateKeepsCopyInv DEF DoubleInv
<1>2. UNCHANGED <<key, copies, app, m>> /\ live' = None /\ m = Idle
  BY DEF Rotate, MUnchanged
<1>3. Names' = Names /\ \A n : CopyLines(n)' = CopyLines(n)
  BY <1>2 DEF Names, CopyLines, Copy
<1>4. InFile(live)' = {} /\ Lines' = Lines
  BY <1>2 DEF InFile, Lines
<1>5. ~Rewriting'
  BY <1>2, IdleIsTyped DEF Rewriting
<1>6. FilesAreInjective' /\ LinesAreKnown' /\ PendingIsNowhere' /\ Fits(m.temp)'
  BY <1>2, <1>3, <1>4 DEF DoubleInv, FilesAreInjective, LinesAreKnown, PendingIsNowhere, Fits
<1> QED BY <1>1, <1>5, <1>6 DEF DoubleInv

LEMMA StartMergeKeepsDoubleInv ==
  ASSUME DoubleInv, StartMerge
  PROVE  DoubleInv'
<1>1. CopyInv'
  BY StartMergeKeepsCopyInv DEF DoubleInv
<1>2. UNCHANGED <<key, live, copies, app>> /\ m'.temp = <<>>
  BY MergeAdopts DEF DoubleInv, store
<1>3. ASSUME NEW i \in DOMAIN m'.mine
      PROVE  /\ m'.mine[i].adopted = TRUE
             /\ m'.mine[i].indexed = Len(MineLines(i)') /\ MineLines(i)' \in Seq(Nat)
  <2>1. i \in DOMAIN copies
        /\ m'.mine[i] = [name |-> copies[i].name, indexed |-> Len(copies[i].lines), adopted |-> TRUE]
    BY MergeAdopts DEF DoubleInv
  <2>2. CopyLines(copies[i].name) = copies[i].lines /\ CopyLines(copies[i].name) \in Seq(Nat)
    BY <2>1, CopyFound DEF DoubleInv, CopyInv
  <2>3. \A n : CopyLines(n)' = CopyLines(n)
    BY <1>2 DEF CopyLines, Names, Copy
  <2>4. MineLines(i)' = copies[i].lines
    BY <2>1, <2>2, <2>3 DEF MineLines
  <2> QED BY <2>1, <2>2, <2>4
<1>4. OwnIsDisjoint'
  BY <1>3 DEF OwnIsDisjoint, Own
<1>5. LateIsNowhereElse'
  <2>1. ASSUME NEW i \in DOMAIN m'.mine, NEW k \in DOMAIN MineLines(i)'  PROVE ~(k > m'.mine[i].indexed)
    <3>1. DOMAIN MineLines(i)' = 1..Len(MineLines(i)') /\ Len(MineLines(i)') \in Nat
      BY <1>3, LenProperties
    <3>2. k \in 1..Len(MineLines(i)')
      BY <3>1
    <3>3. m'.mine[i].indexed = Len(MineLines(i)')
      BY <1>3
    <3> QED BY <3>1, <3>2, <3>3
  <2> QED BY <2>1 DEF LateIsNowhereElse
<1> QED BY <1>1, <1>2, <1>4, <1>5, SameFiles

LEMMA StartRewriteKeepsDoubleInv ==
  ASSUME DoubleInv, StartRewrite
  PROVE  DoubleInv'
<1>1. CopyInv'
  BY StartRewriteKeepsCopyInv DEF DoubleInv
<1>2. UNCHANGED <<key, live, copies, app>> /\ m' = [Idle EXCEPT !.pc = "park", !.run = policy.action]
  BY DEF StartRewrite, MUnchanged, store
<1>3. m'.mine = <<>> /\ m'.temp = <<>> /\ DOMAIN m'.mine = {}
  BY <1>2 DEF Idle
<1> QED BY <1>1, <1>2, <1>3, SameFiles

LEMMA LookKeepsDoubleInv ==
  ASSUME DoubleInv, Look
  PROVE  DoubleInv'
<1>1. CopyInv'
  BY LookKeepsCopyInv DEF DoubleInv
<1>2. UNCHANGED <<key, live, copies, app>> /\ Rewriting
      /\ m' = IF live = None THEN [m EXCEPT !.pc = "survivors"] ELSE NextRound(m)
  BY DEF Look, MUnchanged, store, Rewriting
<1>3. m \in Maintainer
  BY DEF DoubleInv, CopyInv, Types
<1>4. m'.mine = m.mine /\ m'.temp = m.temp
  BY <1>2, <1>3, NextRoundKeeps DEF Maintainer
<1> QED BY <1>1, <1>2, <1>4, SameFiles

LEMMA ParkKeepsDoubleInv ==
  ASSUME DoubleInv, Park
  PROVE  DoubleInv'
<1>1. CopyInv'
  BY ParkKeepsCopyInv DEF DoubleInv
<1>2. UNCHANGED key /\ Rewriting
  BY DEF Park, MUnchanged, Rewriting
<1>3. CASE live # None /\ Parked("look")
  BY <1>1, <1>2, <1>3, ParkedKeepsDoubleInv DEF MaintainerPcs
<1>4. CASE live = None /\ UNCHANGED <<live, copies, parks, app>>
           /\ m' = IF m.mine = <<>> THEN Idle ELSE [m EXCEPT !.pc = "look"]
  <2>1. m \in Maintainer
    BY DEF DoubleInv, CopyInv, Types
  <2>2. \/ m'.temp = <<>> /\ DOMAIN m'.mine = {}
        \/ m'.temp = m.temp /\ m'.mine = m.mine
    BY <1>4, <2>1, IdleIsTyped DEF Maintainer
  <2> QED BY <1>1, <1>2, <1>4, <2>2, SameFiles
<1> QED BY <1>3, <1>4 DEF Park

LEMMA WriteSurvivorsKeepsDoubleInv ==
  ASSUME DoubleInv, WriteSurvivors
  PROVE  DoubleInv'
<1>1. CopyInv'
  BY WriteSurvivorsKeepsCopyInv DEF DoubleInv
<1>2. /\ UNCHANGED <<key, live, copies, app>> /\ m'.mine = m.mine
      /\ m.pc = "survivors" /\ m'.temp = Gather(Survivors)
  BY WriteSurvivorsChanges DEF DoubleInv, store
<1>3. Rewriting
  BY <1>2 DEF Rewriting
<1>4. Fits(m'.temp)
  BY <1>2, <1>3, SurvivorsFit
<1> QED BY <1>1, <1>2, <1>3, <1>4, SameFiles

\* The exclusive link puts the survivors in place, or leaves the files alone.
LEMMA PublishKeepsDoubleInv ==
  ASSUME DoubleInv, Publish
  PROVE  DoubleInv'
<1>1. CopyInv'
  BY PublishKeepsCopyInv DEF DoubleInv
<1>2. UNCHANGED <<key, copies>> /\ Rewriting
  BY DEF Publish, MUnchanged, Rewriting
<1>3. m \in Maintainer
  BY DEF DoubleInv, CopyInv, Types
<1>4. CASE /\ live' = m.temp /\ app' = Follow(Gone)
           /\ m' = [m EXCEPT !.pc = "archive", !.temp = <<>>, !.published = TRUE, !.restored = TRUE]
  <2>1. m'.pc = "archive" /\ m'.temp = <<>>
    BY <1>3, <1>4 DEF Maintainer
  <2>2. live' \in Seq(Nat) /\ Fits(live')
    BY <1>4, MaintainerFields DEF DoubleInv, CopyInv
  <2>3. ~Rewriting'
    BY <2>1 DEF Rewriting
  <2> QED BY <1>1, <1>2, <1>4, <2>1, <2>2, <2>3, PlacedKeepsDoubleInv
<1>5. CASE m' = NextRound([m EXCEPT !.temp = <<>>]) /\ UNCHANGED <<live, app>>
  <2> DEFINE mm == [m EXCEPT !.temp = <<>>]
  <2>1. mm \in Maintainer /\ mm.mine = m.mine /\ mm.temp = <<>>
    BY <1>3, EmptySeq DEF Maintainer
  <2> HIDE DEF mm
  <2>2. m' = NextRound(mm)
    BY <1>5 DEF mm
  <2>3. m'.mine = m.mine /\ m'.temp = <<>>
    BY <2>1, <2>2, NextRoundKeeps
  <2> QED BY <1>1, <1>2, <1>5, <2>3, SameFiles
<1> QED BY <1>4, <1>5 DEF Publish

LEMMA RestoreParkKeepsDoubleInv ==
  ASSUME DoubleInv, RestorePark
  PROVE  DoubleInv'
<1>1. CopyInv'
  BY RestoreParkKeepsCopyInv DEF DoubleInv
<1>2. UNCHANGED key /\ Rewriting
  BY DEF RestorePark, MUnchanged, Rewriting
<1>3. CASE live # None /\ Parked("restore_move")
  BY <1>1, <1>2, <1>3, ParkedKeepsDoubleInv DEF MaintainerPcs
<1>4. CASE live = None /\ m' = [m EXCEPT !.pc = "restore_move"] /\ UNCHANGED <<live, copies, parks, app>>
  <2>1. m'.mine = m.mine /\ m'.temp = m.temp
    BY <1>4 DEF DoubleInv, CopyInv, Types, Maintainer
  <2> QED BY <1>1, <1>2, <1>4, <2>1, SameFiles
<1> QED BY <1>3, <1>4 DEF RestorePark

\* The rename replaces whatever is at the live path: the union of the own copies has no
\* line twice, whether or not one came back since the look.
LEMMA RestoreMoveKeepsDoubleInv ==
  ASSUME DoubleInv, RestoreMove
  PROVE  DoubleInv'
<1>1. CopyInv'
  BY RestoreMoveKeepsCopyInv DEF DoubleInv
<1>2. /\ UNCHANGED <<key, copies>> /\ Rewriting
      /\ m' = [m EXCEPT !.pc = AfterRestore, !.restored = TRUE]
  BY DEF RestoreMove, MUnchanged, Rewriting
<1>3. m'.temp = m.temp /\ m'.pc \in {"cleanup", "archive"}
  BY <1>2 DEF DoubleInv, CopyInv, Types, Maintainer, AfterRestore
<1>4. ~Rewriting'
  BY <1>3 DEF Rewriting
<1>5. CASE UNCHANGED <<live, app>>
  BY <1>1, <1>2, <1>3, <1>4, <1>5, SameFiles
<1>6. CASE live' = Gather(Places(Own)) /\ app' = Follow(Gone)
  <2>1. live' \in Seq(Nat) /\ Fits(live')
    BY <1>2, <1>6, OwnUnionFits
  <2> QED BY <1>1, <1>2, <1>3, <1>4, <1>6, <2>1, PlacedKeepsDoubleInv
<1> QED BY <1>5, <1>6 DEF RestoreMove

LEMMA ArchiveKeepsDoubleInv ==
  ASSUME DoubleInv, Archive
  PROVE  DoubleInv'
<1>1. CopyInv'
  BY ArchiveKeepsCopyInv DEF DoubleInv
<1>2. UNCHANGED <<key, live, copies, app>> /\ m' = [m EXCEPT !.pc = "cleanup"]
  BY DEF Archive, MUnchanged
<1>3. m'.temp = m.temp /\ m'.pc = "cleanup"
  BY <1>2 DEF DoubleInv, CopyInv, Types, Maintainer
<1>4. ~Rewriting'
  BY <1>3 DEF Rewriting
<1> QED BY <1>1, <1>2, <1>3, <1>4, SameFiles

LEMMA CleanupKeepsDoubleInv ==
  ASSUME DoubleInv, Cleanup
  PROVE  DoubleInv'
<1>1. CopyInv'
  BY CleanupKeepsCopyInv DEF DoubleInv
<1>2. UNCHANGED <<key, live, app>>
  BY CleanupChanges DEF DoubleInv
<1>3. ASSUME NEW c \in DOMAIN m.mine, Removes(c)  PROVE DoubleInv'
  <2>1. /\ Names' \subseteq Names /\ m'.temp = m.temp /\ m'.pc = "cleanup"
        /\ \A n \in Names' : CopyLines(n)' = CopyLines(n)
    BY <1>3, RemovalLeaves DEF DoubleInv
  <2>2. InFile(live)' = InFile(live) /\ Lines' = Lines
    BY <1>2 DEF InFile, Lines
  <2>3. FilesAreInjective' /\ LinesAreKnown'
    BY <1>2, <2>1, <2>2 DEF DoubleInv, FilesAreInjective, LinesAreKnown
  <2>4. PendingIsNowhere'
    BY <1>2, <2>1, <2>2 DEF DoubleInv, PendingIsNowhere
  <2>5. Fits(m.temp)'
    BY <1>2, <2>1, <2>2 DEF DoubleInv, Fits
  <2>6. ~Rewriting'
    BY <2>1 DEF Rewriting
  <2> QED BY <1>1, <2>3, <2>4, <2>5, <2>6 DEF DoubleInv
<1>4. CASE CleanedUp
  <2>1. UNCHANGED copies /\ m'.temp = <<>> /\ DOMAIN m'.mine = {}
    BY <1>4, IdleIsTyped DEF CleanedUp
  <2> QED BY <1>1, <1>2, <2>1, SameFiles
<1> QED BY <1>3, <1>4, CleanupChanges DEF DoubleInv

LEMMA FaultKeepsDoubleInv ==
  ASSUME DoubleInv, Fault
  PROVE  DoubleInv'
<1>1. CopyInv'
  BY FaultKeepsCopyInv DEF DoubleInv
<1>2. /\ UNCHANGED <<key, live, copies, app>>
      /\ \/ m' = Idle
         \/ m'.mine = m.mine /\ m'.temp \in {m.temp, <<>>}
            /\ m.pc \in {"survivors", "publish", "park", "restore", "restore_move"}
         \/ m'.temp = m.temp /\ m'.pc = "cleanup"
  BY FaultChanges, PassingOverLeaves DEF DoubleInv, store
<1>3. CASE m' = Idle
  <2>1. m'.temp = <<>> /\ DOMAIN m'.mine = {}
    BY <1>3, IdleIsTyped
  <2> QED BY <1>1, <1>2, <2>1, SameFiles
<1>4. CASE m'.mine = m.mine /\ m'.temp \in {m.temp, <<>>}
           /\ m.pc \in {"survivors", "publish", "park", "restore", "restore_move"}
  <2>1. Rewriting
    BY <1>4 DEF Rewriting
  <2> QED BY <1>1, <1>2, <1>4, <2>1, SameFiles
<1>5. CASE m'.temp = m.temp /\ m'.pc = "cleanup"
  <2>1. ~Rewriting'
    BY <1>5 DEF Rewriting
  <2> QED BY <1>1, <1>2, <1>5, <2>1, SameFiles
<1> QED BY <1>2, <1>3, <1>4, <1>5

LEMMA CrashKeepsDoubleInv ==
  ASSUME DoubleInv, Crash
  PROVE  DoubleInv'
<1>1. CopyInv'
  BY CrashKeepsCopyInv DEF DoubleInv
<1>2. UNCHANGED <<key, live, copies, app>> /\ m'.temp = <<>> /\ DOMAIN m'.mine = {}
  BY IdleIsTyped DEF Crash, hist, store
<1> QED BY <1>1, <1>2, SameFiles

LEMMA UntouchedKeepsDoubleInv ==
  ASSUME DoubleInv, Untouched
  PROVE  DoubleInv'
<1>1. CopyInv'
  BY UntouchedKeepsCopyInv DEF DoubleInv
<1>2. UNCHANGED <<key, live, copies, app, m>>
  BY DEF Untouched
<1>3. Rewriting' = Rewriting
  BY <1>2 DEF Rewriting
<1> QED BY <1>1, <1>2, <1>3, SameFiles

LEMMA DoubleStep == DoubleInv /\ [Next]_vars => DoubleInv'
<1> SUFFICES ASSUME DoubleInv, [Next]_vars  PROVE DoubleInv'
  OBVIOUS
<1>1. ASSUME NEW a \in Appenders, Write(a)  PROVE DoubleInv'
  BY <1>1, WriteKeepsDoubleInv
<1>2. ASSUME NEW a \in Appenders, NEW k \in Keys, Open(a, k)  PROVE DoubleInv'
  BY <1>2, OpenKeepsDoubleInv
<1>3. CASE Rotate \/ StartRewrite \/ StartMerge \/ Park \/ Look \/ WriteSurvivors \/ Publish
  BY <1>3, RotateKeepsDoubleInv, StartRewriteKeepsDoubleInv, StartMergeKeepsDoubleInv, ParkKeepsDoubleInv,
     LookKeepsDoubleInv, WriteSurvivorsKeepsDoubleInv, PublishKeepsDoubleInv
<1>4. CASE RestorePark \/ RestoreMove \/ Archive \/ Cleanup \/ Fault \/ Crash
  BY <1>4, RestoreParkKeepsDoubleInv, RestoreMoveKeepsDoubleInv, ArchiveKeepsDoubleInv,
     CleanupKeepsDoubleInv, FaultKeepsDoubleInv, CrashKeepsDoubleInv
<1>5. CASE ReaderStep \/ UNCHANGED vars
  BY <1>5, ReaderTouchesNothing, UntouchedKeepsDoubleInv
<1> QED BY <1>1, <1>2, <1>3, <1>4, <1>5 DEF Next, ReaderStep

\* No line is in the live file twice, however often rewriteParked was interrupted,
\* restoreRawUnion put its copies back and mergeCompactionCopies merged what was left.
THEOREM LinesAreNotDoubled == Spec => []NothingDoubled
<1>1. DoubleInv => NothingDoubled
  BY DEF DoubleInv, FilesAreInjective, NothingDoubled
<1> QED BY <1>1, InitIsDoubleInv, DoubleStep, PTL DEF Spec
-----------------------------------------------------------------------------
(* The order of the lines *)

\* The store as a row of files: the copies by their names, and the live file after them.
File(n) == IF n = parks + 1 THEN (IF live = None THEN <<>> ELSE live) ELSE CopyLines(n)
\* The lines of a file.  What a cleanup under way has yet to remove counts as gone, for
\* nothing interrupts it.
Removables == {m.mine[i].name : i \in {i \in DOMAIN m.mine : Removable(m.mine[i])}}
Stays(n) == ~m.cleaned \/ n \notin Removables
Row(n) == IF Stays(n) THEN ToSet(File(n)) ELSE {}
\* The file an append is open on.
OpenAt(a) == IF app[a].at = Live THEN parks + 1 ELSE app[a].at
IsOpen(a) == app[a].at = Live \/ app[a].at \in Names

\* The history of the appends: nothing is older than a line that was not done before.
History ==
  /\ before \in Seq(SUBSET Nat) /\ Len(before) = Len(key) /\ done \subseteq Lines
  /\ \A x \in Lines : \A y \in before[x] : y \in done /\ key[y] = key[x]
  /\ \A a \in Appenders : app[a].at # None =>
       app[a].line \in Lines \ done /\ (app[a].at \in Int /\ app[a].at <= parks)
  /\ \A n \in Nat : ToSet(File(n)) \subseteq done
LateBeganFirst ==
  \A a, b \in Appenders :
    IsOpen(a) /\ IsOpen(b) /\ OpenAt(a) < OpenAt(b) /\ key[app[a].line] = key[app[b].line] =>
      before[app[a].line] \subseteq before[app[b].line]

\* Where a run is.  Names are in park order, and the copies parked since a run's first
\* are its own; what it is to remove are the last copies there are.
Active == m.pc # "idle" /\ ~m.cleaned
RunInv ==
  /\ \A i, j \in DOMAIN copies : i < j => copies[i].name < copies[j].name
  /\ \A i, j \in DOMAIN m.mine : i < j => m.mine[i].name < m.mine[j].name
  /\ Active /\ m.pc # "cleanup" /\ m.run = "merge" => Names = Mine
  /\ Active /\ m.published /\ m.run = "merge" =>
       \A i \in DOMAIN m.mine : \A n \in Names : n > m.mine[i].name => n \in Mine
  /\ Active => \A i \in Own : \A n \in Names : n > m.mine[i].name => \E j \in Own : m.mine[j].name = n
  /\ m.pc = "idle" => m = Idle
  /\ m.cleaned => m.pc = "cleanup"
  /\ m.pc \in {"publish", "archive", "cleanup"} => NoStragglers
  /\ m.pc \in {"archive", "cleanup"} => m.restored
  /\ Rewriting => ~m.restored /\ ~m.published
  /\ m.run \in {"compact", "window"} => m.run = policy.action
\* What a run parked after its first copy, and the live file by then, are new appends.
RoundsAreFresh ==
  Rewriting => \A i \in Own : \A n \in Nat : n > m.mine[i].name =>
    \A h \in Nat : h < n => ToSet(File(n)) \cap ToSet(File(h)) = {}
\* The result of a rewrite has no line that is not in one of its copies.
ResultIsOfCopies ==
  m.pc = "publish" => \A x \in ToSet(m.temp) : \E i \in DOMAIN m.mine : x \in ToSet(MineLines(i))

\* An order of the lines, by ranks, that appends and files agree with: a line ranks above
\* those done before its append began; those of a key are in a file by their ranks; one
\* that is in no earlier file ranks above all that are; and the files after one that an
\* append is open on hold lines that will rank above it.
Ranks(r) == \A x \in Lines : \A y \in before[x] : r[y] < r[x]
Sorted(r, f) == \A i, j \in DOMAIN f : i < j /\ key[f[i]] = key[f[j]] => r[f[i]] <= r[f[j]]
NewComesLast(r) ==
  \A n \in Nat : \A y \in Row(n) : (\A h \in Nat : h < n => y \notin Row(h)) =>
    \A h \in Nat : \A x \in Row(h) : h < n /\ key[x] = key[y] => r[x] <= r[y]
LateComesFirst(r) ==
  \A a \in Appenders : IsOpen(a) =>
    \A n \in Nat : \A y \in Row(n) : n > OpenAt(a) =>
      /\ \A h \in Nat : h <= OpenAt(a) => y \notin Row(h)
      /\ key[y] = key[app[a].line] => \A x \in before[app[a].line] : r[x] < r[y]
Orders(r) ==
  /\ Ranks(r) /\ (\A n \in Nat : Sorted(r, File(n))) /\ NewComesLast(r) /\ LateComesFirst(r)
  /\ m.pc = "publish" => Sorted(r, m.temp)
Ranking(r) == \E B \in Nat : r \in [Nat -> 0..B]

FramedInv == DoubleInv /\ History /\ RunInv /\ RoundsAreFresh /\ ResultIsOfCopies /\ LateBeganFirst
OrderInv == FramedInv /\ \E r : Ranking(r) /\ Orders(r)
\* A step keeps the order of the lines it finds done.
Follows(q, r) == \A y \in done : q[y] = r[y]
OrderGoesOn ==
  FramedInv' /\ \A r : Ranking(r) /\ Orders(r) => \E q : Ranking(q) /\ Orders(q)' /\ Follows(q, r)
-----------------------------------------------------------------------------
(* The row of files *)

\* A copy is named after the number of the parking that made it.
LEMMA NamesAreSmall ==
  ASSUME CopyInv
  PROVE  /\ parks \in Nat /\ parks + 1 \notin Names
         /\ \A n \in Names : n \in Nat /\ n >= 1 /\ n <= parks
BY DEF CopyInv, Types, NamesAreOwn

\* What a file of the row is, and that rows are what files hold until a cleanup is under way.
LEMMA FilesHold ==
  ASSUME CopyInv
  PROVE  /\ \A n \in Nat : /\ File(n) \in Seq(Nat) /\ DOMAIN File(n) = 1..Len(File(n))
                           /\ n # parks + 1 => File(n) = CopyLines(n)
                           /\ n # parks + 1 /\ n \notin Names => File(n) = <<>>
                           /\ n > parks + 1 => File(n) = <<>> /\ Row(n) = {}
                           /\ Row(n) \subseteq ToSet(File(n)) /\ (~m.cleaned => Row(n) = ToSet(File(n)))
         /\ parks + 1 \in Nat /\ ToSet(<<>>) = {}
         /\ ToSet(File(parks + 1)) = InFile(live) /\ Row(parks + 1) = InFile(live)
         /\ \A i \in DOMAIN m.mine : m.mine[i].name \in Names /\ MineLines(i) = File(m.mine[i].name)
<1>1. parks \in Nat /\ parks + 1 \notin Names /\ \A n \in Names : n \in Nat /\ n <= parks
  BY NamesAreSmall
<1>2. \A i \in DOMAIN m.mine : m.mine[i].name \in Names
  BY MineIsNamed
<1>3. \A n : CopyLines(n) \in Seq(Nat)
  BY CopyFound DEF CopyInv
<1>4. (IF live = None THEN <<>> ELSE live) \in Seq(Nat)
  BY EmptySeq DEF CopyInv, Types
<1>5. \A n \in Nat : File(n) \in Seq(Nat)
  BY <1>3, <1>4 DEF File
<1>6. \A n \in Nat : DOMAIN File(n) = 1..Len(File(n))
  BY <1>5, LenProperties
<1>7. \A n \in Nat : n # parks + 1 => File(n) = CopyLines(n)
  BY DEF File
<1>8. \A n \in Nat : n # parks + 1 /\ n \notin Names => File(n) = <<>>
  BY <1>7 DEF CopyLines
<1>9. ToSet(<<>>) = {}
  BY DEF ToSet
<1>10. \A n \in Nat : Row(n) \subseteq ToSet(File(n)) /\ (~m.cleaned => Row(n) = ToSet(File(n)))
  BY DEF Row, Stays
<1>11. \A n \in Nat : n > parks + 1 => File(n) = <<>> /\ Row(n) = {}
  <2>1. \A n \in Nat : n > parks + 1 => n \notin Names /\ n # parks + 1
    BY <1>1
  <2> QED BY <2>1, <1>8, <1>9, <1>10
<1>12. ToSet(File(parks + 1)) = InFile(live)
  BY <1>9 DEF File, InFile
<1>13. Stays(parks + 1)
  BY <1>1, <1>2 DEF Stays, Removables
<1>14. \A i \in DOMAIN m.mine : MineLines(i) = File(m.mine[i].name)
  BY <1>1, <1>2 DEF MineLines, File
<1>15. Row(parks + 1) = InFile(live)
  BY <1>12, <1>13 DEF Row
<1>16. parks + 1 \in Nat
  BY <1>1
<1> HIDE DEF File, Row
<1> QED BY <1>2, <1>5, <1>6, <1>7, <1>8, <1>9, <1>10, <1>11, <1>12, <1>14, <1>15, <1>16

\* An append that is open on the live file or a copy is under way.
LEMMA OpenIsUnderWay ==
  ASSUME CopyInv, NEW a \in Appenders, IsOpen(a)
  PROVE  app[a].at # None /\ OpenAt(a) \in Nat /\ OpenAt(a) <= parks + 1
<1>1. parks \in Nat /\ \A n \in Names : n \in Nat /\ n <= parks
  BY NamesAreSmall
<1>2. None \notin Names /\ Live # None
  BY NoneIsNoFile, CopyFound DEF Live, CopyInv
<1> QED BY <1>1, <1>2 DEF IsOpen, OpenAt

\* An open append is under way.
LEMMA OpenIsUnderWayNext ==
  ASSUME CopyInv', NEW a \in Appenders, IsOpen(a)'
  PROVE  app'[a].at # None
<1>1. \A n \in Names' : n \in Int
  BY DEF CopyInv, Types, NamesAreOwn
<1>2. None \notin Names' /\ Live # None
  BY <1>1, NoneIsNoFile DEF Live
<1> QED BY <1>2 DEF IsOpen

\* Steps that leave the files alone.
LEMMA SameRows ==
  ASSUME NEW r, Orders(r), CopyInv', UNCHANGED <<key, before>>,
         \A n \in Nat : File(n)' = File(n) /\ Row(n)' = Row(n),
         \A a \in Appenders : app'[a].at # None => app'[a].line = app[a].line,
         \A a \in Appenders : IsOpen(a)' => IsOpen(a) /\ OpenAt(a)' = OpenAt(a),
         m'.pc = "publish" => Sorted(r, m'.temp)
  PROVE  Orders(r)'
<1>0. Lines' = Lines
  BY DEF Lines
<1>1. Ranks(r)'
  BY <1>0 DEF Orders, Ranks
<1>2. \A n \in Nat : Sorted(r, File(n))'
  BY DEF Orders, Sorted
<1>3. NewComesLast(r)'
  BY DEF Orders, NewComesLast
<1>4. LateComesFirst(r)'
  <2>1. ASSUME NEW a \in Appenders, IsOpen(a)'  PROVE IsOpen(a) /\ OpenAt(a)' = OpenAt(a) /\ app'[a].line = app[a].line
    <3>1. app'[a].at # None
      BY <2>1, OpenIsUnderWayNext
    <3> QED BY <2>1, <3>1
  <2> QED BY <2>1 DEF Orders, LateComesFirst
<1>5. m'.pc = "publish" => Sorted(r, m.temp)'
  BY DEF Sorted
<1> QED BY <1>1, <1>2, <1>3, <1>4, <1>5 DEF Orders

\* The history stays true when files only move, and open appends with them.
LEMMA SameHistory ==
  ASSUME History, LateBeganFirst, CopyInv', UNCHANGED <<key, before, done>>,
         \A n \in Nat : ToSet(File(n))' \subseteq ToSet(File(n)) \/ ToSet(File(n))' \subseteq done,
         \A a \in Appenders : app'[a].at # None =>
           app[a].at # None /\ app'[a].line = app[a].line /\ app'[a].at \in Int /\ app'[a].at <= parks',
         \A a \in Appenders : IsOpen(a)' => IsOpen(a) /\ OpenAt(a)' = OpenAt(a)
  PROVE  History' /\ LateBeganFirst'
<1>0. Lines' = Lines
  BY DEF Lines
<1>1. History'
  BY <1>0 DEF History
<1>2. \A a \in Appenders : IsOpen(a)' => IsOpen(a) /\ OpenAt(a)' = OpenAt(a) /\ app'[a].line = app[a].line
  <2>1. \A a \in Appenders : IsOpen(a)' => app'[a].at # None
    BY OpenIsUnderWayNext
  <2> QED BY <2>1
<1>3. LateBeganFirst'
  BY <1>2 DEF LateBeganFirst
<1> QED BY <1>1, <1>3

-----------------------------------------------------------------------------
(* The run, step by step *)

\* A run that goes on with the copies it has.
LEMMA RunGoesOn ==
  ASSUME RunInv, UNCHANGED <<policy, copies>>, m.pc \notin {"idle", "cleanup"},
         m'.pc # "idle", m'.mine = m.mine, m'.run = m.run, m'.cleaned = m.cleaned,
         m'.pc \in {"publish", "archive", "cleanup"} => NoStragglers',
         m'.pc \in {"archive", "cleanup"} => m'.restored,
         Rewriting' => ~m'.restored /\ ~m'.published
  PROVE  RunInv'
<1>1. Names' = Names /\ Mine' = Mine /\ Own' = Own
  BY DEF Names, Mine, Own
<1>2. ~m.cleaned /\ ~m'.cleaned /\ Active /\ Active'
  BY DEF RunInv, Active
<1> QED BY <1>1, <1>2 DEF RunInv

\* A run that ends leaves nothing to keep.
LEMMA RunEnds ==
  ASSUME RunInv, UNCHANGED <<policy, copies>>, m' = Idle
  PROVE  RunInv'
<1>1. m'.pc = "idle" /\ m'.run = "none" /\ DOMAIN m'.mine = {} /\ m'.cleaned = FALSE
  BY DEF Idle
<1>2. ~Active' /\ ~Rewriting'
  BY <1>1 DEF Active, Rewriting
<1> QED BY <1>1, <1>2 DEF RunInv

\* What happens around the run.
LEMMA RunStays ==
  ASSUME RunInv, UNCHANGED <<policy, m>>, Names' = Names, NoStragglers => NoStragglers',
         \A i, j \in DOMAIN copies' : i < j => copies'[i].name < copies'[j].name
  PROVE  RunInv'
<1>1. Mine' = Mine /\ Own' = Own /\ Active' = Active /\ Rewriting' = Rewriting
  BY DEF Mine, Own, Active, Rewriting
<1> QED BY <1>1 DEF RunInv

LEMMA StartRewriteKeepsRunInv ==
  ASSUME CopyInv, RunInv, StartRewrite
  PROVE  RunInv'
<1>1. UNCHANGED <<policy, copies>> /\ m' = [Idle EXCEPT !.pc = "park", !.run = policy.action]
      /\ policy.action # "rotate"
  BY DEF StartRewrite, MUnchanged, store
<1>2. /\ m'.pc = "park" /\ DOMAIN m'.mine = {} /\ m'.cleaned = FALSE /\ m'.run = policy.action
      /\ m'.restored = FALSE /\ m'.published = FALSE
  BY <1>1 DEF Idle
<1>3. Own' = {}
  BY <1>2 DEF Own
<1>4. m'.run # "merge"
  BY <1>2 DEF CopyInv, Types
<1> QED BY <1>1, <1>2, <1>3, <1>4 DEF RunInv

LEMMA StartMergeKeepsRunInv ==
  ASSUME CopyInv, RunInv, StartMerge
  PROVE  RunInv'
<1>1. /\ UNCHANGED <<policy, copies>> /\ DOMAIN m'.mine = DOMAIN copies
      /\ \A i \in DOMAIN copies : m'.mine[i].name = copies[i].name /\ m'.mine[i].adopted = TRUE
      /\ m'.run = "merge" /\ m'.pc = "park"
  <2>1. UNCHANGED <<policy, copies>>
    BY MergeAdopts DEF store
  <2>2. /\ DOMAIN m'.mine = DOMAIN copies
        /\ \A i \in DOMAIN copies : m'.mine[i] = [name |-> copies[i].name,
                                   indexed |-> Len(copies[i].lines), adopted |-> TRUE]
        /\ m'.run = "merge" /\ m'.pc = "park"
    BY MergeAdopts
  <2>3. ASSUME NEW i \in DOMAIN copies  PROVE m'.mine[i].name = copies[i].name /\ m'.mine[i].adopted = TRUE
    <3>1. m'.mine[i] = [name |-> copies[i].name, indexed |-> Len(copies[i].lines), adopted |-> TRUE]
      BY <2>2
    <3> QED BY <3>1
  <2> QED BY <2>1, <2>2, <2>3
<1>2. m'.cleaned = FALSE /\ m'.restored = FALSE /\ m'.published = FALSE
  BY DEF StartMerge, Idle
<1>3. Mine' = Names' /\ Own' = {}
  BY <1>1 DEF Mine, Names, Own
<1> QED BY <1>1, <1>2, <1>3 DEF RunInv

\* The copy that is parked is the last of the store and of the run.
LEMMA ParkedKeepsRunInv ==
  ASSUME CopyInv, RunInv, live # None, NEW pc \in {"look", "restore_move"}, Parked(pc), UNCHANGED policy,
         Rewriting
  PROVE  RunInv'
<1>0. pc \in MaintainerPcs
  BY DEF MaintainerPcs
<1>1. PICK N : N = Len(m.mine) + 1
  OBVIOUS
<1>2. PICK K : K = Len(copies) + 1
  OBVIOUS
<1>3. DOMAIN m.mine = 1..Len(m.mine) /\ Len(m.mine) \in Nat
  BY MaintainerFields DEF CopyInv
<1>4. /\ DOMAIN m'.mine = DOMAIN m.mine \cup {N} /\ N \notin DOMAIN m.mine
      /\ \A i \in DOMAIN m.mine : i < N /\ m'.mine[i] = m.mine[i]
      /\ m'.mine[N].name = parks + 1 /\ m'.mine[N].adopted = FALSE
      /\ m'.run = m.run /\ m'.pc = pc
  BY <1>0, <1>1, <1>3, ParkedJoins
<1>5. m'.cleaned = m.cleaned /\ m'.restored = m.restored /\ m'.published = m.published
  BY DEF Parked, CopyInv, Types, Maintainer
<1>6. copies \in Seq(CopyRecord) /\ DOMAIN copies = 1..Len(copies) /\ Len(copies) \in Nat
  BY LenProperties DEF CopyInv, Types
<1>7. /\ live \in Seq(Nat) /\ copies' = Append(copies, [name |-> parks + 1, lines |-> live])
  BY DEF Parked, CopyInv, Types
<1>8. /\ DOMAIN copies' = DOMAIN copies \cup {K}
      /\ \A i \in DOMAIN copies : i < K /\ copies'[i] = copies[i]
      /\ copies'[K].name = parks + 1
  <2>1. [name |-> parks + 1, lines |-> live] \in CopyRecord
    BY <1>7 DEF CopyRecord, CopyInv, Types
  <2> DEFINE c == [name |-> parks + 1, lines |-> live]
  <2>2. c \in CopyRecord /\ c.name = parks + 1 /\ copies' = Append(copies, c)
    BY <2>1, <1>7
  <2> HIDE DEF c
  <2>3. Len(copies') = K /\ DOMAIN copies' = 1..K /\ copies'[K] = c /\ \A i \in DOMAIN copies : copies'[i] = copies[i]
    BY <1>2, <1>6, <2>2, LenProperties
  <2> QED BY <1>2, <1>6, <2>2, <2>3
<1>9. Names' = Names \cup {parks + 1} /\ \A n \in Names : n \in Nat /\ n < parks + 1
  <2>1. Names' = Names \cup {parks + 1}
    BY <1>8 DEF Names
  <2> QED BY <2>1, NamesAreSmall
<1>10. Mine' = Mine \cup {parks + 1} /\ Own' = Own \cup {N} /\ N \in Own'
  BY <1>4 DEF Mine, Own
<1>11. \A i \in DOMAIN m.mine : m.mine[i].name \in Names
  BY MineIsNamed
<1>12. \A i \in DOMAIN copies : copies[i].name \in Names
  BY DEF Names
<1>13. \A i, j \in DOMAIN copies' : i < j => copies'[i].name < copies'[j].name
  <2>1. SUFFICES ASSUME NEW i \in DOMAIN copies', NEW j \in DOMAIN copies', i < j  PROVE copies'[i].name < copies'[j].name
    OBVIOUS
  <2>2. i \in DOMAIN copies
    BY <1>2, <1>6, <1>8, <2>1
  <2>3. CASE j \in DOMAIN copies
    BY <1>8, <2>1, <2>2, <2>3 DEF RunInv
  <2>4. CASE j = K
    BY <1>8, <1>9, <1>12, <2>2, <2>4
  <2> QED BY <1>8, <2>3, <2>4
<1>14. \A i, j \in DOMAIN m'.mine : i < j => m'.mine[i].name < m'.mine[j].name
  <2>1. SUFFICES ASSUME NEW i \in DOMAIN m'.mine, NEW j \in DOMAIN m'.mine, i < j  PROVE m'.mine[i].name < m'.mine[j].name
    OBVIOUS
  <2>2. i \in DOMAIN m.mine
    BY <1>1, <1>3, <1>4, <2>1
  <2>3. CASE j \in DOMAIN m.mine
    BY <1>4, <2>1, <2>2, <2>3 DEF RunInv
  <2>4. CASE j = N
    BY <1>4, <1>9, <1>11, <2>2, <2>4
  <2> QED BY <1>4, <2>3, <2>4
<1>15. Active /\ m.pc # "idle" /\ m.pc # "cleanup" /\ ~m.cleaned
  BY DEF Active, RunInv, Rewriting
<1>16. m'.run = "merge" => Names' = Mine'
  BY <1>4, <1>9, <1>10, <1>15 DEF RunInv
<1>17. ASSUME NEW i \in Own', NEW n \in Names', n > m'.mine[i].name  PROVE \E j \in Own' : m'.mine[j].name = n
  <2>1. CASE n = parks + 1
    BY <2>1, <1>4, <1>10
  <2>2. CASE n \in Names
    <3>1. i \in Own
      <4>1. i # N
        BY <2>2, <1>4, <1>9, <1>17, NamesAreSmall
      <4> QED BY <1>10, <4>1
    <3>2. i \in DOMAIN m.mine
      BY <3>1 DEF Own
    <3>3. PICK j \in Own : m.mine[j].name = n
      BY <2>2, <3>1, <3>2, <1>4, <1>15, <1>17 DEF RunInv
    <3>4. j \in DOMAIN m.mine
      BY DEF Own
    <3> QED BY <3>3, <3>4, <1>4, <1>10
  <2> QED BY <2>1, <2>2, <1>9
<1>18. /\ m'.pc \notin {"idle", "cleanup", "publish", "archive"} /\ m'.cleaned = FALSE
       /\ m'.restored = FALSE /\ m'.published = FALSE
  BY <1>4, <1>5, <1>15 DEF RunInv, Rewriting, CopyInv, Types, Maintainer
<1> QED BY <1>4, <1>13, <1>14, <1>16, <1>17, <1>18 DEF RunInv

LEMMA ParkKeepsRunInv ==
  ASSUME CopyInv, RunInv, Park
  PROVE  RunInv'
<1>1. UNCHANGED policy /\ Rewriting /\ m.pc = "park"
  BY DEF Park, MUnchanged, Rewriting
<1>2. CASE live # None /\ Parked("look")
  BY <1>1, <1>2, ParkedKeepsRunInv
<1>3. CASE live = None /\ UNCHANGED <<live, copies, parks, app>> /\ m.mine = <<>> /\ m' = Idle
  BY <1>1, <1>3, RunEnds
<1>4. CASE live = None /\ UNCHANGED <<live, copies, parks, app>> /\ m' = [m EXCEPT !.pc = "look"]
  <2>1. /\ m'.mine = m.mine /\ m'.run = m.run /\ m'.cleaned = m.cleaned /\ m'.pc = "look"
        /\ m'.restored = m.restored /\ m'.published = m.published
    BY <1>4 DEF CopyInv, Types, Maintainer
  <2> QED BY <1>1, <1>4, <2>1, RunGoesOn DEF RunInv
<1> QED BY <1>2, <1>3, <1>4 DEF Park

\* A maintainer that moves on keeps what it has done.
LEMMA NextRoundRemembers ==
  ASSUME NEW mm \in Maintainer
  PROVE  /\ NextRound(mm).restored = mm.restored /\ NextRound(mm).published = mm.published
         /\ NextRound(mm).cleaned = mm.cleaned /\ NextRound(mm).failed = mm.failed
<1> DEFINE r == mm.round + 1
<1>1. NextRound(mm) \in {[mm EXCEPT !.pc = "park", !.round = r], [mm EXCEPT !.pc = "restore"]}
  BY DEF NextRound, Maintainer
<1> HIDE DEF r
<1> QED BY <1>1 DEF Maintainer

LEMMA LookKeepsRunInv ==
  ASSUME CopyInv, RunInv, Look
  PROVE  RunInv'
<1>1. UNCHANGED <<policy, copies>> /\ Rewriting /\ m.pc = "look"
      /\ m' = IF live = None THEN [m EXCEPT !.pc = "survivors"] ELSE NextRound(m)
  BY DEF Look, MUnchanged, Rewriting, store
<1>2. m \in Maintainer
  BY DEF CopyInv, Types
<1>3. /\ m'.mine = m.mine /\ m'.run = m.run /\ m'.cleaned = m.cleaned
      /\ m'.pc \in {"survivors", "park", "restore"}
      /\ m'.restored = m.restored /\ m'.published = m.published
  <2>1. CASE m' = [m EXCEPT !.pc = "survivors"]
    BY <1>2, <2>1 DEF Maintainer
  <2>2. CASE m' = NextRound(m)
    BY <1>2, <2>2, NextRoundKeeps, NextRoundRemembers
  <2> QED BY <1>1, <2>1, <2>2
<1> QED BY <1>1, <1>3, RunGoesOn DEF RunInv

LEMMA WriteSurvivorsKeepsRunInv ==
  ASSUME CopyInv, RunInv, WriteSurvivors
  PROVE  RunInv'
<1>1. UNCHANGED <<policy, copies, app>> /\ NoStragglers /\ m.pc = "survivors" /\ Rewriting
  BY DEF WriteSurvivors, MUnchanged, store, Rewriting
<1> DEFINE t == Gather(Survivors)
<1>2. m' = [m EXCEPT !.pc = "publish", !.temp = t] /\ m \in Maintainer
  BY DEF WriteSurvivors, CopyInv, Types
<1> HIDE DEF t
<1>3. /\ m'.mine = m.mine /\ m'.run = m.run /\ m'.cleaned = m.cleaned /\ m'.pc = "publish"
      /\ m'.restored = m.restored /\ m'.published = m.published
  BY <1>2 DEF Maintainer
<1>4. NoStragglers'
  BY <1>1 DEF NoStragglers, Names
<1> QED BY <1>1, <1>3, <1>4, RunGoesOn DEF RunInv

\* Appends that lose their file are on no copy.
LEMMA NobodyStraggles ==
  ASSUME CopyInv, NoStragglers, UNCHANGED copies, app' \in {app, Follow(Gone)}
  PROVE  NoStragglers' /\ (app' = Follow(Gone) => \A a \in Appenders : ~IsOpen(a)')
<1>1. Names' = Names
  BY DEF Names
<1>2. Gone \notin Names /\ Gone # Live /\ Gone \in Int
  BY NamesAreSmall DEF Gone, Live
<1>3. ASSUME NEW a \in Appenders  PROVE Follow(Gone)[a].at # Live /\ Follow(Gone)[a].at \notin Names
  <2>1. Follow(Gone)[a].at # Live
    BY <1>2, FollowIsTyped DEF CopyInv
  <2>2. CASE app[a].at = Live
    <3>1. Follow(Gone)[a].at = Gone
      BY <2>2 DEF Follow, CopyInv, Types
    <3> QED BY <1>2, <2>1, <3>1
  <2>3. CASE app[a].at # Live
    <3>1. Follow(Gone)[a] = app[a]
      BY <2>3 DEF Follow
    <3> QED BY <2>1, <3>1 DEF NoStragglers
  <2> QED BY <2>2, <2>3
<1> QED BY <1>1, <1>3 DEF NoStragglers, IsOpen

LEMMA PublishKeepsRunInv ==
  ASSUME CopyInv, RunInv, Publish
  PROVE  RunInv'
<1>1. UNCHANGED <<policy, copies>> /\ Rewriting /\ m.pc = "publish" /\ m \in Maintainer /\ NoStragglers
  BY DEF Publish, MUnchanged, Rewriting, RunInv, CopyInv, Types
<1>2. CASE /\ app' = Follow(Gone)
           /\ m' = [m EXCEPT !.pc = "archive", !.temp = <<>>, !.published = TRUE, !.restored = TRUE]
  <2>1. /\ m'.mine = m.mine /\ m'.run = m.run /\ m'.cleaned = m.cleaned /\ m'.pc = "archive"
        /\ m'.restored = TRUE
    BY <1>1, <1>2 DEF Maintainer
  <2>2. NoStragglers'
    BY <1>1, <1>2, NobodyStraggles
  <2>3. ~Rewriting'
    BY <2>1 DEF Rewriting
  <2> QED BY <1>1, <2>1, <2>2, <2>3, RunGoesOn
<1>3. CASE m' = NextRound([m EXCEPT !.temp = <<>>])
  <2> DEFINE mm == [m EXCEPT !.temp = <<>>]
  <2>1. /\ mm \in Maintainer /\ mm.mine = m.mine /\ mm.run = m.run /\ mm.cleaned = m.cleaned
        /\ mm.restored = m.restored /\ mm.published = m.published
    BY <1>1, EmptySeq DEF Maintainer
  <2>2. m' = NextRound(mm)
    BY <1>3
  <2> HIDE DEF mm
  <2>3. /\ m'.mine = m.mine /\ m'.run = m.run /\ m'.cleaned = m.cleaned /\ m'.pc \in {"park", "restore"}
        /\ m'.restored = m.restored /\ m'.published = m.published
    BY <2>1, <2>2, NextRoundKeeps, NextRoundRemembers
  <2> QED BY <1>1, <2>3, RunGoesOn DEF RunInv
<1> QED BY <1>2, <1>3 DEF Publish

LEMMA RestoreParkKeepsRunInv ==
  ASSUME CopyInv, RunInv, RestorePark
  PROVE  RunInv'
<1>1. UNCHANGED policy /\ Rewriting /\ m.pc = "restore"
  BY DEF RestorePark, MUnchanged, Rewriting
<1>2. CASE live # None /\ Parked("restore_move")
  BY <1>1, <1>2, ParkedKeepsRunInv
<1>3. CASE live = None /\ UNCHANGED <<live, copies, parks, app>> /\ m' = [m EXCEPT !.pc = "restore_move"]
  <2>1. /\ m'.mine = m.mine /\ m'.run = m.run /\ m'.cleaned = m.cleaned /\ m'.pc = "restore_move"
        /\ m'.restored = m.restored /\ m'.published = m.published
    BY <1>3 DEF CopyInv, Types, Maintainer
  <2> QED BY <1>1, <1>3, <2>1, RunGoesOn DEF RunInv
<1> QED BY <1>2, <1>3 DEF RestorePark

LEMMA RestoreMoveKeepsRunInv ==
  ASSUME CopyInv, RunInv, RestoreMove
  PROVE  RunInv'
<1>1. /\ UNCHANGED <<policy, copies>> /\ Rewriting /\ m.pc = "restore_move" /\ NoStragglers
      /\ m' = [m EXCEPT !.pc = AfterRestore, !.restored = TRUE]
  BY DEF RestoreMove, MUnchanged, Rewriting
<1>2. app' \in {app, Follow(Gone)}
  BY DEF RestoreMove
<1>3. /\ m'.mine = m.mine /\ m'.run = m.run /\ m'.cleaned = m.cleaned
      /\ m'.pc \in {"cleanup", "archive"} /\ m'.restored = TRUE
  BY <1>1 DEF CopyInv, Types, Maintainer, AfterRestore
<1>4. NoStragglers'
  BY <1>1, <1>2, NobodyStraggles
<1>5. ~Rewriting'
  BY <1>3 DEF Rewriting
<1> QED BY <1>1, <1>3, <1>4, <1>5, RunGoesOn

LEMMA ArchiveKeepsRunInv ==
  ASSUME CopyInv, RunInv, Archive
  PROVE  RunInv'
<1>1. UNCHANGED <<policy, copies, app>> /\ m.pc = "archive" /\ NoStragglers /\ m' = [m EXCEPT !.pc = "cleanup"]
  BY DEF Archive, MUnchanged
<1>2. /\ m'.mine = m.mine /\ m'.run = m.run /\ m'.cleaned = m.cleaned
      /\ m'.pc = "cleanup" /\ m'.restored = m.restored
  BY <1>1 DEF CopyInv, Types, Maintainer
<1>3. NoStragglers' /\ ~Rewriting'
  BY <1>1, <1>2 DEF Rewriting, NoStragglers, Names
<1>4. m.restored
  BY <1>1 DEF RunInv
<1> QED BY <1>1, <1>2, <1>3, <1>4, RunGoesOn

\* Without a split cleanup: a fault ends the run and leaves its copies, has it restored,
\* has the copies of a restored run removed, or leaves the first copy that was to go.
LEMMA FaultIsWhole ==
  ASSUME CopyInv, RunInv, Fault, SplitCleanup = FALSE
  PROVE  /\ UNCHANGED <<policy, key, done, before, live, copies, parks, archived, app, reader>>
         /\ \/ m' = Idle /\ ~m.cleaned
            \/ /\ Rewriting /\ m'.pc = "restore" /\ m'.mine = m.mine /\ m'.run = m.run
               /\ m'.cleaned = m.cleaned /\ m'.restored = m.restored /\ m'.published = m.published
            \/ /\ m.pc = "archive" /\ m'.pc = "cleanup" /\ m'.mine = m.mine /\ m'.run = m.run
               /\ m'.cleaned = m.cleaned /\ m'.restored = m.restored /\ m'.published = m.published
               /\ ~(m.published /\ policy.archive /\ m.run # "merge")
            \/ ~m.cleaned /\ \E c \in DOMAIN m.mine : PassesOver(c)
<1>1. UNCHANGED <<policy, key, done, before, live, copies, parks, archived, app, reader>>
  BY DEF Fault, MUnchanged, store
<1>2. m \in Maintainer
  BY DEF CopyInv, Types
<1>3. m.pc # "cleanup" => ~m.cleaned
  BY DEF RunInv
<1>4. CASE /\ m.pc \in {"survivors", "publish", "park", "restore", "restore_move"} /\ ~m.failed
           /\ m' = IF m.mine = <<>> THEN Idle ELSE [m EXCEPT !.pc = "restore", !.failed = TRUE, !.temp = <<>>]
  <2>1. Rewriting
    BY <1>4 DEF Rewriting
  <2>2. CASE m' = [m EXCEPT !.pc = "restore", !.failed = TRUE, !.temp = <<>>]
    <3>1. /\ m'.pc = "restore" /\ m'.mine = m.mine /\ m'.run = m.run /\ m'.cleaned = m.cleaned
          /\ m'.restored = m.restored /\ m'.published = m.published
      BY <1>2, <2>2 DEF Maintainer
    <3> QED BY <1>1, <2>1, <3>1
  <2> QED BY <1>1, <1>3, <1>4, <2>2
<1>5. CASE /\ m.pc \in {"restore", "restore_move"}
           /\ m' = IF KeepsCopies THEN Idle ELSE [m EXCEPT !.pc = "cleanup"]
  <2>1. ~m.restored
    BY <1>5 DEF RunInv, Rewriting
  <2> QED BY <1>1, <1>3, <1>5, <2>1 DEF KeepsCopies
<1>6. CASE /\ m.pc = "archive"
           /\ m' = IF KeepsCopies THEN Idle ELSE [m EXCEPT !.pc = "cleanup"]
  <2>1. CASE ~KeepsCopies
    <3>1. /\ m'.pc = "cleanup" /\ m'.mine = m.mine /\ m'.run = m.run /\ m'.cleaned = m.cleaned
          /\ m'.restored = m.restored /\ m'.published = m.published
      BY <1>2, <1>6, <2>1 DEF Maintainer
    <3> QED BY <1>1, <1>6, <2>1, <3>1 DEF KeepsCopies, Archives
  <2> QED BY <1>1, <1>3, <1>6, <2>1
<1>7. CASE /\ m.pc = "cleanup" /\ ~m.cleaned
           /\ \E i \in DOMAIN m.mine : NextToRemove(i) /\ m' = [m EXCEPT !.mine = RemoveAt(@, i)]
  BY <1>1, <1>7 DEF PassesOver
<1> QED BY <1>4, <1>5, <1>6, <1>7 DEF Fault

\* It was the first, so those that are still to go are the last ones.
LEMMA PassingOverKeepsRunInv ==
  ASSUME CopyInv, RunInv, UNCHANGED <<policy, copies, app>>, ~m.cleaned, NEW c \in DOMAIN m.mine, PassesOver(c)
  PROVE  RunInv'
<1>1. /\ m'.pc = "cleanup" /\ m'.run = m.run /\ m'.published = m.published /\ m'.restored = m.restored
      /\ m'.cleaned = m.cleaned
      /\ \A i \in DOMAIN m'.mine : m'.mine[i] = m.mine[Skip(c, i)] /\ Skip(c, i) \in DOMAIN m.mine \ {c}
      /\ \A i, j \in DOMAIN m'.mine : i < j => Skip(c, i) < Skip(c, j)
      /\ \A k \in DOMAIN m.mine \ {c} : \E i \in DOMAIN m'.mine : Skip(c, i) = k
  BY PassingOverLeaves
<1>2. m.pc = "cleanup" /\ NextToRemove(c) /\ Active /\ m.restored /\ NoStragglers /\ Names' = Names
  BY DEF PassesOver, Active, RunInv, Names
<1>3. DOMAIN m.mine \in SUBSET Nat /\ c \in Nat /\ \A k \in DOMAIN m.mine : k \in Nat /\ k >= 1 /\ m.mine[k].name \in Nat
  BY MaintainerFields, MineIsNamed, NamesAreSmall DEF CopyInv
<1>4. ASSUME NEW k \in DOMAIN m.mine \ {c}, Removable(m.mine[k])  PROVE m.mine[c].name < m.mine[k].name
  <2>1. ~(k < c)
    BY <1>2, <1>3, <1>4 DEF NextToRemove
  <2>2. c < k
    BY <1>3, <1>4, <2>1
  <2> QED BY <1>4, <2>2 DEF RunInv
<1>5. \A i, j \in DOMAIN m'.mine : i < j => m'.mine[i].name < m'.mine[j].name
  BY <1>1 DEF RunInv
<1>6. ASSUME NEW i \in Own', NEW n \in Names, n > m'.mine[i].name
      PROVE  \E j \in Own' : m'.mine[j].name = n
  <2>1. PICK k \in DOMAIN m.mine \ {c} : m'.mine[i] = m.mine[k] /\ k \in Own
    BY <1>1, <1>6 DEF Own
  <2>2. PICK j \in Own : m.mine[j].name = n
    BY <1>2, <1>6, <2>1 DEF RunInv
  <2>3. m.mine[c].name < m.mine[k].name
    BY <1>4, <2>1 DEF Own, Removable
  <2>4. j \in DOMAIN m.mine \ {c}
    BY <1>3, <1>6, <2>1, <2>2, <2>3 DEF Own
  <2>5. PICK l \in DOMAIN m'.mine : Skip(c, l) = j
    BY <1>1, <2>4
  <2> QED BY <1>1, <2>2, <2>5 DEF Own
<1>7. ASSUME m.published, m.run = "merge", NEW i \in DOMAIN m'.mine, NEW n \in Names, n > m'.mine[i].name
      PROVE  n \in Mine'
  <2>1. PICK k \in DOMAIN m.mine \ {c} : m'.mine[i] = m.mine[k]
    BY <1>1, <1>7
  <2>2. PICK j \in DOMAIN m.mine : m.mine[j].name = n
    <3>1. n \in Mine
      BY <1>2, <1>7, <2>1 DEF RunInv
    <3> QED BY <3>1 DEF Mine
  <2>3. m.mine[c].name < m.mine[k].name
    BY <1>4, <1>7, <2>1 DEF Removable
  <2>4. j \in DOMAIN m.mine \ {c}
    BY <1>3, <1>7, <2>1, <2>2, <2>3
  <2>5. PICK l \in DOMAIN m'.mine : Skip(c, l) = j
    BY <1>1, <2>4
  <2> QED BY <1>1, <2>2, <2>5 DEF Mine
<1>8. NoStragglers' /\ ~Rewriting'
  BY <1>1, <1>2 DEF NoStragglers, Rewriting
<1> QED BY <1>1, <1>2, <1>5, <1>6, <1>7, <1>8 DEF RunInv

LEMMA FaultKeepsRunInv ==
  ASSUME CopyInv, RunInv, Fault, SplitCleanup = FALSE
  PROVE  RunInv'
<1>1. UNCHANGED <<policy, copies, app>>
  BY FaultIsWhole
<1>2. CASE m' = Idle
  BY <1>1, <1>2, RunEnds
<1>3. CASE /\ Rewriting /\ m'.pc = "restore" /\ m'.mine = m.mine /\ m'.run = m.run
           /\ m'.cleaned = m.cleaned /\ m'.restored = m.restored /\ m'.published = m.published
  <2>1. m.pc \notin {"idle", "cleanup"}
    BY <1>3 DEF Rewriting
  <2> QED BY <1>1, <1>3, <2>1, RunGoesOn DEF RunInv
<1>4. CASE /\ m.pc = "archive" /\ m'.pc = "cleanup" /\ m'.mine = m.mine /\ m'.run = m.run
           /\ m'.cleaned = m.cleaned /\ m'.restored = m.restored /\ m'.published = m.published
  <2>1. NoStragglers' /\ ~Rewriting'
    BY <1>1, <1>4 DEF Rewriting, NoStragglers, Names, RunInv
  <2>2. m.restored
    BY <1>4 DEF RunInv
  <2> QED BY <1>1, <1>4, <2>1, <2>2, RunGoesOn
<1>5. ASSUME ~m.cleaned, NEW c \in DOMAIN m.mine, PassesOver(c)  PROVE RunInv'
  BY <1>1, <1>5, PassingOverKeepsRunInv
<1> QED BY <1>2, <1>3, <1>4, <1>5, FaultIsWhole

LEMMA CleanupKeepsRunInv ==
  ASSUME CopyInv, RunInv, Cleanup
  PROVE  RunInv'
<1>1. UNCHANGED <<policy, app>> /\ m.pc = "cleanup" /\ NoStragglers /\ m.restored
  BY CleanupChanges DEF Cleanup, RunInv
<1>2. ASSUME NEW c \in DOMAIN m.mine, Removes(c)  PROVE RunInv'
  <2>1. /\ Names' = Names \ {m.mine[c].name} /\ m'.pc = "cleanup" /\ m'.run = m.run
        /\ \A i \in DOMAIN m'.mine : m'.mine[i] = m.mine[Skip(c, i)] /\ Skip(c, i) \in DOMAIN m.mine
        /\ \A i, j \in DOMAIN m'.mine : i < j => Skip(c, i) < Skip(c, j)
    BY <1>2, RemovalLeaves
  <2>2. m'.cleaned = TRUE /\ m'.restored
    BY <1>1, <1>2 DEF Removes, CopyInv, Types, Maintainer
  <2>3. \A i, j \in DOMAIN m'.mine : i < j => m'.mine[i].name < m'.mine[j].name
    BY <2>1 DEF RunInv
  <2>4. \A i, j \in DOMAIN copies' : i < j => copies'[i].name < copies'[j].name
    <3>1. PICK d : d = Copy(m.mine[c].name)
      OBVIOUS
    <3>2. d \in DOMAIN copies
      BY <3>1, MineIsNamed, CopyFound DEF CopyInv
    <3>3. copies \in Seq(CopyRecord) /\ d \in 1..Len(copies) /\ copies' = RemoveAt(copies, d)
      BY <1>2, <3>1, <3>2, LenProperties DEF Removes, CopyInv, Types
    <3>4. /\ \A i \in DOMAIN copies' : copies'[i] = copies[Skip(d, i)] /\ Skip(d, i) \in DOMAIN copies \ {d}
          /\ \A i, j \in DOMAIN copies' : i < j => Skip(d, i) < Skip(d, j)
      BY <3>3, RemovedAt
    <3> QED BY <3>4 DEF RunInv
  <2>5. NoStragglers' /\ ~Rewriting' /\ ~Active'
    BY <1>1, <2>1, <2>2 DEF NoStragglers, Rewriting, Active
  <2> QED BY <1>1, <2>1, <2>2, <2>3, <2>4, <2>5 DEF RunInv
<1>3. CASE CleanedUp
  BY <1>1, <1>3, RunEnds DEF CleanedUp
<1> QED BY <1>2, <1>3, CleanupChanges

LEMMA AppendsKeepRunInv ==
  ASSUME CopyInv, RunInv, NEW a \in Appenders, Write(a) \/ \E k \in Keys : Open(a, k)
  PROVE  RunInv'
<1>1. CASE Write(a)
  <2>1. UNCHANGED <<policy, m>> /\ Names' = Names /\ app' = [app EXCEPT ![a] = [at |-> None, line |-> 0]]
    BY <1>1, WriteChanges DEF Write
  <2>2. None \notin Names
    BY CopyFound DEF CopyInv
  <2>3. NoStragglers => NoStragglers'
    BY <2>1, <2>2 DEF NoStragglers, CopyInv, Types
  <2>4. copies \in Seq(CopyRecord) /\ \A i \in DOMAIN copies : copies[i] \in CopyRecord
    BY LenProperties, ElementOfSeq DEF CopyInv, Types
  <2>5. DOMAIN copies' = DOMAIN copies /\ \A i \in DOMAIN copies : copies'[i].name = copies[i].name
    BY <1>1, <2>4 DEF Write, CopyRecord
  <2> QED BY <2>1, <2>3, <2>5, RunStays DEF RunInv
<1>2. ASSUME NEW k \in Keys, Open(a, k)  PROVE RunInv'
  <2>1. UNCHANGED <<policy, copies, m>> /\ app' = [app EXCEPT ![a] = [at |-> Live, line |-> Len(key) + 1]]
    BY <1>2 DEF Open
  <2>2. Names' = Names /\ Live \notin Names
    BY <2>1, NamesAreSmall DEF Names, Live
  <2>3. NoStragglers => NoStragglers'
    BY <2>1, <2>2 DEF NoStragglers, CopyInv, Types
  <2> QED BY <2>1, <2>2, <2>3, RunStays DEF RunInv
<1> QED BY <1>1, <1>2

LEMMA OthersKeepRunInv ==
  ASSUME CopyInv, RunInv, Rotate \/ Untouched \/ (Crash /\ SplitCleanup = FALSE)
  PROVE  RunInv'
<1>1. CASE Rotate \/ Untouched
  <2>1. UNCHANGED <<policy, m, copies, app>>
    BY <1>1 DEF Rotate, MUnchanged, Untouched
  <2>2. Names' = Names
    BY <2>1 DEF Names
  <2>3. NoStragglers => NoStragglers'
    BY <2>1, <2>2 DEF NoStragglers
  <2> QED BY <2>1, <2>2, <2>3, RunStays DEF RunInv
<1>2. CASE Crash
  BY <1>2, RunEnds DEF Crash, store
<1> QED BY <1>1, <1>2

\* Every step keeps a run on its way.
LEMMA RunStep ==
  ASSUME SplitCleanup = FALSE, CopyInv, RunInv, [Next]_vars
  PROVE  RunInv'
<1>1. ASSUME NEW a \in Appenders, Write(a) \/ \E k \in Keys : Open(a, k)  PROVE RunInv'
  BY <1>1, AppendsKeepRunInv
<1>2. CASE StartRewrite \/ StartMerge \/ Park \/ Look \/ WriteSurvivors \/ Publish
  BY <1>2, StartRewriteKeepsRunInv, StartMergeKeepsRunInv, ParkKeepsRunInv, LookKeepsRunInv,
     WriteSurvivorsKeepsRunInv, PublishKeepsRunInv
<1>3. CASE RestorePark \/ RestoreMove \/ Archive \/ Cleanup \/ Fault
  BY <1>3, RestoreParkKeepsRunInv, RestoreMoveKeepsRunInv, ArchiveKeepsRunInv, CleanupKeepsRunInv,
     FaultKeepsRunInv
<1>4. CASE Rotate \/ Crash \/ ReaderStep \/ UNCHANGED vars
  BY <1>4, OthersKeepRunInv, ReaderTouchesNothing
<1> QED BY <1>1, <1>2, <1>3, <1>4 DEF Next, ReaderStep

-----------------------------------------------------------------------------
(* Steps that leave the row of files as it is *)

RowsStay ==
  /\ UNCHANGED <<key, before, done>>
  /\ \A n \in Nat : File(n)' = File(n) /\ Row(n)' = Row(n)
  /\ \A a \in Appenders :
       /\ app'[a].at # None =>
            app[a].at # None /\ app'[a].line = app[a].line /\ app'[a].at \in Int /\ app'[a].at <= parks'
       /\ IsOpen(a)' => IsOpen(a) /\ OpenAt(a)' = OpenAt(a)

\* Where no file changes, a row changes at most by a cleanup that ends.
LEMMA SameFilesAreSameRows ==
  ASSUME CopyInv, History, UNCHANGED <<key, before, done, live, copies, parks, app>>,
         \/ ~m.cleaned /\ ~m'.cleaned
         \/ UNCHANGED m
         \/ (\A i \in DOMAIN m.mine : ~Removable(m.mine[i])) /\ m' = Idle
         \/ ~m.cleaned /\ m' = Idle
         \/ CleanedUp
  PROVE  RowsStay
<1>1. Names' = Names /\ \A n : CopyLines(n)' = CopyLines(n)
  BY DEF Names, CopyLines, Copy
<1>2. \A n \in Nat : File(n)' = File(n)
  BY <1>1 DEF File
<1>3. \A n \in Nat : Stays(n)' = Stays(n)
  <2>1. CASE ~m.cleaned /\ ~m'.cleaned
    BY <2>1 DEF Stays
  <2>2. CASE UNCHANGED m
    BY <2>2 DEF Stays, Removables, Removable
  <2>3. CASE (\A i \in DOMAIN m.mine : ~Removable(m.mine[i])) /\ m' = Idle
    <3>1. Removables = {} /\ m'.cleaned = FALSE
      BY <2>3 DEF Removables, Idle
    <3> QED BY <3>1 DEF Stays
  <2>4. CASE ~m.cleaned /\ m' = Idle
    BY <2>4 DEF Stays, Idle
  <2> QED BY <2>1, <2>2, <2>3, <2>4 DEF CleanedUp, AllRemoved
<1>4. \A n \in Nat : Row(n)' = Row(n)
  BY <1>2, <1>3 DEF Row
<1>5. \A a \in Appenders : IsOpen(a)' => IsOpen(a) /\ OpenAt(a)' = OpenAt(a)
  BY <1>1 DEF IsOpen, OpenAt
<1> QED BY <1>2, <1>4, <1>5 DEF RowsStay, History

\* A live file that is parked keeps its place.
LEMMA ParkedIsSameRows ==
  ASSUME CopyInv, History, UNCHANGED <<key, before, done>>, live # None,
         NEW pc \in MaintainerPcs, Parked(pc), ~m.cleaned
  PROVE  RowsStay
<1>1. /\ live \in Seq(Nat) /\ parks' = parks + 1 /\ live' = None /\ app' = Follow(parks + 1)
  BY ParkedJoins
<1>2. m'.cleaned = m.cleaned
  BY DEF Parked, CopyInv, Types, Maintainer
<1>3. /\ Names' = Names \cup {parks + 1}
      /\ \A n : CopyLines(n)' = IF n = parks + 1 THEN live ELSE CopyLines(n)
  BY <1>1, CopyAdded DEF CopyInv, Parked
<1>4. parks \in Nat /\ parks + 1 \notin Names /\ \A n \in Names : n \in Nat /\ n >= 1 /\ n <= parks
  BY NamesAreSmall
<1>5. ASSUME NEW n \in Nat  PROVE File(n)' = File(n)
  <2>1. CASE n = parks + 1
    BY <2>1, <1>1, <1>3, <1>4 DEF File
  <2>2. CASE n = parks + 2
    <3>1. n \notin Names /\ n # parks + 1
      BY <2>2, <1>4
    <3>2. File(n) = <<>>
      BY <3>1 DEF File, CopyLines
    <3>3. n = parks' + 1
      BY <2>2, <1>1, <1>4
    <3> QED BY <3>2, <3>3, <1>1 DEF File
  <2>3. CASE n # parks + 1 /\ n # parks + 2
    BY <2>3, <1>1, <1>3, <1>4 DEF File
  <2> QED BY <2>1, <2>2, <2>3
<1>6. \A n \in Nat : Row(n)' = Row(n)
  BY <1>2, <1>5 DEF Row, Stays
<1>7. \A a \in Appenders : app[a].at \in Int \cup {None} /\ app[a] \in [at : Int \cup {None}, line : Nat]
  BY DEF CopyInv, Types
<1>8. Live # None /\ parks + 1 # None /\ parks + 1 # Live
  BY <1>4, NoneIsNoFile DEF Live
<1>9. ASSUME NEW a \in Appenders
      PROVE  /\ app'[a].at # None =>
                  app[a].at # None /\ app'[a].line = app[a].line /\ app'[a].at \in Int /\ app'[a].at <= parks'
             /\ IsOpen(a)' => IsOpen(a) /\ OpenAt(a)' = OpenAt(a)
  <2>1. CASE app[a].at = Live
    <3>1. app'[a] = [app[a] EXCEPT !.at = parks + 1]
      BY <2>1, <1>1 DEF Follow
    <3>2. app'[a].at = parks + 1 /\ app'[a].line = app[a].line
      BY <3>1, <1>7
    <3> QED BY <2>1, <3>2, <1>1, <1>4, <1>8 DEF IsOpen, OpenAt
  <2>2. CASE app[a].at # Live
    <3>1. app'[a] = app[a]
      BY <2>2, <1>1 DEF Follow
    <3>2. app[a].at # None => app[a].at \in Int /\ app[a].at <= parks
      BY DEF History
    <3>3. app'[a].at # None =>
            app[a].at # None /\ app'[a].line = app[a].line /\ app'[a].at \in Int /\ app'[a].at <= parks'
      BY <3>1, <3>2, <1>1, <1>4
    <3>4. app[a].at # parks + 1
      BY <3>2, <1>4, <1>8
    <3> QED BY <2>2, <3>1, <3>3, <3>4, <1>3 DEF IsOpen, OpenAt
  <2> QED BY <2>1, <2>2
<1> QED BY <1>5, <1>6, <1>9 DEF RowsStay

\* An order is one of the rows: it stays where they stay.
LEMMA RowsStayOrdered ==
  ASSUME History, LateBeganFirst, CopyInv', RowsStay
  PROVE  /\ History' /\ LateBeganFirst'
         /\ \A r : Orders(r) /\ (m'.pc = "publish" => Sorted(r, m'.temp)) => Orders(r)'
<1>1. History' /\ LateBeganFirst'
  <2>1. \A n \in Nat : ToSet(File(n))' = ToSet(File(n))
    BY DEF RowsStay
  <2> QED BY <2>1, SameHistory DEF RowsStay
<1>2. ASSUME NEW r, Orders(r), m'.pc = "publish" => Sorted(r, m'.temp)  PROVE Orders(r)'
  BY <1>2, SameRows DEF RowsStay
<1> QED BY <1>1, <1>2

\* The run's own copies, when the files stay.
LEMMA RowsStayFresh ==
  ASSUME CopyInv, CopyInv', RoundsAreFresh, RowsStay,
         Rewriting' => \A i \in Own' : \/ m'.mine[i].name = parks + 1
                                       \/ Rewriting /\ \E j \in Own : m.mine[j].name = m'.mine[i].name
  PROVE  RoundsAreFresh'
<1>1. SUFFICES ASSUME Rewriting', NEW i \in Own', NEW n \in Nat, n > m'.mine[i].name, NEW h \in Nat, h < n
               PROVE  ToSet(File(n)) \cap ToSet(File(h)) = {}
  <2>1. \A n \in Nat : ToSet(File(n))' = ToSet(File(n))
    BY DEF RowsStay
  <2> QED BY <2>1 DEF RoundsAreFresh
<1>2. CASE m'.mine[i].name = parks + 1
  BY <1>1, <1>2, FilesHold
<1>3. CASE Rewriting /\ \E j \in Own : m.mine[j].name = m'.mine[i].name
  BY <1>1, <1>3 DEF RoundsAreFresh
<1> QED BY <1>1, <1>2, <1>3

-----------------------------------------------------------------------------
(* Steps that leave the row of files as it is, one by one *)

LEMMA SameOrder ==
  ASSUME FramedInv', \A r : Ranking(r) /\ Orders(r) => Orders(r)'
  PROVE  OrderGoesOn
BY DEF OrderGoesOn, Follows

\* A step of the maintainer that leaves the rows alone keeps the order, and what follows a
\* first copy new.
LEMMA SameRowsKeepOrder ==
  ASSUME OrderInv, DoubleInv', RunInv', RowsStay,
         Rewriting' => \A i \in Own' : \/ m'.mine[i].name = parks + 1
                                       \/ Rewriting /\ \E j \in Own : m.mine[j].name = m'.mine[i].name,
         m'.pc = "publish" => m.pc = "publish" /\ m'.temp = m.temp /\ m'.mine = m.mine
  PROVE  OrderGoesOn
<1>0. CopyInv /\ CopyInv' /\ FramedInv
  BY DEF OrderInv, FramedInv, DoubleInv
<1>1. History' /\ LateBeganFirst'
  BY <1>0, RowsStayOrdered DEF FramedInv
<1>2. RoundsAreFresh'
  BY <1>0, RowsStayFresh DEF FramedInv
<1>3. ResultIsOfCopies'
  <2>1. SUFFICES ASSUME m'.pc = "publish"
                 PROVE  \A x \in ToSet(m'.temp) : \E i \in DOMAIN m'.mine : x \in ToSet(MineLines(i))'
    BY DEF ResultIsOfCopies
  <2>2. \A i \in DOMAIN m.mine : m.mine[i].name \in Nat /\ MineLines(i) = File(m.mine[i].name)
    BY <1>0, FilesHold, NamesAreSmall
  <2>3. ASSUME NEW i \in DOMAIN m.mine  PROVE MineLines(i)' = MineLines(i)
    <3>1. PICK n \in Nat : n = m.mine[i].name
      BY <2>2
    <3>2. m'.mine[i].name = n /\ i \in DOMAIN m'.mine
      BY <2>1, <3>1
    <3>3. n <= parks' /\ parks' \in Nat
      <4>1. parks' \in Nat /\ Mine' \subseteq Names' /\ Names' \subseteq 1..parks'
        BY <1>0 DEF CopyInv, NamesAreOwn, MineIsParked, Types
      <4>2. n \in Mine'
        BY <3>2 DEF Mine
      <4> QED BY <4>1, <4>2
    <3>4. n # parks' + 1
      <4>1. \A p \in Nat : n <= p => n # p + 1
        OBVIOUS
      <4> QED BY <3>3, <4>1
    <3>5. File(n)' = CopyLines(n)'
      BY <3>4 DEF File
    <3>6. MineLines(i)' = CopyLines(n)'
      BY <3>2 DEF MineLines, CopyLines, Copy
    <3> QED BY <3>1, <3>5, <3>6, <2>2 DEF RowsStay
  <2>4. \A i \in DOMAIN m.mine : MineLines(i)' = MineLines(i)
    BY <2>3
  <2>5. \A x \in ToSet(m.temp) : \E i \in DOMAIN m.mine : x \in ToSet(MineLines(i))
    BY <1>0, <2>1 DEF FramedInv, ResultIsOfCopies
  <2>6. \A i \in DOMAIN m.mine : ToSet(MineLines(i))' = ToSet(MineLines(i))
    BY <2>4 DEF ToSet
  <2> QED BY <2>1, <2>5, <2>6
<1>4. ASSUME NEW r, Ranking(r), Orders(r)  PROVE Orders(r)'
  <2>1. m'.pc = "publish" => Sorted(r, m'.temp)
    BY <1>4 DEF Orders, Sorted
  <2> QED BY <2>1, <1>0, <1>4, RowsStayOrdered DEF FramedInv
<1>5. FramedInv'
  BY <1>1, <1>2, <1>3 DEF FramedInv
<1> QED BY <1>4, <1>5, SameOrder

LEMMA UntouchedKeepsOrder ==
  ASSUME OrderInv, DoubleInv', RunInv', Untouched
  PROVE  OrderGoesOn
<1>1. RowsStay
  BY SameFilesAreSameRows DEF OrderInv, FramedInv, DoubleInv, Untouched
<1>2. Rewriting' => \A i \in Own' : Rewriting /\ \E j \in Own : m.mine[j].name = m'.mine[i].name
  BY DEF Untouched, Rewriting, Own
<1> QED BY <1>1, <1>2, SameRowsKeepOrder DEF Untouched

\* A run that starts, moves on, moves a file aside or ends.
LEMMA MovingOnKeepsOrder ==
  ASSUME OrderInv, DoubleInv', RunInv', UNCHANGED <<key, before, done, live, copies, parks, app>>,
         ~m.cleaned, ~m'.cleaned, m'.pc # "publish",
         Rewriting' => Own' = {} \/ (Rewriting /\ m'.mine = m.mine)
  PROVE  OrderGoesOn
<1>1. RowsStay
  BY SameFilesAreSameRows DEF OrderInv, FramedInv, DoubleInv
<1>2. Rewriting' => \A i \in Own' : Rewriting /\ \E j \in Own : m.mine[j].name = m'.mine[i].name
  BY DEF Own
<1> QED BY <1>1, <1>2, SameRowsKeepOrder

\* Parking moves the live file to the end of the row of copies: it is where it was.
LEMMA ParkedKeepsOrder ==
  ASSUME OrderInv, DoubleInv', RunInv', UNCHANGED <<key, before, done>>, live # None,
         NEW pc \in {"look", "restore_move"}, Parked(pc), Rewriting
  PROVE  OrderGoesOn
<1>0. CopyInv /\ RunInv /\ History /\ pc \in MaintainerPcs
  BY DEF OrderInv, FramedInv, DoubleInv, MaintainerPcs
<1>1. ~m.cleaned
  BY <1>0 DEF RunInv, Rewriting
<1>2. RowsStay
  BY <1>0, <1>1, ParkedIsSameRows
<1>3. /\ DOMAIN m'.mine = 1..(Len(m.mine) + 1) /\ m'.pc = pc
      /\ \A i \in DOMAIN m.mine : m'.mine[i] = m.mine[i]
      /\ m'.mine[Len(m.mine) + 1] = [name |-> parks + 1, indexed |-> Len(live), adopted |-> FALSE]
  BY <1>0, ParkedJoins
<1>4. DOMAIN m.mine = 1..Len(m.mine) /\ Len(m.mine) \in Nat
  BY <1>0, MaintainerFields DEF CopyInv
<1>5. \A i \in Own' : \/ m'.mine[i].name = parks + 1
                      \/ \E j \in Own : m.mine[j].name = m'.mine[i].name
  <2>1. SUFFICES ASSUME NEW i \in Own'
                 PROVE  m'.mine[i].name = parks + 1 \/ \E j \in Own : m.mine[j].name = m'.mine[i].name
    OBVIOUS
  <2>2. i \in DOMAIN m.mine \/ i = Len(m.mine) + 1
    BY <2>1, <1>3, <1>4 DEF Own
  <2>3. i \in DOMAIN m.mine => i \in Own
    BY <2>1, <1>3 DEF Own
  <2> QED BY <2>2, <2>3, <1>3
<1> QED BY <1>2, <1>3, <1>5, SameRowsKeepOrder

LEMMA StartsKeepOrder ==
  ASSUME OrderInv, DoubleInv', RunInv', StartRewrite \/ StartMerge
  PROVE  OrderGoesOn
<1>0. CopyInv
  BY DEF OrderInv, FramedInv, DoubleInv
<1>1. CASE StartRewrite
  <2>1. /\ UNCHANGED <<key, before, done, live, copies, parks, app>> /\ ~m.cleaned /\ ~m'.cleaned
        /\ m'.pc = "park" /\ m'.mine = <<>>
    BY <1>1 DEF StartRewrite, MUnchanged, store, Idle
  <2>2. Own' = {}
    <3>1. DOMAIN m'.mine = {}
      BY <2>1
    <3> QED BY <3>1 DEF Own
  <2> QED BY <2>1, <2>2, MovingOnKeepsOrder
<1>2. CASE StartMerge
  <2>1. /\ UNCHANGED <<key, before, done, store, app>> /\ m = Idle /\ m'.pc = "park"
        /\ DOMAIN m'.mine = DOMAIN copies
        /\ \A i \in DOMAIN copies : m'.mine[i] = [name |-> copies[i].name,
                                    indexed |-> Len(copies[i].lines), adopted |-> TRUE]
    BY <1>0, <1>2, MergeAdopts
  <2>2. Own' = {}
    <3>1. ASSUME NEW i \in DOMAIN m'.mine  PROVE m'.mine[i].adopted
      <4>1. m'.mine[i] = [name |-> copies[i].name, indexed |-> Len(copies[i].lines), adopted |-> TRUE]
        BY <2>1
      <4> QED BY <4>1
    <3> QED BY <3>1 DEF Own
  <2>3. ~m.cleaned /\ ~m'.cleaned
    BY <2>1, <1>2 DEF StartMerge, Idle
  <2>4. UNCHANGED <<live, copies, parks>>
    BY <2>1 DEF store
  <2> QED BY <2>1, <2>2, <2>3, <2>4, MovingOnKeepsOrder
<1> QED BY <1>1, <1>2

LEMMA ParksKeepOrder ==
  ASSUME OrderInv, DoubleInv', RunInv', Park \/ RestorePark
  PROVE  OrderGoesOn
<1>0. CopyInv /\ m \in Maintainer /\ RunInv
  BY DEF OrderInv, FramedInv, DoubleInv, CopyInv, Types
<1>1. Rewriting /\ ~m.cleaned /\ m.pc # "publish" /\ UNCHANGED <<key, before, done>>
  BY <1>0 DEF Park, RestorePark, Rewriting, RunInv, MUnchanged
<1>2. CASE live # None
  BY <1>0, <1>1, <1>2, ParkedKeepsOrder DEF Park, RestorePark
<1>3. CASE live = None
  <2>1. UNCHANGED <<key, before, done, live, copies, parks, app>>
    BY <1>3 DEF Park, RestorePark, MUnchanged
  <2>2. m' = Idle \/ (m'.mine = m.mine /\ ~m'.cleaned /\ m'.pc # "publish")
    BY <1>0, <1>1, <1>3 DEF Park, RestorePark, Maintainer
  <2>3. m' = Idle => ~m'.cleaned /\ m'.pc # "publish" /\ ~Rewriting'
    BY DEF Idle, Rewriting
  <2> QED BY <2>1, <2>2, <2>3, <1>1, MovingOnKeepsOrder
<1> QED BY <1>2, <1>3

LEMMA LookKeepsOrder ==
  ASSUME OrderInv, DoubleInv', RunInv', Look
  PROVE  OrderGoesOn
<1>0. CopyInv /\ m \in Maintainer /\ RunInv
  BY DEF OrderInv, FramedInv, DoubleInv, CopyInv, Types
<1>1. Rewriting /\ ~m.cleaned /\ UNCHANGED <<key, before, done, live, copies, parks, app>>
  BY <1>0 DEF Look, Rewriting, RunInv, MUnchanged, store
<1>2. m'.mine = m.mine /\ m'.cleaned = m.cleaned /\ m'.pc # "publish"
  <2>1. CASE live = None
    BY <2>1, <1>0 DEF Look, Maintainer
  <2>2. CASE live # None
    BY <2>2, <1>0, NextRoundKeeps, NextRoundRemembers DEF Look
  <2> QED BY <2>1, <2>2
<1> QED BY <1>1, <1>2, MovingOnKeepsOrder

\* The maintainer goes on with what is restored or archived.
LEMMA ArchiveKeepsOrder ==
  ASSUME OrderInv, DoubleInv', RunInv', Archive
  PROVE  OrderGoesOn
<1>0. CopyInv /\ m \in Maintainer /\ RunInv
  BY DEF OrderInv, FramedInv, DoubleInv, CopyInv, Types
<1>1. ~m.cleaned /\ UNCHANGED <<key, before, done, live, copies, parks, app>>
  BY <1>0 DEF Archive, RunInv, MUnchanged
<1>2. m'.cleaned = m.cleaned /\ m'.pc = "cleanup"
  BY <1>0 DEF Archive, Maintainer
<1> QED BY <1>1, <1>2, MovingOnKeepsOrder DEF Rewriting

LEMMA TroubleKeepsOrder ==
  ASSUME OrderInv, DoubleInv', RunInv', Fault \/ Crash, SplitCleanup = FALSE
  PROVE  OrderGoesOn
<1>0. CopyInv /\ m \in Maintainer /\ RunInv
  BY DEF OrderInv, FramedInv, DoubleInv, CopyInv, Types
<1>1. CASE m' = Idle /\ ~m.cleaned /\ UNCHANGED <<key, before, done, live, copies, parks, app>>
  <2>1. ~m'.cleaned /\ m'.pc # "publish" /\ ~Rewriting'
    BY <1>1 DEF Idle, Rewriting
  <2> QED BY <1>1, <2>1, MovingOnKeepsOrder
<1>2. CASE Crash
  <2>1. CASE ~m.cleaned
    BY <1>1, <1>2, <2>1 DEF Crash, hist, store
  <2>2. CASE AllRemoved
    <3>1. RowsStay
      BY <1>2, <2>2, SameFilesAreSameRows DEF Crash, hist, store, AllRemoved, OrderInv, FramedInv, DoubleInv
    <3>2. ~Rewriting' /\ m'.pc # "publish"
      BY <1>2 DEF Crash, Idle, Rewriting
    <3> QED BY <3>1, <3>2, SameRowsKeepOrder
  <2> QED BY <1>2, <2>1, <2>2 DEF Crash
<1>3. CASE Fault
  <2>1. /\ UNCHANGED <<key, before, done, live, copies, parks, app>>
        /\ \/ m' = Idle /\ ~m.cleaned
           \/ Rewriting /\ m'.pc = "restore" /\ m'.mine = m.mine /\ m'.cleaned = m.cleaned
           \/ m.pc = "archive" /\ m'.pc = "cleanup" /\ m'.cleaned = m.cleaned
           \/ ~m.cleaned /\ ~m'.cleaned /\ m'.pc = "cleanup"
    BY <1>0, <1>3, FaultIsWhole, PassingOverLeaves
  <2>2. CASE Rewriting /\ m'.pc = "restore" /\ m'.mine = m.mine /\ m'.cleaned = m.cleaned
    <3>1. ~m.cleaned
      BY <2>2, <1>0 DEF RunInv, Rewriting
    <3> QED BY <2>1, <2>2, <3>1, MovingOnKeepsOrder
  <2>3. CASE m.pc = "archive" /\ m'.pc = "cleanup" /\ m'.cleaned = m.cleaned
    <3>1. ~m.cleaned /\ ~Rewriting'
      BY <2>3, <1>0 DEF RunInv, Rewriting
    <3> QED BY <2>1, <2>3, <3>1, MovingOnKeepsOrder
  <2>4. CASE ~m.cleaned /\ ~m'.cleaned /\ m'.pc = "cleanup"
    <3>1. ~Rewriting' /\ m'.pc # "publish"
      BY <2>4 DEF Rewriting
    <3> QED BY <2>1, <2>4, <3>1, MovingOnKeepsOrder
  <2> QED BY <2>1, <2>2, <2>3, <2>4, <1>1
<1> QED BY <1>2, <1>3

-----------------------------------------------------------------------------
(* The result of a rewrite is in order *)

\* Lines of a run are in order where every line that another copy precedes is in no
\* earlier file.
LEMMA PlacesInOrder ==
  ASSUME CopyInv, RunInv, NEW r, Ranking(r), Orders(r), ~m.cleaned,
         NEW P \in SUBSET Places(DOMAIN m.mine),
         \A p, q \in P : p[1] < q[1] =>
           \A h \in Nat : h < m.mine[q[1]].name => LineAt(q) \notin ToSet(File(h))
  PROVE  \A p, q \in P : Precedes(p, q) /\ key[LineAt(p)] = key[LineAt(q)] => r[LineAt(p)] <= r[LineAt(q)]
<1>1. /\ Places(DOMAIN m.mine) \in SUBSET (Nat \X Nat) /\ IsFiniteSet(Places(DOMAIN m.mine))
      /\ \A p \in Places(DOMAIN m.mine) :
           /\ p[1] \in DOMAIN m.mine /\ p[2] \in DOMAIN MineLines(p[1]) /\ p = <<p[1], p[2]>>
           /\ LineAt(p) = MineLines(p[1])[p[2]] /\ LineAt(p) \in Nat
  BY PlacesHold DEF CopyInv
<1>2. ASSUME NEW p \in P, NEW q \in P, Precedes(p, q), key[LineAt(p)] = key[LineAt(q)]
      PROVE  r[LineAt(p)] <= r[LineAt(q)]
  <2>1. /\ p[1] \in DOMAIN m.mine /\ p[2] \in DOMAIN MineLines(p[1]) /\ LineAt(p) = MineLines(p[1])[p[2]]
        /\ q[1] \in DOMAIN m.mine /\ q[2] \in DOMAIN MineLines(q[1]) /\ LineAt(q) = MineLines(q[1])[q[2]]
        /\ LineAt(p) \in Nat /\ LineAt(q) \in Nat
    BY <1>1
  <2>2. /\ m.mine[p[1]].name \in Nat /\ MineLines(p[1]) = File(m.mine[p[1]].name)
        /\ m.mine[q[1]].name \in Nat /\ MineLines(q[1]) = File(m.mine[q[1]].name)
    BY <2>1, FilesHold, NamesAreSmall
  <2>3. CASE p[1] < q[1]
    <3>1. m.mine[p[1]].name < m.mine[q[1]].name
      BY <2>1, <2>3 DEF RunInv
    <3>2. /\ LineAt(q) \in Row(m.mine[q[1]].name) /\ LineAt(p) \in Row(m.mine[p[1]].name)
          /\ \A h \in Nat : h < m.mine[q[1]].name => LineAt(q) \notin Row(h)
      <4>1. \A n \in Nat : Row(n) = ToSet(File(n))
        BY FilesHold
      <4>2. LineAt(q) \in ToSet(File(m.mine[q[1]].name)) /\ LineAt(p) \in ToSet(File(m.mine[p[1]].name))
        BY <2>1, <2>2 DEF ToSet
      <4> QED BY <4>1, <4>2, <2>2, <2>3
    <3>3. NewComesLast(r)
      BY DEF Orders
    <3> QED BY <1>2, <2>2, <3>1, <3>2, <3>3 DEF NewComesLast
  <2>4. CASE p[1] = q[1] /\ p[2] <= q[2]
    <3>1. CASE p[2] = q[2]
      <4>1. LineAt(p) = LineAt(q)
        BY <2>1, <2>4, <3>1
      <4>2. r[LineAt(p)] \in Int \/ LineAt(p) \notin Nat
        BY DEF Ranking
      <4> QED BY <2>1, <4>1, <4>2
    <3>2. CASE p[2] < q[2]
      <4>1. Sorted(r, File(m.mine[p[1]].name))
        BY <2>2 DEF Orders
      <4> QED BY <1>2, <2>1, <2>2, <2>4, <3>2, <4>1 DEF Sorted
    <3>3. p[2] \in Nat /\ q[2] \in Nat
      BY <1>1, <2>1
    <3> QED BY <2>4, <3>1, <3>2, <3>3
  <2> QED BY <1>2, <2>3, <2>4 DEF Precedes
<1> QED BY <1>2

\* So is a file gathered from such places.
LEMMA GatheredInOrder ==
  ASSUME CopyInv, RunInv, NEW r, Ranking(r), Orders(r), ~m.cleaned,
         NEW P \in SUBSET Places(DOMAIN m.mine),
         \A p, q \in P : p[1] < q[1] =>
           \A h \in Nat : h < m.mine[q[1]].name => LineAt(q) \notin ToSet(File(h))
  PROVE  /\ Sorted(r, Gather(P)) /\ DOMAIN Gather(P) = 1..Len(Gather(P))
         /\ \A x \in ToSet(Gather(P)) : \E p \in P : x = LineAt(p)
         /\ \A p \in P : LineAt(p) \in ToSet(Gather(P))
<1>1. /\ Places(DOMAIN m.mine) \in SUBSET (Nat \X Nat) /\ IsFiniteSet(Places(DOMAIN m.mine))
      /\ \A p \in Places(DOMAIN m.mine) :
           /\ p[1] \in DOMAIN m.mine /\ p[2] \in DOMAIN MineLines(p[1]) /\ p = <<p[1], p[2]>>
           /\ LineAt(p) = MineLines(p[1])[p[2]] /\ LineAt(p) \in Nat
  BY PlacesHold DEF CopyInv
<1>2. P \in SUBSET (Nat \X Nat) /\ IsFiniteSet(P) /\ \A p \in P : LineAt(p) \in Nat
  BY <1>1, FS_Subset
<1>3. Gather(P) \in Seq(Nat) /\ DOMAIN Gather(P) = 1..Cardinality(P)
  BY <1>2, GatherEnumerates
<1>4. PICK f \in [1..Cardinality(P) -> P] :
        /\ \A k \in 1..Cardinality(P) : Gather(P)[k] = LineAt(f[k])
        /\ \A j, k \in 1..Cardinality(P) : j < k => f[j] # f[k] /\ Precedes(f[j], f[k])
        /\ \A p \in P : \E k \in 1..Cardinality(P) : f[k] = p
  BY <1>2, GatherEnumerates
<1>5. \A p, q \in P : Precedes(p, q) /\ key[LineAt(p)] = key[LineAt(q)] => r[LineAt(p)] <= r[LineAt(q)]
  BY PlacesInOrder
<1>6. Sorted(r, Gather(P))
  <2>1. SUFFICES ASSUME NEW i \in DOMAIN Gather(P), NEW j \in DOMAIN Gather(P), i < j,
                        key[Gather(P)[i]] = key[Gather(P)[j]]
                 PROVE  r[Gather(P)[i]] <= r[Gather(P)[j]]
    BY DEF Sorted
  <2>2. /\ f[i] \in P /\ f[j] \in P /\ Precedes(f[i], f[j])
        /\ Gather(P)[i] = LineAt(f[i]) /\ Gather(P)[j] = LineAt(f[j])
    BY <1>3, <1>4, <2>1
  <2> QED BY <1>5, <2>1, <2>2
<1>7. DOMAIN Gather(P) = 1..Len(Gather(P))
  BY <1>3, LenProperties
<1>8. \A x \in ToSet(Gather(P)) : \E p \in P : x = LineAt(p)
  BY <1>3, <1>4 DEF ToSet
<1>9. \A p \in P : LineAt(p) \in ToSet(Gather(P))
  BY <1>3, <1>4 DEF ToSet
<1> QED BY <1>6, <1>7, <1>8, <1>9

\* A run's own copies are rounds of new appends.
LEMMA OwnIsFresh ==
  ASSUME OrderInv, Rewriting
  PROVE  /\ Places(Own) \in SUBSET Places(DOMAIN m.mine)
         /\ \A p, q \in Places(Own) : p[1] < q[1] =>
              \A h \in Nat : h < m.mine[q[1]].name => LineAt(q) \notin ToSet(File(h))
<1>0. CopyInv /\ RunInv /\ RoundsAreFresh /\ ~m.cleaned
  BY DEF OrderInv, FramedInv, DoubleInv, RunInv, Rewriting
<1>1. /\ \A p \in Places(Own) :
           /\ p[1] \in Own /\ p[2] \in DOMAIN MineLines(p[1])
           /\ LineAt(p) = MineLines(p[1])[p[2]]
      /\ \A n \in Own : \A i \in DOMAIN MineLines(n) : <<n, i>> \in Places(Own)
  BY <1>0, OwnIsMine, PlacesHold DEF CopyInv
<1>2. /\ \A p \in Places(DOMAIN m.mine) : p[1] \in DOMAIN m.mine
      /\ \A n \in DOMAIN m.mine : \A i \in DOMAIN MineLines(n) : <<n, i>> \in Places(DOMAIN m.mine)
      /\ \A p \in Places(Own) : p = <<p[1], p[2]>>
  BY <1>0, OwnIsMine, PlacesHold DEF CopyInv
<1>3. Places(Own) \in SUBSET Places(DOMAIN m.mine)
  BY <1>1, <1>2, OwnIsMine
<1>4. ASSUME NEW p \in Places(Own), NEW q \in Places(Own), p[1] < q[1],
             NEW h \in Nat, h < m.mine[q[1]].name
      PROVE  LineAt(q) \notin ToSet(File(h))
  <2>1. m.mine[p[1]].name < m.mine[q[1]].name
    BY <1>0, <1>1, <1>4, OwnIsMine DEF RunInv
  <2>2. m.mine[q[1]].name \in Nat /\ MineLines(q[1]) = File(m.mine[q[1]].name)
    BY <1>0, <1>1, <1>4, OwnIsMine, FilesHold, NamesAreSmall
  <2>3. ToSet(File(m.mine[q[1]].name)) \cap ToSet(File(h)) = {}
    BY <1>0, <1>1, <1>4, <2>1, <2>2 DEF RoundsAreFresh
  <2>4. LineAt(q) \in ToSet(File(m.mine[q[1]].name))
    BY <1>1, <1>4, <2>2 DEF ToSet
  <2> QED BY <2>3, <2>4
<1> QED BY <1>3, <1>4

\* The union of a run's own copies, as restoreRawUnion writes it, is in order.
LEMMA OwnInOrder ==
  ASSUME OrderInv, Rewriting, NEW r, Ranking(r), Orders(r)
  PROVE  /\ Sorted(r, Gather(Places(Own)))
         /\ \A x \in ToSet(Gather(Places(Own))) : \E i \in Own : x \in ToSet(MineLines(i))
         /\ \A i \in Own : \A x \in ToSet(MineLines(i)) : x \in ToSet(Gather(Places(Own)))
<1>0. CopyInv /\ RunInv /\ RoundsAreFresh /\ ~m.cleaned
  BY DEF OrderInv, FramedInv, DoubleInv, RunInv, Rewriting
<1>1. /\ \A p \in Places(Own) :
           /\ p[1] \in Own /\ p[2] \in DOMAIN MineLines(p[1])
           /\ LineAt(p) = MineLines(p[1])[p[2]]
      /\ \A n \in Own : \A i \in DOMAIN MineLines(n) : <<n, i>> \in Places(Own)
  BY <1>0, OwnIsMine, PlacesHold DEF CopyInv
<1>3. Places(Own) \in SUBSET Places(DOMAIN m.mine)
  BY OwnIsFresh
<1>4. \A p, q \in Places(Own) : p[1] < q[1] =>
        \A h \in Nat : h < m.mine[q[1]].name => LineAt(q) \notin ToSet(File(h))
  BY OwnIsFresh
<1>5. /\ Sorted(r, Gather(Places(Own)))
      /\ \A x \in ToSet(Gather(Places(Own))) : \E p \in Places(Own) : x = LineAt(p)
      /\ \A p \in Places(Own) : LineAt(p) \in ToSet(Gather(Places(Own)))
  BY <1>0, <1>3, <1>4, GatheredInOrder
<1>6. \A x \in ToSet(Gather(Places(Own))) : \E i \in Own : x \in ToSet(MineLines(i))
  <2>1. \A p \in Places(Own) : LineAt(p) \in ToSet(MineLines(p[1]))
    BY <1>1 DEF ToSet
  <2> QED BY <1>1, <1>5, <2>1
<1>7. ASSUME NEW i \in Own, NEW x \in ToSet(MineLines(i))  PROVE x \in ToSet(Gather(Places(Own)))
  <2>1. PICK k \in DOMAIN MineLines(i) : x = MineLines(i)[k]
    BY <1>7 DEF ToSet
  <2>2. <<i, k>> \in Places(Own) /\ LineAt(<<i, k>>) = MineLines(i)[k]
    BY <1>1, <2>1
  <2> QED BY <1>5, <2>1, <2>2
<1> QED BY <1>5, <1>6, <1>7

\* So are the survivors of a rewrite; a merge keeps the first of the lines that its
\* copies share.
LEMMA SurvivorsInOrder ==
  ASSUME OrderInv, Rewriting, m.pc = "survivors", NEW r, Ranking(r), Orders(r)
  PROVE  /\ Sorted(r, Gather(Survivors))
         /\ \A x \in ToSet(Gather(Survivors)) : \E i \in DOMAIN m.mine : x \in ToSet(MineLines(i))
         /\ \A p \in Survivors : LineAt(p) \in ToSet(Gather(Survivors))
<1>0. CopyInv /\ RunInv /\ RoundsAreFresh /\ ~m.cleaned /\ Active /\ LateIsNowhereElse
  BY DEF OrderInv, FramedInv, DoubleInv, RunInv, Rewriting, Active
<1>1. Survivors \in SUBSET Places(DOMAIN m.mine)
  BY <1>0, SurvivorsHold
<1>2. \A p \in Places(DOMAIN m.mine) :
        /\ p[1] \in DOMAIN m.mine /\ p[2] \in DOMAIN MineLines(p[1]) /\ p[1] \in Nat /\ p[2] \in Nat
        /\ LineAt(p) = MineLines(p[1])[p[2]] /\ p = <<p[1], p[2]>>
  BY <1>0, PlacesHold DEF CopyInv
<1>3. \A n \in DOMAIN m.mine : \A i \in DOMAIN MineLines(n) : <<n, i>> \in Places(DOMAIN m.mine)
  BY <1>0, PlacesHold DEF CopyInv
<1>4. \A i \in DOMAIN m.mine : /\ m.mine[i].name \in Nat /\ m.mine[i].name <= parks
                               /\ MineLines(i) = File(m.mine[i].name)
  BY <1>0, FilesHold, NamesAreSmall
<1>5. ASSUME NEW p \in Survivors, NEW q \in Survivors, p[1] < q[1],
             NEW h \in Nat, h < m.mine[q[1]].name
      PROVE  LineAt(q) \notin ToSet(File(h))
  <2>0. /\ p[1] \in DOMAIN m.mine /\ q[1] \in DOMAIN m.mine
        /\ q[2] \in DOMAIN MineLines(q[1]) /\ LineAt(q) = MineLines(q[1])[q[2]] /\ q[1] \in Nat /\ q[2] \in Nat
    BY <1>1, <1>2, <1>5
  <2>1. LineAt(q) \in ToSet(MineLines(q[1]))
    BY <2>0 DEF ToSet
  <2>2. CASE m.run # "merge"
    <3>1. p[1] \in Own
      BY <1>0, <2>0, <2>2 DEF CopyInv, OnlyMergesAdopt
    <3>2. m.mine[p[1]].name < m.mine[q[1]].name
      BY <1>0, <1>5, <2>0 DEF RunInv
    <3>3. ToSet(File(m.mine[q[1]].name)) \cap ToSet(File(h)) = {}
      BY <1>0, <1>4, <1>5, <2>0, <3>1, <3>2 DEF RoundsAreFresh
    <3> QED BY <1>4, <2>0, <2>1, <3>3
  <2>3. CASE m.run = "merge"
    <3>1. SUFFICES ASSUME LineAt(q) \in ToSet(File(h))  PROVE FALSE
      OBVIOUS
    <3>2. h \in Names
      <4>1. h < parks + 1
        BY <1>4, <1>5, <2>0, <1>0, NamesAreSmall
      <4>2. File(h) # <<>>
        BY <3>1, FilesHold, <1>0
      <4> QED BY <4>1, <4>2, FilesHold, NamesAreSmall, <1>0
    <3>3. PICK j \in DOMAIN m.mine : m.mine[j].name = h
      BY <1>0, <2>3, <3>2 DEF RunInv, Mine
    <3>4. j < q[1] /\ j # q[1] /\ j \in Nat
      <4>1. j \in Nat
        BY <1>0, MaintainerFields DEF CopyInv
      <4>2. ~(q[1] < j)
        BY <1>0, <1>4, <1>5, <2>0, <3>3 DEF RunInv
      <4>3. j # q[1]
        BY <1>4, <1>5, <2>0, <3>3
      <4> QED BY <4>1, <4>2, <4>3, <2>0
    <3>5. PICK k \in DOMAIN MineLines(j) : LineAt(q) = MineLines(j)[k]
      BY <1>4, <3>1, <3>3 DEF ToSet
    <3>6. <<j, k>> \in Places(DOMAIN m.mine) /\ LineAt(<<j, k>>) = LineAt(q) /\ k \in Nat
      BY <1>2, <1>3, <3>5
    <3>7. LineAt(q) \in ToSet(MineLines(j))
      BY <3>5 DEF ToSet
    <3>8. q[2] <= m.mine[q[1]].indexed
      <4>1. m.mine[q[1]].indexed \in Nat
        BY <1>0, <2>0, MaintainerFields DEF CopyInv
      <4>2. ~(q[2] > m.mine[q[1]].indexed)
        BY <1>0, <2>0, <3>4, <3>7 DEF LateIsNowhereElse
      <4> QED BY <2>0, <4>1, <4>2
    <3>9. k <= m.mine[j].indexed
      <4>1. m.mine[j].indexed \in Nat
        BY <1>0, MaintainerFields DEF CopyInv
      <4>2. ~(k > m.mine[j].indexed)
        BY <1>0, <2>0, <2>1, <3>4, <3>5 DEF LateIsNowhereElse
      <4> QED BY <3>6, <4>1, <4>2
    <3>10. q \in Indexed /\ <<j, k>> \in Indexed
      BY <1>1, <1>5, <3>6, <3>8, <3>9 DEF Indexed
    <3>11. ~EarlierFile(q)
      BY <1>5, <2>3, <3>10 DEF Survivors, Keep
    <3> QED BY <3>4, <3>6, <3>10, <3>11 DEF EarlierFile
  <2> QED BY <2>2, <2>3
<1>6. /\ Sorted(r, Gather(Survivors))
      /\ \A x \in ToSet(Gather(Survivors)) : \E p \in Survivors : x = LineAt(p)
      /\ \A p \in Survivors : LineAt(p) \in ToSet(Gather(Survivors))
  BY <1>0, <1>1, <1>5, GatheredInOrder
<1>7. \A p \in Survivors : LineAt(p) \in ToSet(MineLines(p[1])) /\ p[1] \in DOMAIN m.mine
  BY <1>1, <1>2 DEF ToSet
<1> QED BY <1>6, <1>7

\* compactStoreByKey, retainWindow and mergeCompactionCopies write a result in order.
LEMMA WriteSurvivorsKeepsOrder ==
  ASSUME OrderInv, DoubleInv', RunInv', WriteSurvivors
  PROVE  OrderGoesOn
<1>0. CopyInv /\ CopyInv' /\ FramedInv /\ RunInv /\ History
  BY DEF OrderInv, FramedInv, DoubleInv
<1>1. /\ m.pc = "survivors" /\ m'.pc = "publish" /\ m'.temp = Gather(Survivors)
      /\ m'.mine = m.mine /\ UNCHANGED <<policy, key, done, before, store, app, trouble>>
  BY <1>0, WriteSurvivorsChanges
<1>2. UNCHANGED <<live, copies, parks>>
  BY <1>1 DEF store
<1>3. ~m.cleaned /\ ~m'.cleaned /\ Rewriting
  BY <1>0, <1>1 DEF RunInv, Rewriting
<1>4. RowsStay
  BY <1>0, <1>1, <1>2, <1>3, SameFilesAreSameRows
<1>5. History' /\ LateBeganFirst'
  BY <1>0, <1>4, RowsStayOrdered DEF FramedInv
<1>6. RoundsAreFresh'
  <2>1. \A i \in Own' : \E j \in Own : m.mine[j].name = m'.mine[i].name
    BY <1>1 DEF Own
  <2> QED BY <2>1, <1>0, <1>3, <1>4, RowsStayFresh DEF FramedInv
<1>7. ASSUME NEW r, Ranking(r), Orders(r)
      PROVE  /\ Sorted(r, Gather(Survivors))
             /\ \A x \in ToSet(Gather(Survivors)) : \E i \in DOMAIN m.mine : x \in ToSet(MineLines(i))
  BY <1>1, <1>3, <1>7, SurvivorsInOrder
<1>8. \A x \in ToSet(Gather(Survivors)) : \E i \in DOMAIN m.mine : x \in ToSet(MineLines(i))
  BY <1>7 DEF OrderInv
<1>9. ResultIsOfCopies'
  <2>1. \A i \in DOMAIN m.mine : MineLines(i)' = MineLines(i)
    BY <1>1, <1>2 DEF MineLines, CopyLines, Copy, Names
  <2>2. \A i \in DOMAIN m.mine : ToSet(MineLines(i))' = ToSet(MineLines(i))
    BY <2>1 DEF ToSet
  <2> QED BY <1>1, <1>8, <2>2 DEF ResultIsOfCopies
<1>10. ASSUME NEW r, Ranking(r), Orders(r)  PROVE Orders(r)'
  <2>1. Sorted(r, m'.temp)
    BY <1>1, <1>7, <1>10
  <2> QED BY <2>1, <1>0, <1>4, <1>10, RowsStayOrdered DEF FramedInv
<1>11. FramedInv'
  BY <1>5, <1>6, <1>9 DEF FramedInv
<1> QED BY <1>10, <1>11, SameOrder

-----------------------------------------------------------------------------
(* A result put in place *)

\* A result becomes the last file of the row.
LEMMA ResultJoins ==
  ASSUME CopyInv, UNCHANGED <<copies, parks>>, live' \in Seq(Nat), ~m.cleaned, ~m'.cleaned
  PROVE  \A n \in Nat :
           /\ File(n)' = IF n = parks + 1 THEN live' ELSE File(n)
           /\ Row(n) = ToSet(File(n))
           /\ Row(n)' = IF n = parks + 1 THEN ToSet(live') ELSE Row(n)
           /\ ToSet(File(n))' = Row(n)'
<1>1. \A n \in Nat : File(n)' = IF n = parks + 1 THEN live' ELSE File(n)
  <2>1. Names' = Names /\ \A n : CopyLines(n)' = CopyLines(n)
    BY DEF Names, CopyLines, Copy
  <2>2. live' # None
    BY NoneIsNoFile
  <2> QED BY <2>1, <2>2 DEF File
<1>2. \A n \in Nat : Row(n) = ToSet(File(n))
  BY FilesHold
<1>3. ASSUME NEW n \in Nat
      PROVE  /\ Row(n)' = IF n = parks + 1 THEN ToSet(live') ELSE Row(n)
             /\ ToSet(File(n))' = Row(n)'
  <2>1. Row(n)' = ToSet(File(n))'
    BY DEF Row, Stays
  <2>2. CASE n = parks + 1
    <3>1. File(n)' = live'
      BY <1>1, <2>2
    <3> QED BY <2>1, <2>2, <3>1 DEF ToSet
  <2>3. CASE n # parks + 1
    <3>1. File(n)' = File(n)
      BY <1>1, <2>3
    <3> QED BY <1>2, <2>1, <2>3, <3>1 DEF ToSet
  <2> QED BY <2>1, <2>2, <2>3
<1> QED BY <1>1, <1>2, <1>3

\* Its lines are all in copies, before the live file.
LEMMA PlacedKeepsOrder ==
  ASSUME OrderInv, DoubleInv', RunInv', NoStragglers, UNCHANGED <<key, done, before, copies, parks>>,
         live' \in Seq(Nat), app' = Follow(Gone), ~m.cleaned, ~m'.cleaned, ~Rewriting', m'.pc # "publish",
         \A x \in ToSet(live') : \E i \in DOMAIN m.mine : x \in ToSet(MineLines(i)),
         \A r : Ranking(r) /\ Orders(r) => Sorted(r, live')
  PROVE  OrderGoesOn
<1>0. CopyInv /\ CopyInv' /\ RunInv /\ History /\ LateBeganFirst /\ Types
  BY DEF OrderInv, FramedInv, DoubleInv, CopyInv
<1>1. parks \in Nat /\ \A i \in DOMAIN m.mine : m.mine[i].name \in Nat /\ m.mine[i].name < parks + 1
                                                 /\ MineLines(i) = File(m.mine[i].name)
  <2>1. parks \in Nat /\ \A n \in Names : n \in Nat /\ n <= parks
    BY <1>0, NamesAreSmall
  <2>2. \A i \in DOMAIN m.mine : m.mine[i].name \in Names /\ MineLines(i) = File(m.mine[i].name)
    BY <1>0, FilesHold
  <2> QED BY <2>1, <2>2
<1>2. \A n \in Nat : File(n)' = IF n = parks + 1 THEN live' ELSE File(n)
  BY <1>0, ResultJoins
<1>3. \A n \in Nat : Row(n) = ToSet(File(n))
  BY <1>0, ResultJoins
<1>4. ASSUME NEW n \in Nat
      PROVE  /\ Row(n)' = IF n = parks + 1 THEN ToSet(live') ELSE Row(n)
             /\ ToSet(File(n))' = Row(n)'
  BY <1>0, ResultJoins
<1>5. \A x \in ToSet(live') : \E n \in Nat : n < parks + 1 /\ x \in Row(n)
  BY <1>1, <1>3
<1>6. \A a \in Appenders : ~IsOpen(a)'
  BY <1>0, NobodyStraggles
<1>7. \A n \in Nat : ToSet(File(n))' \subseteq ToSet(File(n)) \/ ToSet(File(n))' \subseteq done
  BY <1>0, <1>3, <1>4, <1>5 DEF History
<1>8. History' /\ LateBeganFirst'
  <2>1. \A a \in Appenders : Follow(Gone)[a].line = app[a].line /\ (Follow(Gone)[a].at # None <=> app[a].at # None)
    BY <1>0, FollowKeeps DEF Gone
  <2>2. \A a \in Appenders : app[a] \in [at : Int \cup {None}, line : Nat]
    BY <1>0 DEF Types
  <2>3. \A a \in Appenders : Follow(Gone)[a].at = Gone \/ Follow(Gone)[a].at = app[a].at
    BY <2>2 DEF Follow
  <2>4. Gone \in Int /\ Gone <= parks
    BY <1>1 DEF Gone
  <2>5. \A a \in Appenders : app'[a].at # None =>
          app[a].at # None /\ app'[a].line = app[a].line /\ app'[a].at \in Int /\ app'[a].at <= parks'
    BY <1>0, <2>1, <2>3, <2>4 DEF History
  <2> QED BY <1>0, <1>6, <1>7, <2>5, SameHistory
<1>9. RoundsAreFresh' /\ ResultIsOfCopies'
  BY DEF RoundsAreFresh, ResultIsOfCopies
<1>10. ASSUME NEW r, Ranking(r), Orders(r)  PROVE Orders(r)'
  <2>1. Ranks(r)'
    BY <1>10 DEF Orders, Ranks, Lines
  <2>2. \A n \in Nat : Sorted(r, File(n))'
    <3>1. ASSUME NEW n \in Nat  PROVE Sorted(r, File(n))'
      <4>1. CASE n = parks + 1
        BY <1>2, <1>10, <4>1 DEF Sorted
      <4>2. CASE n # parks + 1
        BY <1>2, <1>10, <4>2 DEF Orders, Sorted
      <4> QED BY <4>1, <4>2
    <3> QED BY <3>1
  <2>3. NewComesLast(r)'
    <3>1. SUFFICES ASSUME NEW n \in Nat, NEW y \in Row(n)', \A h \in Nat : h < n => y \notin Row(h)',
                          NEW h \in Nat, NEW x \in Row(h)', h < n, key[x] = key[y]
                   PROVE  r[x] <= r[y]
      BY DEF NewComesLast
    <3>2. n # parks + 1
      BY <1>1, <1>4, <1>5, <3>1
    <3>3. n < parks + 1
      <4>1. ~(n > parks + 1)
        BY <1>0, <1>4, <3>1, <3>2, FilesHold
      <4> QED BY <1>1, <3>2, <4>1
    <3>4. y \in Row(n) /\ x \in Row(h) /\ \A g \in Nat : g < n => y \notin Row(g)
      BY <1>1, <1>4, <3>1, <3>3
    <3> QED BY <1>10, <3>1, <3>4 DEF Orders, NewComesLast
  <2>4. LateComesFirst(r)'
    BY <1>6 DEF LateComesFirst
  <2> QED BY <2>1, <2>2, <2>3, <2>4 DEF Orders
<1>11. FramedInv'
  BY <1>8, <1>9 DEF FramedInv
<1> QED BY <1>10, <1>11, SameOrder

LEMMA PublishKeepsOrder ==
  ASSUME OrderInv, DoubleInv', RunInv', Publish
  PROVE  OrderGoesOn
<1>0. CopyInv /\ m \in Maintainer /\ RunInv /\ ResultIsOfCopies
  BY DEF OrderInv, FramedInv, DoubleInv, CopyInv, Types
<1>1. m.pc = "publish" /\ NoStragglers /\ Rewriting /\ ~m.cleaned /\ m.temp \in Seq(Nat)
  BY <1>0 DEF Publish, RunInv, Rewriting, Maintainer
<1>2. UNCHANGED <<key, done, before, copies, parks>>
  BY DEF Publish, MUnchanged
<1>4. CASE CanPublish /\ live' = m.temp /\ app' = Follow(Gone)
           /\ m' = [m EXCEPT !.pc = "archive", !.temp = <<>>, !.published = TRUE, !.restored = TRUE]
  <2>1. m'.pc = "archive" /\ m'.cleaned = m.cleaned
    BY <1>0, <1>4 DEF Maintainer
  <2>2. \A x \in ToSet(live') : \E i \in DOMAIN m.mine : x \in ToSet(MineLines(i))
    BY <1>0, <1>1, <1>4 DEF ResultIsOfCopies
  <2>3. \A r : Ranking(r) /\ Orders(r) => Sorted(r, live')
    BY <1>1, <1>4 DEF Orders
  <2>4. ~Rewriting'
    BY <2>1 DEF Rewriting
  <2> QED BY <1>1, <1>2, <1>4, <2>1, <2>2, <2>3, <2>4, PlacedKeepsOrder
<1>5. CASE ~CanPublish /\ m' = NextRound([m EXCEPT !.temp = <<>>]) /\ UNCHANGED <<live, app>>
  <2>1. PICK mm \in Maintainer : mm = [m EXCEPT !.temp = <<>>]
    BY <1>0, EmptySeq DEF Maintainer
  <2>2. mm.mine = m.mine /\ mm.cleaned = m.cleaned
    BY <1>0, <2>1 DEF Maintainer
  <2>3. m'.mine = mm.mine /\ m'.cleaned = mm.cleaned /\ m'.pc \in {"park", "restore"}
    BY <1>5, <2>1, NextRoundKeeps, NextRoundRemembers
  <2> QED BY <1>1, <1>2, <1>5, <2>2, <2>3, MovingOnKeepsOrder
<1> QED BY <1>4, <1>5 DEF Publish

LEMMA RestoreMoveKeepsOrder ==
  ASSUME OrderInv, DoubleInv', RunInv', RestoreMove
  PROVE  OrderGoesOn
<1>0. CopyInv /\ m \in Maintainer /\ RunInv
  BY DEF OrderInv, FramedInv, DoubleInv, CopyInv, Types
<1>1. m.pc = "restore_move" /\ NoStragglers /\ Rewriting /\ ~m.cleaned
  BY <1>0 DEF RestoreMove, RunInv, Rewriting
<1>2. UNCHANGED <<key, done, before, copies, parks>>
  BY DEF RestoreMove, MUnchanged
<1>3. m'.pc \in {"cleanup", "archive"} /\ m'.cleaned = m.cleaned
  BY <1>0 DEF RestoreMove, AfterRestore, Maintainer
<1>4. ~Rewriting' /\ m'.pc # "publish" /\ ~m'.cleaned
  BY <1>1, <1>3 DEF Rewriting
<1>5. CASE Own = {}
  <2>1. UNCHANGED <<live, app>>
    BY <1>5 DEF RestoreMove
  <2> QED BY <1>1, <1>2, <1>4, <2>1, MovingOnKeepsOrder
<1>6. CASE Own # {}
  <2>1. live' = Gather(Places(Own)) /\ app' = Follow(Gone)
    BY <1>6 DEF RestoreMove
  <2>2. live' \in Seq(Nat)
    BY <1>0, <2>1, OwnHold
  <2>3. PICK r : Ranking(r) /\ Orders(r)
    BY DEF OrderInv
  <2>4. \A q : Ranking(q) /\ Orders(q) => Sorted(q, live')
    BY <1>1, <2>1, OwnInOrder
  <2>5. \A x \in ToSet(live') : \E i \in DOMAIN m.mine : x \in ToSet(MineLines(i))
    BY <1>1, <2>1, <2>3, OwnInOrder, OwnIsMine
  <2> QED BY <1>1, <1>2, <1>4, <2>1, <2>2, <2>4, <2>5, PlacedKeepsOrder
<1> QED BY <1>5, <1>6

-----------------------------------------------------------------------------
(* Files that go *)

\* Files and rows that go take nothing from the order of the others.
LEMMA DroppedKeepsOrder ==
  ASSUME OrderInv, DoubleInv', RunInv', UNCHANGED <<key, done, before, parks, app>>, Names' \subseteq Names,
         ~Rewriting', m'.pc # "publish",
         \A n \in Nat : /\ File(n)' = File(n) \/ File(n)' = <<>>
                        /\ Row(n)' = Row(n) \/ Row(n)' = {},
         \A r : Ranking(r) /\ Orders(r) => NewComesLast(r)'
  PROVE  OrderGoesOn
<1>0. CopyInv /\ CopyInv' /\ History /\ LateBeganFirst
  BY DEF OrderInv, FramedInv, DoubleInv
<1>1. \A a \in Appenders : IsOpen(a)' => IsOpen(a) /\ OpenAt(a)' = OpenAt(a)
  BY DEF IsOpen, OpenAt
<1>2. \A n \in Nat : ToSet(File(n))' \subseteq ToSet(File(n))
  <2>1. ASSUME NEW n \in Nat  PROVE ToSet(File(n))' \subseteq ToSet(File(n))
    BY DEF ToSet
  <2> QED BY <2>1
<1>3. History' /\ LateBeganFirst'
  <2>1. \A a \in Appenders : app'[a].at # None =>
          app[a].at # None /\ app'[a].line = app[a].line /\ app'[a].at \in Int /\ app'[a].at <= parks'
    BY <1>0 DEF History
  <2> QED BY <1>0, <1>1, <1>2, <2>1, SameHistory
<1>4. RoundsAreFresh' /\ ResultIsOfCopies'
  BY DEF RoundsAreFresh, ResultIsOfCopies
<1>5. ASSUME NEW r, Ranking(r), Orders(r)  PROVE Orders(r)'
  <2>1. Ranks(r)'
    BY <1>5 DEF Orders, Ranks, Lines
  <2>2. \A n \in Nat : Sorted(r, File(n))'
    <3>1. ASSUME NEW n \in Nat  PROVE Sorted(r, File(n))'
      <4>1. CASE File(n)' = <<>>
        BY <4>1 DEF Sorted
      <4>2. CASE File(n)' = File(n)
        BY <1>5, <4>2 DEF Orders, Sorted
      <4> QED BY <4>1, <4>2
    <3> QED BY <3>1
  <2>3. LateComesFirst(r)'
    <3>1. SUFFICES ASSUME NEW a \in Appenders, IsOpen(a)', NEW n \in Nat, NEW y \in Row(n)', n > OpenAt(a)'
                   PROVE  /\ \A h \in Nat : h <= OpenAt(a)' => y \notin Row(h)'
                          /\ key[y] = key[app[a].line] => \A x \in before[app[a].line] : r[x] < r[y]
      BY DEF LateComesFirst
    <3>2. IsOpen(a) /\ OpenAt(a)' = OpenAt(a) /\ y \in Row(n) /\ \A h \in Nat : Row(h)' \subseteq Row(h)
      BY <1>1, <3>1
    <3> QED BY <1>5, <3>1, <3>2 DEF Orders, LateComesFirst
  <2> QED BY <1>5, <2>1, <2>2, <2>3 DEF Orders
<1>6. FramedInv'
  BY <1>3, <1>4 DEF FramedInv
<1> QED BY <1>5, <1>6, SameOrder

LEMMA RotateKeepsOrder ==
  ASSUME OrderInv, DoubleInv', RunInv', Rotate
  PROVE  OrderGoesOn
<1>0. CopyInv
  BY DEF OrderInv, FramedInv, DoubleInv
<1>1. /\ UNCHANGED <<key, done, before, parks, app, copies, m>> /\ m = Idle /\ live' = None
      /\ \A a \in Appenders : app[a].at # Live
  BY DEF Rotate, MUnchanged
<1>2. Names' = Names /\ \A n : CopyLines(n)' = CopyLines(n)
  BY <1>1 DEF Names, CopyLines, Copy
<1>3. ~Rewriting' /\ m'.pc # "publish" /\ ~m.cleaned /\ ~m'.cleaned
  BY <1>1 DEF Rewriting, Idle
<1>4. \A n \in Nat : File(n)' = IF n = parks + 1 THEN <<>> ELSE File(n)
  BY <1>1, <1>2 DEF File
<1>5. ASSUME NEW n \in Nat  PROVE Row(n)' = IF n = parks + 1 THEN {} ELSE Row(n)
  <2>1. Row(n)' = ToSet(File(n))' /\ Row(n) = ToSet(File(n))
    BY <1>3 DEF Row, Stays
  <2>2. CASE n = parks + 1
    <3>1. File(n)' = <<>>
      BY <1>4, <2>2
    <3> QED BY <2>1, <2>2, <3>1 DEF ToSet
  <2>3. CASE n # parks + 1
    <3>1. File(n)' = File(n)
      BY <1>4, <2>3
    <3> QED BY <2>1, <2>3, <3>1 DEF ToSet
  <2> QED BY <2>2, <2>3
<1>6. ASSUME NEW r, Ranking(r), Orders(r)  PROVE NewComesLast(r)'
  <2>1. SUFFICES ASSUME NEW n \in Nat, NEW y \in Row(n)', \A h \in Nat : h < n => y \notin Row(h)',
                        NEW h \in Nat, NEW x \in Row(h)', h < n, key[x] = key[y]
                 PROVE  r[x] <= r[y]
    BY <1>1 DEF NewComesLast
  <2>2. n # parks + 1 /\ y \in Row(n) /\ x \in Row(h)
    BY <1>5, <2>1
  <2>3. ~(n > parks + 1) /\ parks \in Nat
    BY <1>0, <2>1, <2>2, FilesHold, NamesAreSmall
  <2>4. \A g \in Nat : g < n => y \notin Row(g)
    BY <1>5, <2>1, <2>2, <2>3
  <2> QED BY <1>6, <2>1, <2>2, <2>4 DEF Orders, NewComesLast
<1> QED BY <1>1, <1>2, <1>3, <1>4, <1>5, <1>6, DroppedKeepsOrder

\* What a cleanup removes are the last copies of the row.
LEMMA RemovedAreLast ==
  ASSUME OrderInv, m.pc = "cleanup", ~m.cleaned, NEW r, Orders(r),
         NEW n \in Nat, n \notin Removables, NEW y \in Row(n),
         \A h \in Nat : h < n => h \in Removables \/ y \notin Row(h),
         NEW h \in Nat, h \notin Removables, NEW x \in Row(h), h < n, key[x] = key[y]
  PROVE  r[x] <= r[y]
<1>0. CopyInv /\ RunInv /\ Active
  BY DEF OrderInv, FramedInv, DoubleInv, Active
<1>1. /\ parks \in Nat /\ n <= parks + 1 /\ h \in Names
  <2>1. parks \in Nat /\ parks + 1 \in Nat
    BY <1>0, NamesAreSmall
  <2>2. ~(n > parks + 1)
    BY <1>0, FilesHold
  <2>3. h # parks + 1 /\ h < parks + 1
    BY <2>1, <2>2
  <2>4. File(h) # <<>>
    BY <1>0, FilesHold
  <2>5. h \in Names
    BY <1>0, <2>3, <2>4, FilesHold
  <2> QED BY <2>1, <2>2, <2>5
<1>2. \A g \in Removables : h > g => h \in Removables
  <2>1. CASE m.run = "merge" /\ m.published
    <3>1. Removables = Mine
      BY <2>1 DEF Removables, Removable, Mine
    <3> QED BY <1>0, <1>1, <2>1, <3>1 DEF RunInv, Mine
  <2>2. CASE ~(m.run = "merge" /\ m.published)
    <3>1. \A i \in DOMAIN m.mine : Removable(m.mine[i]) <=> i \in Own
      BY <1>0, <2>2 DEF Removable, Own, CopyInv, OnlyMergesAdopt
    <3>2. Removables = {m.mine[i].name : i \in Own}
      BY <3>1 DEF Removables, Own
    <3> QED BY <1>0, <1>1, <3>2 DEF RunInv
  <2> QED BY <2>1, <2>2
<1>5. CASE \A g \in Nat : g < n => y \notin Row(g)
  BY <1>5 DEF Orders, NewComesLast
<1>6. CASE \E g \in Nat : g < n /\ y \in Row(g)
  <2>1. PICK g \in Nat : y \in Row(g) /\ g < n /\ \A e \in Nat : y \in Row(e) => g <= e
    <3>1. {g \in Nat : y \in Row(g)} # {} /\ {g \in Nat : y \in Row(g)} \in SUBSET Nat
      BY <1>6
    <3>2. PICK g \in {g \in Nat : y \in Row(g)} : \A e \in {e \in Nat : y \in Row(e)} : g <= e
      BY <3>1, LeastNat
    <3>3. PICK e \in Nat : e < n /\ y \in Row(e)
      BY <1>6
    <3>4. g <= e /\ g \in Nat
      BY <3>2, <3>3
    <3> QED BY <3>2, <3>3, <3>4
  <2>2. g \in Removables
    BY <2>1
  <2>3. h < g
    BY <1>2, <2>1, <2>2
  <2>4. \A e \in Nat : e < g => y \notin Row(e)
    BY <2>1
  <2> QED BY <2>1, <2>3, <2>4 DEF Orders, NewComesLast
<1> QED BY <1>5, <1>6

\* The removal of one copy empties it; what is left to remove counts as gone with it.
LEMMA RemovalDropsRows ==
  ASSUME CopyInv, NEW c \in DOMAIN m.mine, Removes(c), UNCHANGED <<parks, live>>
  PROVE  /\ m'.pc = "cleanup" /\ m'.cleaned /\ m'.published = m.published /\ m.pc = "cleanup"
         /\ Names' = Names \ {m.mine[c].name} /\ Removables' = Removables \ {m.mine[c].name}
         /\ \A n \in Nat : /\ File(n)' = IF n = m.mine[c].name THEN <<>> ELSE File(n)
                           /\ Row(n)' = IF n \in Removables THEN {} ELSE Row(n)
<1> DEFINE name == m.mine[c].name
<1>1. /\ Names' = Names \ {name} /\ m' \in Maintainer /\ m'.pc = "cleanup" /\ name \in Names
      /\ \A k : CopyLines(k)' = IF k = name THEN <<>> ELSE CopyLines(k)
      /\ \A i \in DOMAIN m'.mine : m'.mine[i] = m.mine[Skip(c, i)] /\ Skip(c, i) \in DOMAIN m.mine \ {c}
      /\ \A k \in DOMAIN m.mine \ {c} : \E i \in DOMAIN m'.mine : Skip(c, i) = k
  BY RemovalLeaves
<1>2. m'.cleaned /\ m'.published = m.published /\ m.pc = "cleanup"
  BY DEF Removes, CopyInv, Types, Maintainer
<1>3. parks \in Nat /\ name # parks + 1 /\ name \in Nat
  BY <1>1, NamesAreSmall
<1>4. \A n \in Nat : File(n)' = IF n = name THEN <<>> ELSE File(n)
  BY <1>1, <1>3 DEF File
<1>5. Removables' = Removables \ {name} /\ name \in Removables
  <2>1. \A i, j \in DOMAIN m.mine : m.mine[i].name = m.mine[j].name => i = j
    BY MineIsNamed
  <2>2. \A k : Removable(k)' <=> Removable(k)
    BY <1>2 DEF Removable
  <2>3. name \in Removables
    BY DEF Removables, Removes, NextToRemove
  <2>4. ASSUME NEW n \in Removables'  PROVE n \in Removables \ {name}
    <3>1. PICK i \in DOMAIN m'.mine : Removable(m'.mine[i]) /\ n = m'.mine[i].name
      BY <2>2, <2>4 DEF Removables, Removable
    <3>2. m'.mine[i] = m.mine[Skip(c, i)] /\ Skip(c, i) \in DOMAIN m.mine \ {c}
      BY <1>1, <3>1
    <3> QED BY <2>1, <3>1, <3>2 DEF Removables
  <2>5. ASSUME NEW n \in Removables \ {name}  PROVE n \in Removables'
    <3>1. PICK k \in DOMAIN m.mine : Removable(m.mine[k]) /\ n = m.mine[k].name
      BY <2>5 DEF Removables
    <3>2. PICK i \in DOMAIN m'.mine : Skip(c, i) = k
      BY <1>1, <2>5, <3>1
    <3>3. m'.mine[i] = m.mine[k]
      BY <1>1, <3>2
    <3>4. ~m'.mine[i].adopted \/ m'.published
      BY <1>2, <3>1, <3>3 DEF Removable
    <3> QED BY <3>1, <3>3, <3>4 DEF Removables, Removable
  <2> QED BY <2>3, <2>4, <2>5
<1>6. ASSUME NEW n \in Nat  PROVE Row(n)' = IF n \in Removables THEN {} ELSE Row(n)
  <2>1. CASE n \in Removables
    <3>1. CASE n = name
      <4>1. File(n)' = <<>>
        BY <1>4, <3>1
      <4> QED BY <2>1, <4>1 DEF Row, ToSet
    <3>2. CASE n # name
      BY <1>2, <1>5, <2>1, <3>2 DEF Row, Stays
    <3> QED BY <3>1, <3>2
  <2>2. CASE n \notin Removables
    <3>1. Stays(n) /\ Stays(n)' /\ n # name
      BY <1>5, <2>2 DEF Stays
    <3>2. File(n)' = File(n)
      BY <1>4, <3>1
    <3> QED BY <2>2, <3>1, <3>2 DEF Row, ToSet
  <2> QED BY <2>1, <2>2
<1> QED BY <1>1, <1>2, <1>4, <1>5, <1>6

LEMMA CleanupKeepsOrder ==
  ASSUME OrderInv, DoubleInv', RunInv', Cleanup
  PROVE  OrderGoesOn
<1>0. CopyInv /\ RunInv
  BY DEF OrderInv, FramedInv, DoubleInv
<1>1. UNCHANGED <<policy, key, done, before, live, parks, archived, app, trouble>>
  BY <1>0, CleanupChanges
<1>2. CASE CleanedUp
  <2>1. RowsStay
    BY <1>1, <1>2, SameFilesAreSameRows DEF CleanedUp, OrderInv, FramedInv, DoubleInv
  <2>2. ~Rewriting' /\ m'.pc # "publish"
    BY <1>2 DEF CleanedUp, Idle, Rewriting
  <2> QED BY <2>1, <2>2, SameRowsKeepOrder
<1>3. ASSUME NEW c \in DOMAIN m.mine, Removes(c)  PROVE OrderGoesOn
  <2>1. /\ m'.pc = "cleanup" /\ m'.cleaned /\ m.pc = "cleanup" /\ Names' \subseteq Names
        /\ \A n \in Nat : /\ File(n)' = File(n) \/ File(n)' = <<>>
                          /\ Row(n)' = IF n \in Removables THEN {} ELSE Row(n)
    BY <1>0, <1>1, <1>3, RemovalDropsRows
  <2>2. ~Rewriting' /\ m'.pc # "publish"
    BY <2>1 DEF Rewriting
  <2>3. ASSUME NEW r, Ranking(r), Orders(r)  PROVE NewComesLast(r)'
    <3>1. SUFFICES ASSUME NEW n \in Nat, NEW y \in Row(n)', \A h \in Nat : h < n => y \notin Row(h)',
                          NEW h \in Nat, NEW x \in Row(h)', h < n, key[x] = key[y]
                   PROVE  r[x] <= r[y]
      BY <1>1 DEF NewComesLast
    <3>2. /\ n \notin Removables /\ h \notin Removables /\ y \in Row(n) /\ x \in Row(h)
          /\ \A g \in Nat : g < n => g \in Removables \/ y \notin Row(g)
      BY <2>1, <3>1
    <3>3. CASE ~m.cleaned
      BY <2>1, <2>3, <3>1, <3>2, <3>3, RemovedAreLast
    <3>4. CASE m.cleaned
      <4>1. \A g \in Nat : g \in Removables => Row(g) = {}
        BY <3>4 DEF Row, Stays
      <4>2. \A g \in Nat : g < n => y \notin Row(g)
        BY <3>2, <4>1
      <4> QED BY <2>3, <3>1, <3>2, <4>2 DEF Orders, NewComesLast
    <3> QED BY <3>3, <3>4
  <2> QED BY <1>1, <2>1, <2>2, <2>3, DroppedKeepsOrder
<1> QED BY <1>0, <1>2, <1>3, CleanupChanges

-----------------------------------------------------------------------------
(* Appends *)

\* Another rank for one line.
LEMMA Reranked ==
  ASSUME NEW r, NEW B \in Nat, r \in [Nat -> 0..B], NEW x \in Nat, NEW v \in 0..(B + 1)
  PROVE  /\ Ranking([r EXCEPT ![x] = v]) /\ [r EXCEPT ![x] = v][x] = v
         /\ \A y \in Nat \ {x} : [r EXCEPT ![x] = v][y] = r[y]
<1>1. \A y \in Nat : r[y] \in 0..(B + 1)
  BY DEF Ranking
<1>2. [r EXCEPT ![x] = v] \in [Nat -> 0..(B + 1)]
  BY <1>1
<1> QED BY <1>2 DEF Ranking

\* A line that is about to be written ranks last.
LEMMA OpenKeepsOrder ==
  ASSUME OrderInv, DoubleInv', RunInv', NEW a \in Appenders, NEW k \in Keys, Open(a, k)
  PROVE  OrderGoesOn
<1>0. CopyInv /\ CopyInv' /\ RunInv /\ History /\ LateBeganFirst /\ Types /\ Fits(m.temp)
  BY DEF OrderInv, FramedInv, DoubleInv, CopyInv
<1>1. /\ key' = Append(key, k) /\ before' = Append(before, {x \in done : key[x] = k})
      /\ live' = (IF live = None THEN <<>> ELSE live)
      /\ app' = [app EXCEPT ![a] = [at |-> Live, line |-> Len(key) + 1]]
      /\ UNCHANGED <<copies, parks, m, done>>
  BY DEF Open
<1> DEFINE x0 == Len(key) + 1
<1>2. /\ Len(key) \in Nat /\ x0 \in Nat /\ key \in Seq(Keys) /\ Len(key') = x0
      /\ Lines = 1..Len(key) /\ Lines' = Lines \cup {x0} /\ x0 \notin Lines /\ Lines \subseteq Nat
      /\ key'[x0] = k /\ \A y \in Lines : key'[y] = key[y]
  <2>1. key \in Seq(Keys)
    BY <1>0 DEF Types
  <2>2. Len(key) \in Nat /\ Len(key') = x0 /\ key'[x0] = k /\ \A y \in 1..Len(key) : key'[y] = key[y]
    BY <2>1, <1>1, AppendProperties, LenProperties
  <2>3. 1..x0 = (1..Len(key)) \cup {x0} /\ x0 \notin 1..Len(key)
    BY <2>2
  <2> QED BY <2>1, <2>2, <2>3 DEF Lines
<1>3. done \subseteq Lines /\ before \in Seq(SUBSET Nat) /\ Len(before) = Len(key)
  BY <1>0 DEF History
<1>4. /\ before' \in Seq(SUBSET Nat) /\ Len(before') = x0
      /\ before'[x0] = {x \in done : key[x] = k} /\ \A y \in Lines : before'[y] = before[y]
  <2>1. {x \in done : key[x] = k} \in SUBSET Nat
    BY <1>2, <1>3
  <2> QED BY <1>1, <1>2, <1>3, <2>1, AppendProperties
<1>5. /\ Names' = Names /\ \A n \in Nat : File(n)' = File(n) /\ Row(n)' = Row(n)
  <2>1. Names' = Names /\ \A n : CopyLines(n)' = CopyLines(n)
    BY <1>1 DEF Names, CopyLines, Copy
  <2>2. \A n \in Nat : File(n)' = File(n)
    <3>1. <<>> # None
      BY NoneIsNoFile, EmptySeq
    <3> QED BY <1>1, <2>1, <3>1 DEF File
  <2>3. \A n \in Nat : Row(n)' = Row(n)
    BY <1>1, <2>2 DEF Row, Stays, Removables, Removable
  <2> QED BY <2>1, <2>2, <2>3
<1>6. /\ app'[a] = [at |-> Live, line |-> x0] /\ \A b \in Appenders : b # a => app'[b] = app[b]
  BY <1>0, <1>1 DEF Types
<1>7. app'[a].at = Live /\ app'[a].line = x0
  BY <1>6
<1>8. /\ IsOpen(a)' /\ OpenAt(a)' = parks + 1
      /\ \A b \in Appenders : b # a => (IsOpen(b)' <=> IsOpen(b)) /\ OpenAt(b)' = OpenAt(b)
  BY <1>1, <1>5, <1>6, <1>7 DEF IsOpen, OpenAt
<1>9. \A b \in Appenders : IsOpen(b) => /\ app[b].line \in Lines /\ OpenAt(b) \in Nat /\ OpenAt(b) <= parks + 1
                                        /\ \A y \in before[app[b].line] : y \in done /\ key[y] = key[app[b].line]
  BY <1>0, OpenIsUnderWay DEF History
<1>10. \A n \in Nat : ToSet(File(n)) \subseteq Lines /\ Row(n) \subseteq Lines
  BY <1>0, <1>3, FilesHold DEF History
<1>11. parks + 1 \in Nat
  BY <1>0, NamesAreSmall
<1> HIDE DEF x0
<1>12. History'
  <2>1. \A x \in Lines' : \A y \in before'[x] : y \in done /\ key'[y] = key'[x]
    <3>1. ASSUME NEW x \in Lines, NEW y \in before'[x]  PROVE y \in done /\ key'[y] = key'[x]
      <4>1. y \in before[x] /\ y \in done /\ key[y] = key[x]
        BY <1>0, <1>4, <3>1 DEF History
      <4> QED BY <1>2, <1>3, <4>1
    <3>2. ASSUME NEW y \in before'[x0]  PROVE y \in done /\ key'[y] = key'[x0]
      BY <1>2, <1>3, <1>4, <3>2
    <3> QED BY <1>2, <3>1, <3>2
  <2>2. \A b \in Appenders : app'[b].at # None =>
           app'[b].line \in Lines' \ done /\ (app'[b].at \in Int /\ app'[b].at <= parks)
    <3>1. app'[a].line \in Lines' \ done /\ app'[a].at \in Int /\ app'[a].at <= parks
      BY <1>0, <1>2, <1>3, <1>7, NamesAreSmall DEF Live
    <3>2. \A b \in Appenders : b # a /\ app'[b].at # None =>
           app'[b].line \in Lines' \ done /\ app'[b].at \in Int /\ app'[b].at <= parks
      BY <1>0, <1>2, <1>6 DEF History
    <3> QED BY <3>1, <3>2
  <2>3. ASSUME NEW n \in Nat  PROVE ToSet(File(n))' \subseteq done'
    <3>1. File(n)' = File(n)
      BY <1>5
    <3> QED BY <3>1, <1>0, <1>1 DEF History, ToSet
  <2>4. before' \in Seq(SUBSET Nat) /\ Len(before') = Len(key') /\ done' \subseteq Lines'
    BY <1>1, <1>2, <1>3, <1>4
  <2> QED BY <1>1, <2>1, <2>2, <2>3, <2>4 DEF History
<1>13. LateBeganFirst'
  <2>1. SUFFICES ASSUME NEW b \in Appenders, NEW c \in Appenders, IsOpen(b)', IsOpen(c)',
                        OpenAt(b)' < OpenAt(c)', key'[app'[b].line] = key'[app'[c].line]
                 PROVE  before'[app'[b].line] \subseteq before'[app'[c].line]
    BY DEF LateBeganFirst
  <2>2. b # a
    BY <1>8, <1>9, <1>11, <2>1
  <2>3. IsOpen(b) /\ app'[b] = app[b] /\ app[b].line \in Lines /\ OpenAt(b)' = OpenAt(b)
    BY <1>6, <1>8, <1>9, <2>1, <2>2
  <2>4. CASE c = a
    <3>1. key[app[b].line] = k
      BY <1>2, <1>7, <2>1, <2>3, <2>4
    <3>2. \A y \in before[app[b].line] : y \in done /\ key[y] = k
      BY <1>9, <2>3, <3>1
    <3> QED BY <1>4, <1>7, <2>3, <2>4, <3>2
  <2>5. CASE c # a
    <3>1. IsOpen(c) /\ app'[c] = app[c] /\ app[c].line \in Lines /\ OpenAt(c)' = OpenAt(c)
      BY <1>6, <1>8, <1>9, <2>1, <2>5
    <3>2. key[app[b].line] = key[app[c].line] /\ OpenAt(b) < OpenAt(c)
      BY <1>2, <2>1, <2>3, <3>1
    <3>3. before[app[b].line] \subseteq before[app[c].line]
      BY <1>0, <2>3, <3>1, <3>2 DEF LateBeganFirst
    <3> QED BY <1>4, <2>3, <3>1, <3>3
  <2> QED BY <2>4, <2>5
<1>14. RoundsAreFresh' /\ ResultIsOfCopies'
  <2>1. ASSUME NEW n \in Nat  PROVE ToSet(File(n))' = ToSet(File(n))
    <3>1. File(n)' = File(n)
      BY <1>5
    <3> QED BY <3>1 DEF ToSet
  <2>2. RoundsAreFresh'
    BY <1>1, <2>1 DEF OrderInv, FramedInv, RoundsAreFresh, Rewriting, Own
  <2>3. \A i \in DOMAIN m.mine : ToSet(MineLines(i))' = ToSet(MineLines(i))
    BY <1>1 DEF MineLines, CopyLines, Copy, Names, ToSet
  <2> QED BY <1>1, <2>2, <2>3 DEF OrderInv, FramedInv, ResultIsOfCopies
<1>20. FramedInv'
  BY <1>12, <1>13, <1>14 DEF FramedInv
<1> SUFFICES ASSUME NEW r, Ranking(r), Orders(r)
             PROVE  \E q : Ranking(q) /\ Orders(q)' /\ Follows(q, r)
  BY <1>20 DEF OrderGoesOn
<1>15. Ranking(r) /\ Orders(r)
  OBVIOUS
<1>16. PICK B \in Nat : r \in [Nat -> 0..B]
  BY <1>15 DEF Ranking
<1>17. PICK q : Ranking(q) /\ q[x0] = B + 1 /\ \A y \in Lines : q[y] = r[y] /\ r[y] \in 0..B
  <2>1. B + 1 \in 0..(B + 1)
    BY <1>16
  <2>2. \A y \in Lines : y \in Nat \ {x0} /\ r[y] \in 0..B
    BY <1>2, <1>16
  <2>3. /\ Ranking([r EXCEPT ![x0] = B + 1]) /\ [r EXCEPT ![x0] = B + 1][x0] = B + 1
        /\ \A y \in Nat \ {x0} : [r EXCEPT ![x0] = B + 1][y] = r[y]
    BY <1>2, <1>16, <2>1, Reranked
  <2> QED BY <2>2, <2>3
<1>18. Orders(q)'
  <2>1. Ranks(q)'
    <3>1. ASSUME NEW x \in Lines, NEW y \in before'[x]  PROVE q[y] < q[x]
      <4>1. y \in before[x] /\ y \in Lines
        BY <1>0, <1>3, <1>4, <3>1 DEF History
      <4> QED BY <1>15, <1>17, <4>1 DEF Orders, Ranks
    <3>2. ASSUME NEW y \in before'[x0]  PROVE q[y] < q[x0]
      <4>1. y \in Lines
        BY <1>3, <1>4, <3>2
      <4>2. q[y] \in 0..B /\ q[x0] = B + 1
        BY <1>17, <4>1
      <4> QED BY <1>16, <4>2
    <3> QED BY <1>2, <3>1, <3>2 DEF Ranks
  <2>2. ASSUME NEW f, ToSet(f) \subseteq Lines, Sorted(r, f)
        PROVE  \A i, j \in DOMAIN f : i < j /\ key'[f[i]] = key'[f[j]] => q[f[i]] <= q[f[j]]
    <3>1. \A i \in DOMAIN f : f[i] \in Lines
      BY <2>2 DEF ToSet
    <3> QED BY <1>2, <1>17, <2>2, <3>1 DEF Sorted
  <2>3. \A n \in Nat : Sorted(q, File(n))'
    <3>1. ASSUME NEW n \in Nat  PROVE Sorted(q, File(n))'
      <4>1. Sorted(r, File(n)) /\ ToSet(File(n)) \subseteq Lines /\ File(n)' = File(n)
        BY <1>5, <1>10, <1>15 DEF Orders
      <4> QED BY <2>2, <4>1 DEF Sorted
    <3> QED BY <3>1
  <2>4. NewComesLast(q)'
    <3>1. SUFFICES ASSUME NEW n \in Nat, NEW y \in Row(n), \A h \in Nat : h < n => y \notin Row(h),
                          NEW h \in Nat, NEW x \in Row(h), h < n, key'[x] = key'[y]
                   PROVE  q[x] <= q[y]
      BY <1>5 DEF NewComesLast
    <3>2. x \in Lines /\ y \in Lines /\ key[x] = key[y]
      BY <1>2, <1>10, <3>1
    <3>3. r[x] <= r[y]
      BY <1>15, <3>1, <3>2 DEF Orders, NewComesLast
    <3> QED BY <1>17, <3>2, <3>3
  <2>5. LateComesFirst(q)'
    <3>1. SUFFICES ASSUME NEW b \in Appenders, IsOpen(b)', NEW n \in Nat, NEW y \in Row(n), n > OpenAt(b)'
                   PROVE  /\ \A h \in Nat : h <= OpenAt(b)' => y \notin Row(h)
                          /\ key'[y] = key'[app'[b].line] => \A x \in before'[app'[b].line] : q[x] < q[y]
      BY <1>5 DEF LateComesFirst
    <3>2. b # a
      BY <1>0, <1>8, <3>1, FilesHold
    <3>3. IsOpen(b) /\ OpenAt(b)' = OpenAt(b) /\ app'[b] = app[b] /\ app[b].line \in Lines /\ y \in Lines
      BY <1>6, <1>8, <1>9, <1>10, <3>1, <3>2
    <3>4. /\ \A h \in Nat : h <= OpenAt(b) => y \notin Row(h)
          /\ key[y] = key[app[b].line] => \A x \in before[app[b].line] : r[x] < r[y]
      BY <1>15, <3>1, <3>3 DEF Orders, LateComesFirst
    <3>5. before'[app[b].line] = before[app[b].line] /\ \A x \in before[app[b].line] : x \in Lines
      BY <1>3, <1>4, <1>9, <3>3
    <3> QED BY <1>2, <1>17, <3>3, <3>4, <3>5
  <2>6. m'.pc = "publish" => Sorted(q, m.temp)'
    <3>1. SUFFICES ASSUME m.pc = "publish"  PROVE Sorted(q, m.temp)'
      BY <1>1
    <3>2. Sorted(r, m.temp) /\ ToSet(m.temp) \subseteq Lines
      BY <1>0, <1>15, <3>1 DEF Orders, Fits
    <3> QED BY <1>1, <2>2, <3>2 DEF Sorted
  <2> QED BY <2>1, <2>3, <2>4, <2>5, <2>6 DEF Orders
<1>19. Follows(q, r)
  BY <1>3, <1>17 DEF Follows
<1> QED BY <1>17, <1>18, <1>19

\* What a written line changes in the row: it joins the file that the append is open on.
LEMMA WriteJoins ==
  ASSUME OrderInv, NEW a \in Appenders, Write(a)
  PROVE  /\ app[a].line \in Lines \ done /\ app[a].line \in Nat /\ app'[a].at = None
         /\ UNCHANGED <<key, before, m, parks>> /\ done' = done \cup {app[a].line} /\ Names' = Names
         /\ \A b \in Appenders : b # a => app'[b] = app[b]
         /\ \A b \in Appenders : IsOpen(b)' => b # a /\ IsOpen(b) /\ OpenAt(b)' = OpenAt(b)
         /\ \A n \in Nat : File(n)' = IF IsOpen(a) /\ n = OpenAt(a)
                                      THEN Append(File(n), app[a].line) ELSE File(n)
         /\ \A n \in Nat : app[a].line \notin ToSet(File(n)) /\ app[a].line \notin Row(n)
         /\ IsOpen(a) => Stays(OpenAt(a)) /\ OpenAt(a) \in Nat
<1>0. CopyInv /\ RunInv /\ History /\ Types /\ PendingIsNowhere
  BY DEF OrderInv, FramedInv, DoubleInv, CopyInv
<1>1. UNCHANGED <<key, before, m, parks>> /\ done' = done \cup {app[a].line} /\ app[a].at # None
  BY DEF Write
<1>2. /\ app[a].line \in Nat
      /\ live' = IF app[a].at = Live THEN Append(live, app[a].line) ELSE live
      /\ app[a].at = Live => live \in Seq(Nat)
      /\ (live' = None <=> live = None) /\ Names' = Names
      /\ \A k : CopyLines(k)' = IF k \in Names /\ k = app[a].at
                                THEN Append(CopyLines(k), app[a].line) ELSE CopyLines(k)
      /\ app' = [app EXCEPT ![a] = [at |-> None, line |-> 0]]
  BY <1>0, WriteChanges
<1>3. app'[a].at = None /\ \A b \in Appenders : b # a => app'[b] = app[b]
  <2>1. app'[a] = [at |-> None, line |-> 0] /\ \A b \in Appenders : b # a => app'[b] = app[b]
    BY <1>0, <1>2 DEF Types
  <2> QED BY <2>1
<1>4. None \notin Names /\ Live # None /\ Live \notin Names /\ parks \in Nat /\ \A n \in Names : n # parks + 1 /\ n \in Nat
  <2>1. \A n \in Names : n \in Nat /\ n >= 1 /\ n # parks + 1
    BY <1>0, NamesAreSmall
  <2>2. None \notin Names /\ Live # None
    BY <2>1, NoneIsNoFile DEF Live
  <2>3. Live \notin Names
    BY <2>1 DEF Live
  <2> QED BY <1>0, <2>1, <2>2, <2>3, NamesAreSmall
<1>5. \A b \in Appenders : IsOpen(b)' => b # a /\ IsOpen(b) /\ OpenAt(b)' = OpenAt(b)
  BY <1>1, <1>2, <1>3, <1>4 DEF IsOpen, OpenAt
<1>6. ASSUME NEW n \in Nat
      PROVE  File(n)' = IF IsOpen(a) /\ n = OpenAt(a) THEN Append(File(n), app[a].line) ELSE File(n)
  <2>1. CASE app[a].at = Live
    <3>1. IsOpen(a) /\ OpenAt(a) = parks + 1 /\ live # None /\ live' # None /\ live' = Append(live, app[a].line)
      BY <1>2, <2>1, MineIsNamed, NoneIsNoFile DEF IsOpen, OpenAt
    <3>2. \A k : CopyLines(k)' = CopyLines(k)
      BY <1>2, <1>4, <2>1
    <3> QED BY <1>1, <3>1, <3>2 DEF File
  <2>2. CASE app[a].at \in Names
    <3>1. IsOpen(a) /\ OpenAt(a) = app[a].at /\ live' = live /\ app[a].at # parks + 1
      BY <1>2, <1>4, <2>2 DEF IsOpen, OpenAt
    <3> QED BY <1>1, <1>2, <2>2, <3>1 DEF File
  <2>3. CASE app[a].at # Live /\ app[a].at \notin Names
    <3>1. ~IsOpen(a) /\ live' = live /\ \A k : CopyLines(k)' = CopyLines(k)
      BY <1>2, <2>3 DEF IsOpen
    <3> QED BY <1>1, <3>1 DEF File
  <2> QED BY <2>1, <2>2, <2>3
<1>7. \A n \in Nat : app[a].line \notin ToSet(File(n)) /\ app[a].line \notin Row(n)
  <2>1. app[a].line \notin done
    BY <1>0, <1>1 DEF History
  <2> QED BY <2>1, <1>0, FilesHold DEF History
<1>8. IsOpen(a) => Stays(OpenAt(a)) /\ OpenAt(a) \in Nat
  <2>1. SUFFICES ASSUME IsOpen(a), m.cleaned, OpenAt(a) \in Removables  PROVE FALSE
    BY <1>0, OpenIsUnderWay DEF Stays
  <2>2. app[a].at \notin Names
    BY <1>0, <2>1 DEF RunInv, NoStragglers
  <2>3. OpenAt(a) = parks + 1
    BY <2>1, <2>2 DEF IsOpen, OpenAt
  <2>4. Removables \subseteq Names
    BY <1>0, MineIsNamed DEF Removables
  <2> QED BY <1>4, <2>1, <2>3, <2>4
<1>9. app[a].line \in Lines \ done
  BY <1>0, <1>1 DEF History
<1> QED BY <1>1, <1>2, <1>3, <1>5, <1>6, <1>7, <1>8, <1>9

\* The place of a line in the order: the first one that is late enough for what is in its
\* file and before it, and for what was done when its append began.
LEMMA LineIsPlaced ==
  ASSUME OrderInv, NEW a \in Appenders, IsOpen(a), app[a].line \in Lines, NEW B \in Nat,
         NEW r \in [Nat -> 0..B], Orders(r)
  PROVE  \E v \in 0..(B + 1) :
           /\ \A y \in before[app[a].line] : r[y] < v
           /\ \A g \in Nat : \A y \in Row(g) : g <= OpenAt(a) /\ key[y] = key[app[a].line] => r[y] <= v
           /\ \A n \in Nat : \A y \in Row(n) :
                (/\ n > OpenAt(a) /\ key[y] = key[app[a].line]
                 /\ \A g \in Nat : g < n => y \notin Row(g)) => v <= r[y]
<1>0. CopyInv /\ History
  BY DEF OrderInv, FramedInv, DoubleInv
<1> DEFINE Late(v) == /\ \A y \in before[app[a].line] : r[y] < v
                      /\ \A g \in Nat : \A y \in Row(g) :
                           g <= OpenAt(a) /\ key[y] = key[app[a].line] => r[y] <= v
           S == {v \in Nat : Late(v)}
<1>1. Lines \subseteq Nat /\ done \subseteq Lines /\ \A y \in before[app[a].line] : y \in done
  <2>1. Len(key) \in Nat
    BY <1>0, LenProperties DEF CopyInv, Types
  <2>2. Lines \subseteq Nat
    BY <2>1 DEF Lines
  <2>3. done \subseteq Lines /\ \A y \in before[app[a].line] : y \in done
    BY <1>0 DEF History
  <2> QED BY <2>2, <2>3
<1>2. OpenAt(a) \in Nat /\ \A n \in Nat : Row(n) \subseteq done
  BY <1>0, OpenIsUnderWay, FilesHold DEF History
<1>3. \A y \in done : r[y] \in 0..B
  BY <1>1
<1>4. B + 1 \in S
  <2>1. \A y \in done : r[y] < B + 1 /\ r[y] <= B + 1
    BY <1>3
  <2>2. \A y \in before[app[a].line] : r[y] < B + 1
    BY <1>1, <2>1
  <2>3. \A g \in Nat : \A y \in Row(g) : r[y] <= B + 1
    BY <1>2, <2>1
  <2>4. Late(B + 1)
    BY <2>2, <2>3
  <2> QED BY <2>4
<1>5. PICK v \in S : \A w \in S : v <= w
  <2> HIDE DEF Late
  <2>1. S \in SUBSET Nat /\ S # {}
    BY <1>4
  <2> HIDE DEF S
  <2> QED BY <2>1, LeastNat
<1>6. v \in 0..(B + 1)
  BY <1>4, <1>5
<1>7. ASSUME NEW n \in Nat, NEW y \in Row(n), n > OpenAt(a), key[y] = key[app[a].line],
             \A g \in Nat : g < n => y \notin Row(g)
      PROVE  v <= r[y]
  <2>1. r[y] \in Nat
    BY <1>2, <1>3, <1>7
  <2>2. \A z \in before[app[a].line] : r[z] < r[y]
    BY <1>7 DEF Orders, LateComesFirst
  <2>3. \A g \in Nat : \A z \in Row(g) : g <= OpenAt(a) /\ key[z] = key[app[a].line] => r[z] <= r[y]
    <3>1. \A g \in Nat : g <= OpenAt(a) => g < n
      BY <1>2, <1>7
    <3> QED BY <1>7, <3>1 DEF Orders, NewComesLast
  <2>4. r[y] \in S
    BY <2>1, <2>2, <2>3
  <2> QED BY <1>5, <2>4
<1>8. Late(v)
  BY <1>5
<1> QED BY <1>6, <1>7, <1>8

\* Around a written line.
LEMMA WriteKeepsFrame ==
  ASSUME OrderInv, DoubleInv', RunInv', NEW a \in Appenders, Write(a)
  PROVE  FramedInv'
<1>0. CopyInv /\ RunInv /\ History /\ LateBeganFirst /\ PendingIsNowhere /\ RoundsAreFresh /\ ResultIsOfCopies
  BY DEF OrderInv, FramedInv, DoubleInv
<1>1. /\ app[a].line \in Lines \ done /\ app[a].line \in Nat /\ app'[a].at = None
      /\ UNCHANGED <<key, before, m, parks>> /\ done' = done \cup {app[a].line} /\ Names' = Names
      /\ \A b \in Appenders : b # a => app'[b] = app[b]
      /\ \A b \in Appenders : IsOpen(b)' => b # a /\ IsOpen(b) /\ OpenAt(b)' = OpenAt(b)
      /\ \A n \in Nat : File(n)' = IF IsOpen(a) /\ n = OpenAt(a)
                                   THEN Append(File(n), app[a].line) ELSE File(n)
      /\ \A n \in Nat : app[a].line \notin ToSet(File(n)) /\ app[a].line \notin Row(n)
  BY WriteJoins
<1>2. ASSUME NEW n \in Nat
      PROVE  /\ ToSet(File(n)) \subseteq ToSet(File(n))'
             /\ ToSet(File(n))' \subseteq ToSet(File(n)) \cup {app[a].line}
             /\ app[a].line \in ToSet(File(n))' => n = OpenAt(a)
  <2>1. File(n) \in Seq(Nat)
    BY <1>0, FilesHold
  <2>2. CASE IsOpen(a) /\ n = OpenAt(a)
    <3>1. File(n)' = Append(File(n), app[a].line)
      BY <1>1, <2>2
    <3>2. ToSet(Append(File(n), app[a].line)) = ToSet(File(n)) \cup {app[a].line}
      BY <1>1, <2>1, AppendedLine
    <3>3. ToSet(File(n))' = ToSet(Append(File(n), app[a].line))
      BY <3>1 DEF ToSet
    <3> QED BY <2>2, <3>2, <3>3
  <2>3. CASE ~(IsOpen(a) /\ n = OpenAt(a))
    <3>1. File(n)' = File(n)
      BY <1>1, <2>3
    <3>2. ToSet(File(n))' = ToSet(File(n))
      BY <3>1 DEF ToSet
    <3> QED BY <1>1, <3>2
  <2> QED BY <2>2, <2>3
<1>3. app[a].at # None /\ \A b \in Appenders : b # a /\ app[b].at # None => app[b].line # app[a].line
  BY <1>0 DEF Write, PendingIsNowhere
<1>4. History'
  <2>1. \A b \in Appenders : app'[b].at # None =>
          app'[b].line \in Lines \ done' /\ (app'[b].at \in Int /\ app'[b].at <= parks)
    <3>1. \A b \in Appenders : app'[b].at # None => b # a /\ app'[b] = app[b]
      BY <1>1
    <3> QED BY <1>0, <1>1, <1>3, <3>1 DEF History
  <2>2. \A n \in Nat : ToSet(File(n))' \subseteq done'
    BY <1>0, <1>1, <1>2 DEF History
  <2>3. Lines' = Lines /\ done' \subseteq Lines
    BY <1>0, <1>1 DEF History, Lines
  <2> QED BY <1>0, <1>1, <2>1, <2>2, <2>3 DEF History
<1>5. LateBeganFirst'
  <2>1. \A b \in Appenders : IsOpen(b)' => IsOpen(b) /\ OpenAt(b)' = OpenAt(b) /\ app'[b].line = app[b].line
    BY <1>1
  <2> QED BY <1>0, <1>1, <2>1 DEF LateBeganFirst
<1>6. RoundsAreFresh'
  <2>1. SUFFICES ASSUME Rewriting, NEW i \in Own, NEW n \in Nat, n > m.mine[i].name, NEW h \in Nat, h < n,
                        NEW x \in ToSet(File(n))', x \in ToSet(File(h))'
                 PROVE  FALSE
    BY <1>1 DEF RoundsAreFresh, Rewriting, Own
  <2>2. ToSet(File(n)) \cap ToSet(File(h)) = {}
    BY <1>0, <2>1 DEF RoundsAreFresh
  <2> QED BY <1>1, <1>2, <2>1, <2>2
<1>7. ResultIsOfCopies'
  <2>1. SUFFICES ASSUME m.pc = "publish", NEW x \in ToSet(m.temp)
                 PROVE  \E i \in DOMAIN m.mine : x \in ToSet(MineLines(i))'
    <3>1. ToSet(m.temp)' = ToSet(m.temp)
      BY <1>1 DEF ToSet
    <3> QED BY <1>1, <3>1 DEF ResultIsOfCopies
  <2>2. PICK i \in DOMAIN m.mine : x \in ToSet(MineLines(i))
    BY <1>0, <2>1 DEF ResultIsOfCopies
  <2>3. PICK n \in Nat : n = m.mine[i].name /\ n # parks + 1
    BY <1>0, MineIsNamed, NamesAreSmall
  <2>4. MineLines(i) = File(n)
    BY <2>3 DEF MineLines, File
  <2>5. MineLines(i)' = File(n)'
    BY <1>1, <2>3 DEF MineLines, File, CopyLines, Copy, Names
  <2>6. ToSet(MineLines(i))' = ToSet(File(n))'
    BY <2>5 DEF ToSet
  <2> QED BY <1>2, <2>2, <2>4, <2>6
<1> QED BY <1>4, <1>5, <1>6, <1>7 DEF FramedInv

\* An append that is late puts its line into the middle of the order: the ranks above it
\* make room.
LEMMA WriteKeepsOrder ==
  ASSUME OrderInv, DoubleInv', RunInv', NEW a \in Appenders, Write(a)
  PROVE  OrderGoesOn
<1>0. CopyInv /\ CopyInv' /\ RunInv /\ History /\ LateBeganFirst /\ Fits(m.temp)
  BY DEF OrderInv, FramedInv, DoubleInv
<1>1. /\ app[a].line \in Lines \ done /\ app[a].line \in Nat /\ app'[a].at = None
      /\ UNCHANGED <<key, before, m, parks>> /\ done' = done \cup {app[a].line} /\ Names' = Names
      /\ \A b \in Appenders : b # a => app'[b] = app[b]
      /\ \A b \in Appenders : IsOpen(b)' => b # a /\ IsOpen(b) /\ OpenAt(b)' = OpenAt(b)
      /\ \A n \in Nat : File(n)' = IF IsOpen(a) /\ n = OpenAt(a)
                                   THEN Append(File(n), app[a].line) ELSE File(n)
      /\ \A n \in Nat : app[a].line \notin ToSet(File(n)) /\ app[a].line \notin Row(n)
      /\ IsOpen(a) => Stays(OpenAt(a)) /\ OpenAt(a) \in Nat
  BY WriteJoins
<1>2. FramedInv'
  BY WriteKeepsFrame
<1>3. \A b \in Appenders : app'[b].at # None => b # a /\ app'[b].line = app[b].line
  BY <1>1
<1>4. \A n \in Nat : Stays(n)' <=> Stays(n)
  BY <1>1 DEF Stays, Removables, Removable
<1> SUFFICES ASSUME NEW r, Ranking(r), Orders(r)
             PROVE  \E q : Ranking(q) /\ Orders(q)' /\ Follows(q, r)
  BY <1>2 DEF OrderGoesOn
<1>5. CASE ~IsOpen(a)
  <2>1. Ranking(r) /\ Orders(r)
    OBVIOUS
  <2>2. \A n \in Nat : File(n)' = File(n)
    BY <1>1, <1>5
  <2>3. \A n \in Nat : Row(n)' = Row(n)
    BY <1>4, <2>2 DEF Row
  <2>4. m'.pc = "publish" => Sorted(r, m'.temp)
    BY <1>1, <2>1 DEF Orders
  <2>5. Orders(r)'
    BY <1>0, <1>1, <1>3, <2>1, <2>2, <2>3, <2>4, SameRows
  <2> QED BY <2>5 DEF Follows
<1>6. CASE IsOpen(a)
  <2>a. PICK x \in Nat : x = app[a].line
    BY <1>1
  <2>b. PICK h \in Nat : h = OpenAt(a)
    BY <1>1, <1>6
  <2>c. Ranking(r) /\ Orders(r)
    OBVIOUS
  <2>1. PICK B \in Nat : r \in [Nat -> 0..B] /\ Orders(r)
    BY <2>c DEF Ranking
  <2>2. PICK v \in 0..(B + 1) :
          /\ \A y \in before[x] : r[y] < v
          /\ \A g \in Nat : \A y \in Row(g) : g <= h /\ key[y] = key[x] => r[y] <= v
          /\ \A n \in Nat : \A y \in Row(n) :
               (/\ n > h /\ key[y] = key[x]
                /\ \A g \in Nat : g < n => y \notin Row(g)) => v <= r[y]
    BY <1>1, <1>6, <2>a, <2>b, <2>1, LineIsPlaced
  <2>3. PICK q : Ranking(q) /\ q[x] = v /\ \A y \in Nat \ {x} : q[y] = r[y]
    <3>1. /\ Ranking([r EXCEPT ![x] = v]) /\ [r EXCEPT ![x] = v][x] = v
          /\ \A y \in Nat \ {x} : [r EXCEPT ![x] = v][y] = r[y]
      BY <1>1, <2>1, <2>2, Reranked
    <3> QED BY <3>1
  <2>4. /\ x \in Lines \ done /\ x \in Nat /\ h \in Nat
        /\ File(h)' = Append(File(h), x) /\ \A n \in Nat : n # h => File(n)' = File(n)
        /\ \A n \in Nat : x \notin ToSet(File(n)) /\ x \notin Row(n)
    BY <1>1, <1>6, <2>a, <2>b
  <2>5. \A n \in Nat : Row(n)' = IF n = h THEN Row(n) \cup {x} ELSE Row(n)
    <3>1. ASSUME NEW n \in Nat, n # h  PROVE Row(n)' = Row(n)
      BY <1>4, <2>4, <3>1 DEF Row, ToSet
    <3>2. Row(h)' = Row(h) \cup {x}
      <4>1. File(h) \in Seq(Nat)
        BY <1>0, <2>4, FilesHold
      <4>2. ToSet(Append(File(h), x)) = ToSet(File(h)) \cup {x}
        BY <2>4, <4>1, AppendedLine
      <4>3. ToSet(File(h))' = ToSet(Append(File(h), x))
        BY <2>4 DEF ToSet
      <4>4. Stays(h) /\ Stays(h)'
        BY <1>1, <1>4, <1>6, <2>b
      <4> QED BY <4>2, <4>3, <4>4 DEF Row
    <3> QED BY <3>1, <3>2, <2>4
  <2>6. done \subseteq Nat \ {x} /\ done \subseteq Lines
    <3>1. Lines \subseteq Nat
      BY <1>0, LenProperties DEF CopyInv, Types, Lines
    <3> QED BY <1>0, <2>4, <3>1 DEF History
  <2>7. \A y \in done : q[y] = r[y]
    BY <2>3, <2>6
  <2>8. \A n \in Nat : ToSet(File(n)) \subseteq done /\ Row(n) \subseteq done
    BY <1>0, FilesHold DEF History
  <2>9. \A y \in Lines : y \in Nat /\ \A z \in before[y] : z \in done
    BY <1>0, LenProperties DEF CopyInv, Types, Lines, History
  <2>10. \A n \in Nat : n # h => x \notin Row(n)'
    BY <2>4, <2>5
  <2>11. Ranks(q)'
    <3>1. ASSUME NEW y \in Lines, NEW z \in before[y]  PROVE q[z] < q[y]
      <4>1. z \in done /\ q[z] = r[z]
        BY <2>7, <2>9, <3>1
      <4>2. CASE y = x
        BY <2>2, <2>3, <3>1, <4>1, <4>2
      <4>3. CASE y # x
        BY <2>1, <2>3, <2>9, <3>1, <4>1, <4>3 DEF Orders, Ranks
      <4> QED BY <4>2, <4>3
    <3> QED BY <1>1, <3>1 DEF Ranks, Lines
  <2>12. ASSUME NEW f, ToSet(f) \subseteq Nat \ {x}, Sorted(r, f)  PROVE Sorted(q, f)
    <3>1. \A i \in DOMAIN f : f[i] \in Nat \ {x}
      BY <2>12 DEF ToSet
    <3> QED BY <2>3, <2>12, <3>1 DEF Sorted
  <2>13. \A n \in Nat : Sorted(q, File(n))'
    <3>1. ASSUME NEW n \in Nat, n # h  PROVE Sorted(q, File(n))'
      <4>1. Sorted(q, File(n))
        BY <2>1, <2>6, <2>8, <2>12 DEF Orders
      <4> QED BY <1>1, <2>4, <3>1, <4>1 DEF Sorted
    <3>2. Sorted(q, File(h))'
      <4>1. File(h) \in Seq(Nat) /\ DOMAIN File(h) = 1..Len(File(h)) /\ Len(File(h)) \in Nat
        BY <1>0, <2>4, FilesHold, LenProperties
      <4>2. /\ DOMAIN Append(File(h), x) = 1..(Len(File(h)) + 1)
            /\ Append(File(h), x)[Len(File(h)) + 1] = x
            /\ \A i \in 1..Len(File(h)) : Append(File(h), x)[i] = File(h)[i]
        BY <2>4, <4>1, AppendProperties, LenProperties
      <4>3. Sorted(q, File(h))
        BY <2>1, <2>4, <2>6, <2>8, <2>12 DEF Orders
      <4>4. \A i \in 1..Len(File(h)) : File(h)[i] \in Row(h) /\ File(h)[i] \in done
        <5>1. \A i \in 1..Len(File(h)) : File(h)[i] \in ToSet(File(h))
          BY <4>1 DEF ToSet
        <5>2. Row(h) = ToSet(File(h))
          BY <1>1, <1>6, <2>b DEF Row
        <5> QED BY <2>4, <2>8, <5>1, <5>2
      <4>5. ASSUME NEW i \in 1..(Len(File(h)) + 1), NEW j \in 1..(Len(File(h)) + 1), i < j,
                   key[Append(File(h), x)[i]] = key[Append(File(h), x)[j]]
            PROVE  q[Append(File(h), x)[i]] <= q[Append(File(h), x)[j]]
        <5>1. i \in 1..Len(File(h))
          BY <4>1, <4>5
        <5>2. CASE j = Len(File(h)) + 1
          BY <2>2, <2>3, <2>4, <2>7, <4>2, <4>4, <4>5, <5>1, <5>2
        <5>3. CASE j \in 1..Len(File(h))
          BY <4>1, <4>2, <4>3, <4>5, <5>1, <5>3 DEF Sorted
        <5> QED BY <4>1, <4>5, <5>2, <5>3
      <4>6. Sorted(q, Append(File(h), x))
        BY <4>2, <4>5 DEF Sorted
      <4> QED BY <1>1, <2>4, <4>6 DEF Sorted
    <3> QED BY <3>1, <3>2
  <2>14. NewComesLast(q)'
    <3>1. SUFFICES ASSUME NEW n \in Nat, NEW y \in Row(n)', \A g \in Nat : g < n => y \notin Row(g)',
                          NEW g \in Nat, NEW z \in Row(g)', g < n, key[z] = key[y]
                   PROVE  q[z] <= q[y]
      BY <1>1 DEF NewComesLast
    <3>2. CASE y = x
      <4>1. n = h /\ g # h /\ z \in Row(g) /\ g <= h
        BY <2>4, <2>5, <2>10, <3>1, <3>2
      <4>2. r[z] <= v /\ z \in done
        BY <2>2, <2>8, <3>1, <3>2, <4>1
      <4> QED BY <2>3, <2>7, <3>2, <4>2
    <3>3. CASE y # x /\ z = x
      <4>1. g = h /\ n > h /\ n # h /\ y \in Row(n) /\ y \in done
        BY <2>4, <2>5, <2>8, <2>10, <3>1, <3>3
      <4>2. \A e \in Nat : e < n => y \notin Row(e)
        BY <2>5, <3>1
      <4>3. v <= r[y]
        BY <2>2, <3>1, <3>3, <4>1, <4>2
      <4> QED BY <2>3, <2>7, <3>3, <4>1, <4>3
    <3>4. CASE y # x /\ z # x
      <4>1. y \in Row(n) /\ z \in Row(g) /\ y \in done /\ z \in done
        BY <2>5, <2>8, <3>1, <3>4
      <4>2. \A e \in Nat : e < n => y \notin Row(e)
        BY <2>5, <3>1
      <4>3. r[z] <= r[y]
        BY <2>1, <3>1, <4>1, <4>2 DEF Orders, NewComesLast
      <4> QED BY <2>7, <4>1, <4>3
    <3> QED BY <3>2, <3>3, <3>4
  <2>15. LateComesFirst(q)'
    <3>1. SUFFICES ASSUME NEW b \in Appenders, IsOpen(b)', NEW n \in Nat, NEW y \in Row(n)', n > OpenAt(b)'
                   PROVE  /\ \A g \in Nat : g <= OpenAt(b)' => y \notin Row(g)'
                          /\ key[y] = key[app'[b].line] => \A z \in before[app'[b].line] : q[z] < q[y]
      BY <1>1 DEF LateComesFirst
    <3>2. /\ b # a /\ IsOpen(b) /\ OpenAt(b)' = OpenAt(b) /\ app'[b].line = app[b].line /\ n > OpenAt(b)
          /\ app[b].line \in Lines /\ OpenAt(b) \in Nat
      <4>1. b # a /\ IsOpen(b) /\ OpenAt(b)' = OpenAt(b)
        BY <1>1, <3>1
      <4>2. app'[b] = app[b] /\ app[b].line \in Lines /\ OpenAt(b) \in Nat
        BY <1>0, <1>1, <4>1, OpenIsUnderWay DEF History
      <4> QED BY <3>1, <4>1, <4>2
    <3>3. \A z \in before[app[b].line] : q[z] = r[z]
      BY <2>7, <2>9, <3>2
    <3>4. CASE y = x
      <4>1. n = h /\ OpenAt(b) < h
        BY <2>10, <3>1, <3>2, <3>4
      <4>2. \A g \in Nat : g <= OpenAt(b) => g # h
        BY <2>4, <3>2, <4>1
      <4>3. \A g \in Nat : g <= OpenAt(b)' => y \notin Row(g)'
        BY <2>10, <3>2, <3>4, <4>2
      <4>4. ASSUME key[y] = key[app[b].line], NEW z \in before[app[b].line]  PROVE q[z] < q[y]
        <5>1. z \in before[x]
          BY <1>0, <1>6, <2>a, <2>b, <3>2, <3>4, <4>1, <4>4 DEF LateBeganFirst
        <5> QED BY <2>2, <2>3, <3>3, <3>4, <4>4, <5>1
      <4> QED BY <3>2, <4>3, <4>4
    <3>5. CASE y # x
      <4>1. y \in Row(n) /\ y \in done
        BY <2>5, <2>8, <3>1, <3>5
      <4>2. /\ \A g \in Nat : g <= OpenAt(b) => y \notin Row(g)
            /\ key[y] = key[app[b].line] => \A z \in before[app[b].line] : r[z] < r[y]
        BY <2>1, <3>2, <4>1 DEF Orders, LateComesFirst
      <4>3. \A g \in Nat : g <= OpenAt(b) => y \notin Row(g)'
        BY <2>5, <3>5, <4>2
      <4> QED BY <2>7, <3>2, <3>3, <4>1, <4>2, <4>3
    <3> QED BY <3>4, <3>5
  <2>16. m'.pc = "publish" => Sorted(q, m.temp)'
    <3>1. SUFFICES ASSUME m.pc = "publish"  PROVE Sorted(q, m.temp)
      BY <1>1 DEF Sorted
    <3>2. ToSet(m.temp) \subseteq Nat \ {x}
      <4>1. app[a].line \notin ToSet(m.temp) /\ ToSet(m.temp) \subseteq Lines
        BY <1>0 DEF Fits, Write
      <4> QED BY <2>9, <4>1, <2>a
    <3> QED BY <2>1, <2>12, <3>1, <3>2 DEF Orders
  <2>17. Orders(q)'
    BY <2>11, <2>13, <2>14, <2>15, <2>16 DEF Orders
  <2>18. Follows(q, r)
    BY <2>7 DEF Follows
  <2> QED BY <2>3, <2>17, <2>18
<1> QED BY <1>5, <1>6

-----------------------------------------------------------------------------
(* The invariant, and the order it stands for *)

LEMMA InitIsOrderInv == Init => OrderInv
<1> SUFFICES ASSUME Init  PROVE OrderInv
  OBVIOUS
<1>0. DoubleInv /\ CopyInv
  BY InitIsDoubleInv DEF DoubleInv
<1>1. /\ key \in [1..StartLines -> Keys] /\ StartLines \in Nat
      /\ live = [i \in 1..StartLines |-> i] /\ copies = <<>> /\ parks = 0
      /\ app = [a \in Appenders |-> [at |-> None, line |-> 0]] /\ m = Idle /\ done = 1..StartLines
      /\ before = [i \in 1..StartLines |-> {j \in 1..(i - 1) : key[j] = key[i]}]
  BY StoreAssumption DEF Init
<1>2. Lines = 1..StartLines /\ key \in Seq(Keys) /\ Len(key) = StartLines
  <2>1. key \in Seq(Keys) /\ DOMAIN key = 1..StartLines
    BY <1>1, SeqDef
  <2>2. Len(key) = StartLines
    BY <1>1, <2>1, LenProperties
  <2> QED BY <2>1, <2>2 DEF Lines
<1>3. before \in Seq(SUBSET Nat) /\ Len(before) = StartLines
  <2>1. \A i \in 1..StartLines : {j \in 1..(i - 1) : key[j] = key[i]} \in SUBSET Nat
    BY <1>1
  <2>2. before \in [1..StartLines -> SUBSET Nat]
    BY <1>1, <2>1
  <2>3. before \in Seq(SUBSET Nat) /\ DOMAIN before = 1..StartLines
    BY <1>1, <2>2, SeqDef
  <2> QED BY <1>1, <2>3, LenProperties
<1>4. \A x \in Lines : \A y \in before[x] : y \in 1..(x - 1) /\ key[y] = key[x]
  BY <1>1, <1>2
<1>5. live # None /\ ToSet(live) = 1..StartLines
  <2>1. live # None
    <3>1. live \in Seq(Nat)
      BY <1>1, SeqDef
    <3> QED BY <3>1, NoneIsNoFile
  <2> QED BY <1>1, <2>1 DEF ToSet
<1>6. /\ m.pc = "idle" /\ ~m.cleaned /\ m.mine = <<>> /\ m.run = "none" /\ ~Rewriting
  BY <1>1 DEF Idle, Rewriting
<1>7. Names = {} /\ DOMAIN copies = {} /\ DOMAIN m.mine = {}
  <2>1. DOMAIN copies = {}
    BY <1>1
  <2>2. DOMAIN m.mine = {}
    BY <1>6
  <2> QED BY <2>1, <2>2 DEF Names
<1>8. File(1) = live /\ \A n \in Nat : n # 1 => File(n) = <<>>
  BY <1>1, <1>5, <1>7 DEF File, CopyLines
<1>9. \A n \in Nat : Row(n) = ToSet(File(n)) /\ (n # 1 => Row(n) = {})
  BY <1>0, <1>6, <1>8, FilesHold
<1>10. \A a \in Appenders : app[a].at = None /\ ~IsOpen(a)
  <2>1. None # Live
    BY NoneIsNoFile DEF Live
  <2> QED BY <1>1, <1>7, <2>1 DEF IsOpen
<1>11. History
  <2>1. \A x \in Lines : \A y \in before[x] : y \in done /\ key[y] = key[x]
    <3>1. \A x \in 1..StartLines : \A y \in 1..(x - 1) : y \in 1..StartLines
      BY <1>1
    <3> QED BY <1>1, <1>2, <1>4, <3>1
  <2>2. \A n \in Nat : ToSet(File(n)) \subseteq done
    BY <1>1, <1>5, <1>8, <1>9
  <2> QED BY <1>1, <1>2, <1>3, <1>10, <2>1, <2>2 DEF History
<1>12. LateBeganFirst
  BY <1>10 DEF LateBeganFirst
<1>13. RunInv
  BY <1>1, <1>6, <1>7 DEF RunInv, Active
<1>14. RoundsAreFresh /\ ResultIsOfCopies
  BY <1>6 DEF RoundsAreFresh, ResultIsOfCopies
<1>15. PICK r : r = [n \in Nat |-> IF n \in 1..StartLines THEN n ELSE 0]
  OBVIOUS
<1>16. Ranking(r)
  <2>1. r \in [Nat -> 0..StartLines]
    BY <1>1, <1>15
  <2> QED BY <1>1, <2>1 DEF Ranking
<1>17. Orders(r)
  <2>1. Ranks(r)
    <3>1. \A x \in 1..StartLines : \A y \in 1..(x - 1) : r[y] = y /\ r[x] = x /\ y < x
      BY <1>1, <1>15
    <3> QED BY <1>2, <1>4, <3>1 DEF Ranks
  <2>2. \A n \in Nat : Sorted(r, File(n))
    <3>1. Sorted(r, live)
      <4>1. \A i \in 1..StartLines : live[i] = i /\ r[i] = i /\ i \in Nat
        BY <1>1, <1>15
      <4>2. DOMAIN live = 1..StartLines
        BY <1>1
      <4> QED BY <4>1, <4>2 DEF Sorted
    <3>2. Sorted(r, <<>>)
      BY DEF Sorted
    <3> QED BY <1>8, <3>1, <3>2
  <2>3. NewComesLast(r)
    BY <1>9 DEF NewComesLast
  <2>4. LateComesFirst(r)
    BY <1>10 DEF LateComesFirst
  <2> QED BY <1>6, <2>1, <2>2, <2>3, <2>4 DEF Orders
<1> QED BY <1>0, <1>11, <1>12, <1>13, <1>14, <1>16, <1>17 DEF OrderInv, FramedInv

\* Every step keeps the store in order, with an order that goes on from the one before.
LEMMA OrderStep ==
  ASSUME SplitCleanup = FALSE
  PROVE  OrderInv /\ [Next]_vars => OrderGoesOn
<1> SUFFICES ASSUME OrderInv, [Next]_vars  PROVE OrderGoesOn
  OBVIOUS
<1>1. DoubleInv'
  BY DoubleStep DEF OrderInv, FramedInv
<1>2. RunInv'
  BY RunStep DEF OrderInv, FramedInv, DoubleInv
<1>3. CASE ReaderStep \/ UNCHANGED vars
  BY <1>1, <1>2, <1>3, ReaderTouchesNothing, UntouchedKeepsOrder
<1>4. ASSUME NEW a \in Appenders, Write(a)  PROVE OrderGoesOn
  BY <1>1, <1>2, <1>4, WriteKeepsOrder
<1>5. ASSUME NEW a \in Appenders, NEW k \in Keys, Open(a, k)  PROVE OrderGoesOn
  BY <1>1, <1>2, <1>5, OpenKeepsOrder
<1>6. CASE Rotate
  BY <1>1, <1>2, <1>6, RotateKeepsOrder
<1>7. CASE StartRewrite \/ StartMerge
  BY <1>1, <1>2, <1>7, StartsKeepOrder
<1>8. CASE Park \/ RestorePark
  BY <1>1, <1>2, <1>8, ParksKeepOrder
<1>9. CASE Look
  BY <1>1, <1>2, <1>9, LookKeepsOrder
<1>10. CASE WriteSurvivors
  BY <1>1, <1>2, <1>10, WriteSurvivorsKeepsOrder
<1>11. CASE Publish
  BY <1>1, <1>2, <1>11, PublishKeepsOrder
<1>12. CASE RestoreMove
  BY <1>1, <1>2, <1>12, RestoreMoveKeepsOrder
<1>13. CASE Archive
  BY <1>1, <1>2, <1>13, ArchiveKeepsOrder
<1>14. CASE Cleanup
  BY <1>1, <1>2, <1>14, CleanupKeepsOrder
<1>15. CASE Fault \/ Crash
  BY <1>1, <1>2, <1>15, TroubleKeepsOrder
<1> QED BY <1>3, <1>4, <1>5, <1>6, <1>7, <1>8, <1>9, <1>10, <1>11, <1>12, <1>13, <1>14, <1>15
        DEF Next, ReaderStep

\* A file that its ranks agree with has nothing older after something newer.
LEMMA OrderInvKeepsOrder == OrderInv => OrderKept
<1> SUFFICES ASSUME OrderInv, NEW f \in {live} \cup {copies[i].lines : i \in DOMAIN copies}, f # None,
                    NEW i \in DOMAIN f, NEW j \in DOMAIN f, i < j, key[f[i]] = key[f[j]], Older(f[j], f[i])
             PROVE  FALSE
  BY DEF OrderKept
<1>0. CopyInv /\ Types /\ NamesAreOwn /\ History
  BY DEF OrderInv, FramedInv, DoubleInv, CopyInv
<1>1. PICK r : Ranking(r) /\ Orders(r)
  BY DEF OrderInv
<1>2. \E n \in Nat : f = File(n)
  <2>1. CASE f = live
    BY <1>0, <2>1, NamesAreSmall DEF File
  <2>2. ASSUME NEW c \in DOMAIN copies, f = copies[c].lines  PROVE \E n \in Nat : f = File(n)
    <3>1. copies[c].name \in Names /\ CopyLines(copies[c].name) = copies[c].lines
      BY <1>0, CopyFound
    <3>2. copies[c].name \in Nat /\ copies[c].name # parks + 1
      BY <1>0, <3>1, NamesAreSmall
    <3>3. File(copies[c].name) = f
      BY <2>2, <3>1, <3>2 DEF File
    <3> QED BY <3>2, <3>3
  <2> QED BY <2>1, <2>2
<1>3. PICK n \in Nat : f = File(n)
  BY <1>2
<1>4. r[f[i]] <= r[f[j]]
  BY <1>1, <1>3 DEF Orders, Sorted
<1>5. f[i] \in Lines /\ f[j] \in Lines
  BY <1>0, <1>3 DEF History, ToSet
<1>6. r[f[j]] < r[f[i]]
  BY <1>1, <1>5 DEF Orders, Ranks, Older
<1>7. r[f[i]] \in Int /\ r[f[j]] \in Int
  <2>1. Lines \subseteq Nat
    BY <1>0, LenProperties DEF Types, Lines
  <2>2. PICK B \in Nat : r \in [Nat -> 0..B]
    BY <1>1 DEF Ranking
  <2>3. f[i] \in Nat /\ f[j] \in Nat
    BY <1>5, <2>1
  <2>4. r[f[i]] \in 0..B /\ r[f[j]] \in 0..B
    BY <2>2, <2>3
  <2> QED BY <2>4
<1> QED BY <1>4, <1>6, <1>7

\* "Older before newer": in the live file and in every copy, of two lines of a key the one
\* that was written before the other began comes first, whatever rewriteParked,
\* restoreRawUnion and mergeCompactionCopies moved, merged and put back, as long as the
\* removal of a run's copies is not split.
THEOREM OlderStaysBeforeNewer ==
  ASSUME SplitCleanup = FALSE
  PROVE  Spec => []OrderKept
<1>1. Init => OrderInv
  BY InitIsOrderInv
<1>2. OrderInv /\ [Next]_vars => OrderInv'
  <2>1. SUFFICES ASSUME OrderInv, [Next]_vars  PROVE OrderInv'
    OBVIOUS
  <2>2. OrderGoesOn
    BY <2>1, OrderStep
  <2>3. PICK q : Ranking(q) /\ Orders(q)'
    BY <2>1, <2>2 DEF OrderInv, OrderGoesOn
  <2>4. Ranking(q)'
    BY <2>3 DEF Ranking
  <2> QED BY <2>2, <2>3, <2>4 DEF OrderInv, OrderGoesOn
<1>3. OrderInv => OrderKept
  BY OrderInvKeepsOrder
<1> QED BY <1>1, <1>2, <1>3, PTL DEF Spec

-----------------------------------------------------------------------------
(* No line is lost: what stands for a line *)

\* What stands for a line among those of a rewrite's result.
StandsIn(r, x, S) ==
  \/ x \in S
  \/ m.run = "compact" /\ \E y \in S : key[y] = key[x] /\ r[x] <= r[y]
  \/ m.run = "window" /\ x < policy.since
\* The result has what stands for the lines of the copies; once it is in place, the live
\* file has what stands for those of the copies that the cleanup is to remove.
Placed(r) ==
  /\ m.pc = "publish" =>
       \A i \in DOMAIN m.mine : \A x \in ToSet(MineLines(i)) : StandsIn(r, x, ToSet(m.temp))
  /\ m.pc \in {"archive", "cleanup"} =>
       \A i \in DOMAIN m.mine : Removable(m.mine[i]) => \A x \in ToSet(MineLines(i)) :
         \/ x \in InFile(live)
         \/ /\ m.published /\ StandsIn(r, x, InFile(live))
            /\ policy.archive /\ m.run # "merge" /\ m.pc = "cleanup" => x \in archived
\* A line in the row of files that ranks as high, and the line itself.
Stood(r, x) == \E n \in Nat : \E y \in Row(n) : key[y] = key[x] /\ r[x] <= r[y]
Kept(x) == x \in archived \/ \E n \in Nat : x \in Row(n)
AllKept(r) ==
  \A x \in done :
    /\ policy.action = "compact" => Stood(r, x)
    /\ \/ Kept(x)
       \/ policy.action = "compact" /\ ~policy.archive
       \/ policy.action = "window" /\ ~policy.archive /\ x < policy.since
\* Nobody appends to a file that has lost its last name; nothing comes back between a
\* restore's look and its rename.
Quiet ==
  /\ \A a \in Appenders : app[a].at # None => IsOpen(a)
  /\ m.pc = "restore_move" => live = None
  /\ m.pc # "idle" => m.run # "none"
  /\ policy.since \in Nat
KeptInv == FramedInv /\ Quiet /\ \E r : Ranking(r) /\ Orders(r) /\ Placed(r) /\ AllKept(r)

\* Every line in a file is done.
LEMMA LinesAreDone ==
  ASSUME FramedInv
  PROVE  /\ done \subseteq Lines /\ Lines \subseteq Nat
         /\ \A n \in Nat : ToSet(File(n)) \subseteq done /\ Row(n) \subseteq done
         /\ \A i \in DOMAIN m.mine : ToSet(MineLines(i)) \subseteq done
         /\ InFile(live) \subseteq done /\ (m.pc = "publish" => ToSet(m.temp) \subseteq done)
<1>0. CopyInv /\ History /\ Types /\ ResultIsOfCopies
  BY DEF FramedInv, DoubleInv, CopyInv
<1>1. done \subseteq Lines /\ Lines \subseteq Nat
  BY <1>0, LenProperties DEF History, Types, Lines
<1>2. \A n \in Nat : ToSet(File(n)) \subseteq done /\ Row(n) \subseteq done
  BY <1>0, FilesHold DEF History
<1>3. \A i \in DOMAIN m.mine : ToSet(MineLines(i)) \subseteq done
  BY <1>0, <1>2, FilesHold, NamesAreSmall
<1>4. InFile(live) \subseteq done
  BY <1>0, <1>2, FilesHold
<1>5. m.pc = "publish" => ToSet(m.temp) \subseteq done
  BY <1>0, <1>3 DEF ResultIsOfCopies
<1> QED BY <1>1, <1>2, <1>3, <1>4, <1>5

\* The ranks of lines that are done are natural numbers.
LEMMA DoneIsRanked ==
  ASSUME FramedInv, NEW r, Ranking(r)
  PROVE  \A x \in done : r[x] \in Nat
<1>1. done \subseteq Nat
  BY LinesAreDone
<1> QED BY <1>1 DEF Ranking

\* A row that loses no line keeps them all.
LEMMA RowsGrow ==
  ASSUME FramedInv, FramedInv', NEW r, NEW q, Follows(q, r), Ranking(q), AllKept(r),
         UNCHANGED policy, archived \subseteq archived', \A y \in done : key'[y] = key[y],
         \A n \in Nat : Row(n) \subseteq Row(n)',
         \A x \in done' : x \in done \/ \E n \in Nat : x \in Row(n)'
  PROVE  AllKept(q)'
<1>1. SUFFICES ASSUME NEW x \in done'
               PROVE  /\ policy.action = "compact" => \E n \in Nat : \E y \in Row(n)' : key'[y] = key'[x] /\ q[x] <= q[y]
                      /\ \/ x \in archived' \/ \E n \in Nat : x \in Row(n)'
                         \/ policy.action = "compact" /\ ~policy.archive
                         \/ policy.action = "window" /\ ~policy.archive /\ x < policy.since
  BY DEF AllKept, Stood, Kept
<1>2. CASE x \in done
  <2>1. \A n \in Nat : Row(n) \subseteq done
    BY LinesAreDone
  <2>2. policy.action = "compact" => \E n \in Nat : \E y \in Row(n)' : key'[y] = key'[x] /\ q[x] <= q[y]
    <3>1. SUFFICES ASSUME policy.action = "compact"
                   PROVE  \E n \in Nat : \E y \in Row(n)' : key'[y] = key'[x] /\ q[x] <= q[y]
      OBVIOUS
    <3>a. PICK n \in Nat : \E y \in Row(n) : key[y] = key[x] /\ r[x] <= r[y]
      BY <1>2, <3>1 DEF AllKept, Stood
    <3>2. PICK y \in Row(n) : key[y] = key[x] /\ r[x] <= r[y]
      BY <3>a
    <3>3. y \in done /\ y \in Row(n)'
      BY <2>1, <3>2
    <3> QED BY <1>2, <3>2, <3>3 DEF Follows
  <2> QED BY <1>2, <2>2 DEF AllKept, Kept
<1>3. CASE \E n \in Nat : x \in Row(n)'
  <2>1. q[x] <= q[x]
    <3>1. \A y \in done' : y \in Nat
      <4>1. Len(key') \in Nat /\ done' \subseteq 1..Len(key')
        BY LenProperties DEF FramedInv, DoubleInv, CopyInv, Types, History, Lines
      <4> QED BY <4>1
    <3>2. PICK B \in Nat : q \in [Nat -> 0..B]
      BY DEF Ranking
    <3>3. q[x] \in 0..B
      BY <3>1, <3>2
    <3> QED BY <3>2, <3>3
  <2> QED BY <1>3, <2>1
<1> QED BY <1>1, <1>2, <1>3

\* A result that is not in use yet, or no more.
LEMMA NothingPlaced ==
  ASSUME m'.pc \notin {"publish", "archive", "cleanup"}, NEW q
  PROVE  Placed(q)'
BY DEF Placed

\* A result and its copies that stay what they are.
LEMMA PlacedStays ==
  ASSUME FramedInv, NEW r, NEW q, Follows(q, r), Placed(r),
         UNCHANGED policy, archived \subseteq archived', \A y \in done : key'[y] = key[y],
         m'.mine = m.mine, m'.run = m.run, m'.published = m.published, m'.temp = m.temp,
         \A i \in DOMAIN m.mine : ToSet(MineLines(i))' = ToSet(MineLines(i)),
         InFile(live) \subseteq InFile(live)',
         m'.pc = "publish" => m.pc = "publish",
         m'.pc \in {"archive", "cleanup"} => m.pc \in {"archive", "cleanup"},
         m'.pc = "cleanup" /\ m.pc = "archive" /\ m.published /\ policy.archive /\ m.run # "merge" =>
           \A i \in DOMAIN m.mine : ToSet(MineLines(i)) \subseteq archived'
  PROVE  Placed(q)'
<1>1. /\ \A i \in DOMAIN m.mine : ToSet(MineLines(i)) \subseteq done
      /\ InFile(live) \subseteq done /\ (m.pc = "publish" => ToSet(m.temp) \subseteq done)
  BY LinesAreDone
<1>2. ASSUME m'.pc = "publish", NEW i \in DOMAIN m.mine, NEW x \in ToSet(MineLines(i))
      PROVE  \/ x \in ToSet(m.temp)
             \/ m.run = "compact" /\ \E y \in ToSet(m.temp) : key'[y] = key'[x] /\ q[x] <= q[y]
             \/ m.run = "window" /\ x < policy.since
  <2>1. StandsIn(r, x, ToSet(m.temp)) /\ x \in done /\ ToSet(m.temp) \subseteq done
    BY <1>1, <1>2 DEF Placed
  <2> QED BY <2>1 DEF StandsIn, Follows
<1>3. ASSUME m'.pc \in {"archive", "cleanup"}, NEW i \in DOMAIN m.mine, Removable(m.mine[i]),
             NEW x \in ToSet(MineLines(i)), x \notin InFile(live)
      PROVE  /\ m.published
             /\ \/ x \in InFile(live)'
                \/ m.run = "compact" /\ \E y \in InFile(live)' : key'[y] = key'[x] /\ q[x] <= q[y]
                \/ m.run = "window" /\ x < policy.since
             /\ policy.archive /\ m.run # "merge" /\ m'.pc = "cleanup" => x \in archived'
  <2>1. /\ m.published /\ StandsIn(r, x, InFile(live)) /\ x \in done
        /\ policy.archive /\ m.run # "merge" /\ m.pc = "cleanup" => x \in archived
    BY <1>1, <1>3 DEF Placed
  <2>2. \/ x \in InFile(live)'
        \/ m.run = "compact" /\ \E y \in InFile(live)' : key'[y] = key'[x] /\ q[x] <= q[y]
        \/ m.run = "window" /\ x < policy.since
    BY <1>1, <2>1 DEF StandsIn, Follows
  <2>3. policy.archive /\ m.run # "merge" /\ m'.pc = "cleanup" => x \in archived'
    BY <1>3, <2>1
  <2> QED BY <2>1, <2>2, <2>3
<1>4. ToSet(m.temp)' = ToSet(m.temp)
  BY DEF ToSet
<1> QED BY <1>2, <1>3, <1>4 DEF Placed, StandsIn, Removable

-----------------------------------------------------------------------------
(* No line is lost: the survivors stand for the copies *)

\* What a pass leaves out has something to stand for it in the result.
LEMMA SurvivorsStand ==
  ASSUME OrderInv, Quiet, Rewriting, m.pc = "survivors", NEW r, Ranking(r), Orders(r),
         NEW i \in DOMAIN m.mine, NEW x \in ToSet(MineLines(i))
  PROVE  StandsIn(r, x, ToSet(Gather(Survivors)))
<1>0. CopyInv /\ RunInv /\ ~m.cleaned /\ FramedInv
  BY DEF OrderInv, FramedInv, DoubleInv, RunInv, Rewriting
<1>1. /\ Places(DOMAIN m.mine) \in SUBSET (Nat \X Nat) /\ IsFiniteSet(Places(DOMAIN m.mine))
      /\ \A p \in Places(DOMAIN m.mine) :
           /\ p[1] \in DOMAIN m.mine /\ p[2] \in DOMAIN MineLines(p[1]) /\ p = <<p[1], p[2]>>
           /\ LineAt(p) = MineLines(p[1])[p[2]] /\ LineAt(p) \in Nat
      /\ \A n \in DOMAIN m.mine : \A k \in DOMAIN MineLines(n) : <<n, k>> \in Places(DOMAIN m.mine)
  BY <1>0, PlacesHold DEF CopyInv
<1>2. \A p \in Survivors : LineAt(p) \in ToSet(Gather(Survivors))
  BY SurvivorsInOrder
<1>3. PICK k \in DOMAIN MineLines(i) : x = MineLines(i)[k]
  BY DEF ToSet
<1>4. PICK p \in Places(DOMAIN m.mine) : LineAt(p) = x
  BY <1>1, <1>3
<1>5. CASE p \in Survivors
  BY <1>2, <1>4, <1>5 DEF StandsIn
<1>6. CASE p \notin Survivors
  <2>1. p \in Indexed /\ ~Keep(p) /\ Indexed \subseteq Places(DOMAIN m.mine)
    BY <1>4, <1>6 DEF Survivors, Indexed
  <2>2. CASE m.run = "compact"
    <3>1. Own = DOMAIN m.mine
      BY <1>0, <2>2 DEF CopyInv, OnlyMergesAdopt
    <3>2. \A e, q \in Places(DOMAIN m.mine) :
            Precedes(e, q) /\ key[LineAt(e)] = key[LineAt(q)] => r[LineAt(e)] <= r[LineAt(q)]
      BY <1>0, <3>1, OwnIsFresh, PlacesInOrder
    <3> DEFINE P == {q \in Indexed : key[LineAt(q)] = key[x]}
    <3>3. P \in SUBSET (Nat \X Nat) /\ IsFiniteSet(P) /\ p \in P /\ \A q \in P : LineAt(q) \in Nat
      <4>1. P \in SUBSET Places(DOMAIN m.mine) /\ p \in P
        BY <1>4, <2>1
      <4> HIDE DEF P
      <4> QED BY <1>1, <4>1, FS_Subset
    <3>4. PICK f \in [1..Cardinality(P) -> P] :
            /\ \A j, l \in 1..Cardinality(P) : j < l => f[j] # f[l] /\ Precedes(f[j], f[l])
            /\ \A q \in P : \E j \in 1..Cardinality(P) : f[j] = q
      <4>1. P \in SUBSET (Nat \X Nat)
        BY <3>3
      <4>2. IsFiniteSet(P)
        BY <3>3
      <4>3. \A q \in P : LineAt(q) \in Nat
        BY <3>3
      <4> HIDE DEF P
      <4>4. PICK f \in [1..Cardinality(P) -> P] :
              /\ \A l \in 1..Cardinality(P) : Gather(P)[l] = LineAt(f[l])
              /\ \A j, l \in 1..Cardinality(P) : j < l => f[j] # f[l] /\ Precedes(f[j], f[l])
              /\ \A q \in P : \E j \in 1..Cardinality(P) : f[j] = q
        BY <4>1, <4>2, <4>3, GatherEnumerates
      <4> QED BY <4>4
    <3>5. Cardinality(P) \in Nat
      <4> HIDE DEF P
      <4> QED BY <3>3, FS_CardinalityType
    <3>6. PICK j \in 1..Cardinality(P) : f[j] = p
      BY <3>3, <3>4
    <3>7. Cardinality(P) \in 1..Cardinality(P)
      BY <3>5, <3>6
    <3>8. PICK q \in P : q = f[Cardinality(P)]
      BY <3>4, <3>7
    <3>9. \A e \in P : Precedes(e, q)
      <4>1. SUFFICES ASSUME NEW e \in P  PROVE Precedes(e, q)
        OBVIOUS
      <4>2. PICK l \in 1..Cardinality(P) : f[l] = e
        BY <3>4, <4>1
      <4>3. CASE l = Cardinality(P)
        <5>1. q[2] \in Nat /\ e = q
          BY <1>1, <2>1, <3>8, <4>2, <4>3
        <5> QED BY <5>1 DEF Precedes
      <4>4. CASE l < Cardinality(P)
        BY <3>4, <3>7, <3>8, <4>2, <4>4
      <4> QED BY <3>5, <4>2, <4>3, <4>4
    <3>10. q \in Indexed /\ key[LineAt(q)] = key[x] /\ q \in Places(DOMAIN m.mine)
      BY <2>1, <3>8
    <3>11. LastOfKey(q)
      <4>1. \A e \in Indexed : key[LineAt(e)] = key[LineAt(q)] => Precedes(e, q)
        BY <3>9, <3>10
      <4> QED BY <3>10, <4>1 DEF LastOfKey
    <3>12. q \in Survivors
      BY <2>2, <3>10, <3>11 DEF Survivors, Keep
    <3>13. r[x] <= r[LineAt(q)]
      BY <1>4, <3>2, <3>3, <3>9, <3>10
    <3> QED BY <1>2, <2>2, <3>10, <3>12, <3>13 DEF StandsIn
  <2>3. CASE m.run = "window"
    <3>1. ~(x >= policy.since)
      BY <1>4, <2>1, <2>3 DEF Keep
    <3>2. x \in Nat
      BY <1>1, <1>4
    <3> QED BY <2>3, <3>1, <3>2 DEF StandsIn, Quiet
  <2>4. CASE m.run = "merge"
    <3> DEFINE S == {n \in Nat : \E q \in Indexed : q[1] = n /\ LineAt(q) = x}
    <3>1. p[1] \in S
      BY <1>1, <1>4, <2>1
    <3>2. PICK n \in S : \A l \in S : n <= l
      <4> HIDE DEF S
      <4>1. S \in SUBSET Nat /\ S # {}
        BY <3>1 DEF S
      <4> QED BY <4>1, LeastNat
    <3>3. PICK q \in Indexed : q[1] = n /\ LineAt(q) = x
      BY <3>2
    <3>4. ~EarlierFile(q)
      <4>1. SUFFICES ASSUME NEW e \in Indexed, e[1] < q[1], LineAt(e) = LineAt(q)  PROVE FALSE
        BY DEF EarlierFile
      <4>2. e[1] \in Nat /\ e[1] \in S
        BY <1>1, <2>1, <3>3, <4>1
      <4> QED BY <3>2, <3>3, <4>1, <4>2
    <3>5. q \in Survivors
      BY <2>1, <2>4, <3>3, <3>4 DEF Survivors, Keep
    <3> QED BY <1>2, <3>3, <3>5 DEF StandsIn
  <2>5. m.run # "none"
    BY DEF Quiet
  <2> QED BY <1>0, <2>2, <2>3, <2>4, <2>5, MaintainerFields DEF CopyInv
<1> QED BY <1>5, <1>6

-----------------------------------------------------------------------------
(* No line is lost, step by step *)

KeepsAll ==
  /\ Quiet'
  /\ \A r, q : Ranking(r) /\ Orders(r) /\ Placed(r) /\ AllKept(r) /\ Ranking(q) /\ Follows(q, r) =>
       Placed(q)' /\ AllKept(q)'

\* Nobody is cut off by a step that moves no file.
LEMMA QuietStays ==
  ASSUME Quiet, UNCHANGED <<policy, app>>, Names' = Names,
         m'.pc = "restore_move" => live' = None, m'.pc # "idle" => m'.run # "none"
  PROVE  Quiet'
BY DEF Quiet, IsOpen

\* A run that starts, moves on, moves a file aside or ends.
LEMMA RowsStayKept ==
  ASSUME FramedInv, FramedInv', Quiet', RowsStay, UNCHANGED <<policy, archived>>,
         \/ m'.pc \notin {"publish", "archive", "cleanup"}
         \/ UNCHANGED <<m, live, copies>>
  PROVE  KeepsAll
<1>1. SUFFICES ASSUME NEW r, NEW q, Ranking(r), Placed(r), AllKept(r), Ranking(q), Follows(q, r)
               PROVE  Placed(q)' /\ AllKept(q)'
  BY DEF KeepsAll
<1>2. AllKept(q)'
  <2>1. \A n \in Nat : Row(n) \subseteq Row(n)'
    BY DEF RowsStay
  <2>2. UNCHANGED <<key, done>>
    BY DEF RowsStay
  <2> QED BY <1>1, <2>1, <2>2, RowsGrow
<1>3. CASE m'.pc \notin {"publish", "archive", "cleanup"}
  BY <1>2, <1>3, NothingPlaced
<1>4. CASE UNCHANGED <<m, live, copies>>
  <2>1. \A i \in DOMAIN m.mine : ToSet(MineLines(i))' = ToSet(MineLines(i))
    BY <1>4 DEF MineLines, CopyLines, Copy, Names, ToSet
  <2>2. InFile(live)' = InFile(live) /\ UNCHANGED key
    BY <1>4 DEF InFile, ToSet, RowsStay
  <2>3. Placed(q)'
    BY <1>1, <1>4, <2>1, <2>2, PlacedStays
  <2> QED BY <1>2, <2>3
<1> QED BY <1>3, <1>4

LEMMA UntouchedKeepsAll ==
  ASSUME OrderInv, FramedInv', Quiet, Untouched
  PROVE  KeepsAll
<1>1. RowsStay
  BY SameFilesAreSameRows DEF OrderInv, FramedInv, DoubleInv, Untouched
<1>2. Quiet'
  <2>1. Names' = Names
    BY DEF Untouched, Names
  <2> QED BY <2>1, QuietStays DEF Untouched, Quiet
<1> QED BY <1>1, <1>2, RowsStayKept DEF Untouched, OrderInv

\* A step of the maintainer before its result is in place that moves no file.
LEMMA MovingOnKeepsAll ==
  ASSUME OrderInv, FramedInv', Quiet, UNCHANGED <<policy, key, done, before, live, copies, parks, archived, app>>,
         ~m.cleaned, ~m'.cleaned, m'.pc \notin {"publish", "archive", "cleanup"},
         m'.pc = "restore_move" => live = None, m'.pc # "idle" => m'.run # "none"
  PROVE  KeepsAll
<1>1. RowsStay
  BY SameFilesAreSameRows DEF OrderInv, FramedInv, DoubleInv
<1>2. Quiet'
  <2>1. Names' = Names
    BY DEF Names
  <2> QED BY <2>1, QuietStays
<1> QED BY <1>1, <1>2, RowsStayKept DEF OrderInv

LEMMA ParkedKeepsAll ==
  ASSUME OrderInv, FramedInv', Quiet, UNCHANGED <<policy, key, done, before, archived>>, live # None,
         NEW pc \in {"look", "restore_move"}, Parked(pc), Rewriting
  PROVE  KeepsAll
<1>0. CopyInv /\ RunInv /\ History /\ Types /\ pc \in MaintainerPcs
  BY DEF OrderInv, FramedInv, DoubleInv, MaintainerPcs, CopyInv
<1>1. ~m.cleaned
  BY <1>0 DEF RunInv, Rewriting
<1>2. RowsStay
  BY <1>0, <1>1, ParkedIsSameRows
<1>3. /\ live \in Seq(Nat) /\ live' = None /\ app' = Follow(parks + 1) /\ m'.pc = pc /\ m'.run = m.run
      /\ parks' = parks + 1
  BY <1>0, ParkedJoins
<1>4. Names' = Names \cup {parks + 1}
  BY <1>0, <1>3, CopyAdded DEF CopyInv, Parked
<1>5. Quiet'
  <2>1. ASSUME NEW a \in Appenders, app'[a].at # None  PROVE IsOpen(a)'
    <3>1. CASE app[a].at = Live
      <4>1. app'[a] = [app[a] EXCEPT !.at = parks + 1]
        BY <1>3, <3>1 DEF Follow
      <4>2. app[a] \in [at : Int \cup {None}, line : Nat]
        BY <1>0 DEF Types
      <4>3. app'[a].at = parks + 1
        BY <4>1, <4>2
      <4> QED BY <1>4, <4>3 DEF IsOpen
    <3>2. CASE app[a].at # Live
      <4>1. app'[a] = app[a]
        BY <1>3, <3>2 DEF Follow
      <4> QED BY <1>4, <2>1, <3>2, <4>1 DEF IsOpen, Quiet
    <3> QED BY <3>1, <3>2
  <2>2. m.pc # "idle"
    BY DEF Rewriting
  <2> QED BY <1>3, <2>1, <2>2 DEF Quiet
<1> QED BY <1>2, <1>3, <1>5, RowsStayKept DEF OrderInv

LEMMA StartsKeepAll ==
  ASSUME OrderInv, FramedInv', Quiet, StartRewrite \/ StartMerge
  PROVE  KeepsAll
<1>0. CopyInv /\ Types
  BY DEF OrderInv, FramedInv, DoubleInv, CopyInv
<1>1. CASE StartRewrite
  <2>1. /\ UNCHANGED <<policy, key, done, before, live, copies, parks, archived, app>>
        /\ ~m.cleaned /\ ~m'.cleaned /\ m'.pc = "park" /\ m'.run = policy.action
    BY <1>1 DEF StartRewrite, MUnchanged, store, Idle
  <2>2. m'.run # "none"
    BY <1>0, <2>1 DEF Types
  <2> QED BY <2>1, <2>2, MovingOnKeepsAll
<1>2. CASE StartMerge
  <2>1. /\ UNCHANGED <<policy, key, done, before, store, app>> /\ m = Idle /\ m'.pc = "park" /\ m'.run = "merge"
    BY <1>0, <1>2, MergeAdopts
  <2>2. ~m.cleaned /\ ~m'.cleaned
    BY <2>1, <1>2 DEF StartMerge, Idle
  <2>3. UNCHANGED <<live, copies, parks, archived>>
    BY <2>1 DEF store
  <2> QED BY <2>1, <2>2, <2>3, MovingOnKeepsAll
<1> QED BY <1>1, <1>2

LEMMA ParksKeepAll ==
  ASSUME OrderInv, FramedInv', Quiet, Park \/ RestorePark
  PROVE  KeepsAll
<1>0. CopyInv /\ m \in Maintainer /\ RunInv
  BY DEF OrderInv, FramedInv, DoubleInv, CopyInv, Types
<1>1. /\ Rewriting /\ ~m.cleaned /\ m.pc \in {"park", "restore"}
      /\ UNCHANGED <<policy, key, done, before, archived>>
  BY <1>0 DEF Park, RestorePark, Rewriting, RunInv, MUnchanged
<1>2. CASE live # None
  BY <1>0, <1>1, <1>2, ParkedKeepsAll DEF Park, RestorePark
<1>3. CASE live = None
  <2>1. UNCHANGED <<live, copies, parks, app>>
    BY <1>3 DEF Park, RestorePark
  <2>2. \/ m' = Idle
        \/ m'.run = m.run /\ ~m'.cleaned /\ m'.pc \in {"look", "restore_move"}
    BY <1>0, <1>1, <1>3 DEF Park, RestorePark, Maintainer
  <2>3. m' = Idle => ~m'.cleaned /\ m'.pc = "idle"
    BY DEF Idle
  <2>4. m.run # "none"
    BY <1>1 DEF Quiet
  <2> QED BY <1>1, <1>3, <2>1, <2>2, <2>3, <2>4, MovingOnKeepsAll
<1> QED BY <1>2, <1>3

LEMMA LookKeepsAll ==
  ASSUME OrderInv, FramedInv', Quiet, Look
  PROVE  KeepsAll
<1>0. CopyInv /\ m \in Maintainer /\ RunInv
  BY DEF OrderInv, FramedInv, DoubleInv, CopyInv, Types
<1>1. ~m.cleaned /\ m.run # "none" /\ UNCHANGED <<policy, key, done, before, live, copies, parks, archived, app>>
  BY <1>0 DEF Look, RunInv, MUnchanged, store, Quiet
<1>2. m'.run = m.run /\ m'.cleaned = m.cleaned /\ m'.pc \in {"survivors", "park", "restore"}
  <2>1. CASE live = None
    BY <2>1, <1>0 DEF Look, Maintainer
  <2>2. CASE live # None
    BY <2>2, <1>0, NextRoundKeeps, NextRoundRemembers DEF Look
  <2> QED BY <2>1, <2>2
<1> QED BY <1>1, <1>2, MovingOnKeepsAll

LEMMA WriteSurvivorsKeepsAll ==
  ASSUME OrderInv, FramedInv', Quiet, WriteSurvivors
  PROVE  KeepsAll
<1>0. CopyInv /\ RunInv /\ FramedInv /\ History
  BY DEF OrderInv, FramedInv, DoubleInv
<1>1. /\ m.pc = "survivors" /\ m'.pc = "publish" /\ m'.temp = Gather(Survivors) /\ m'.mine = m.mine
      /\ m'.run = m.run /\ UNCHANGED <<policy, key, done, before, store, app>>
  BY <1>0, WriteSurvivorsChanges
<1>2. UNCHANGED <<live, copies, parks, archived>>
  BY <1>1 DEF store
<1>3. ~m.cleaned /\ ~m'.cleaned /\ Rewriting
  BY <1>0, <1>1 DEF RunInv, Rewriting, FramedInv
<1>4. RowsStay
  BY <1>0, <1>1, <1>2, <1>3, SameFilesAreSameRows
<1>5. Quiet'
  <2>1. Names' = Names
    BY <1>2 DEF Names
  <2> QED BY <1>1, <2>1, QuietStays DEF Quiet
<1>6. SUFFICES ASSUME NEW r, NEW q, Ranking(r), Orders(r), AllKept(r), Ranking(q), Follows(q, r)
               PROVE  Placed(q)' /\ AllKept(q)'
  BY <1>5 DEF KeepsAll
<1>7. AllKept(q)'
  <2>1. \A n \in Nat : Row(n) \subseteq Row(n)'
    BY <1>4 DEF RowsStay
  <2> QED BY <1>0, <1>1, <1>2, <1>6, <2>1, RowsGrow
<1>8. Placed(q)'
  <2>1. ASSUME NEW i \in DOMAIN m.mine, NEW x \in ToSet(MineLines(i))
        PROVE  \/ x \in ToSet(Gather(Survivors))
               \/ m.run = "compact" /\ \E y \in ToSet(Gather(Survivors)) : key[y] = key[x] /\ q[x] <= q[y]
               \/ m.run = "window" /\ x < policy.since
    <3>1. StandsIn(r, x, ToSet(Gather(Survivors)))
      BY <1>1, <1>3, <1>6, <2>1, SurvivorsStand
    <3>2. ToSet(Gather(Survivors)) \subseteq done /\ x \in done
      BY <1>0, <1>1, <1>3, <1>6, <2>1, SurvivorsInOrder, LinesAreDone
    <3> QED BY <1>6, <3>1, <3>2 DEF StandsIn, Follows
  <2>2. \A i \in DOMAIN m.mine : ToSet(MineLines(i))' = ToSet(MineLines(i))
    BY <1>1, <1>2 DEF MineLines, CopyLines, Copy, Names, ToSet
  <2>3. ToSet(m.temp)' = ToSet(Gather(Survivors))
    BY <1>1 DEF ToSet
  <2> QED BY <1>1, <2>1, <2>2, <2>3 DEF Placed, StandsIn
<1> QED BY <1>7, <1>8

-----------------------------------------------------------------------------
(* No line is lost: a result put in place *)

\* A result in place stands for the copies, while these are still there.
LEMMA PlacedKeepsAll ==
  ASSUME OrderInv, FramedInv', Quiet, live = None, live' \in Seq(Nat), app' = Follow(Gone),
         UNCHANGED <<policy, key, done, before, copies, parks, archived>>, ~m.cleaned, ~m'.cleaned,
         m'.pc \in {"archive", "cleanup"}, m'.mine = m.mine, m'.run = m.run, m.run # "none",
         \A r : Ranking(r) /\ Orders(r) /\ Placed(r) =>
           \A i \in DOMAIN m.mine : ~m.mine[i].adopted \/ m'.published => \A x \in ToSet(MineLines(i)) :
             \/ x \in ToSet(live')
             \/ m'.published /\ StandsIn(r, x, ToSet(live')) /\ m'.pc = "archive"
  PROVE  KeepsAll
<1>0. CopyInv /\ FramedInv
  BY DEF OrderInv, FramedInv, DoubleInv
<1>1. InFile(live) = {} /\ live' # None /\ InFile(live)' = ToSet(live')
  BY NoneIsNoFile DEF InFile, ToSet
<1>2. Quiet'
  <2>1. ASSUME NEW a \in Appenders, app'[a].at # None  PROVE IsOpen(a)'
    <3>1. app[a].at # Live
      BY <1>0 DEF CopyInv, OpenIsLive
    <3>2. app'[a] = app[a]
      BY <3>1 DEF Follow
    <3> QED BY <2>1, <3>1, <3>2 DEF Quiet, IsOpen, Names
  <2> QED BY <2>1 DEF Quiet
<1>3. SUFFICES ASSUME NEW r, NEW q, Ranking(r), Orders(r), Placed(r), AllKept(r), Ranking(q), Follows(q, r)
               PROVE  Placed(q)' /\ AllKept(q)'
  BY <1>2 DEF KeepsAll
<1>4. AllKept(q)'
  <2>1. ASSUME NEW n \in Nat  PROVE Row(n) \subseteq Row(n)'
    <3>1. n = parks + 1 => Row(n) = {}
      BY <1>0, <1>1, FilesHold
    <3> QED BY <1>0, <3>1, ResultJoins
  <2> QED BY <1>0, <1>3, <2>1, RowsGrow
<1>5. Placed(q)'
  <2>1. ASSUME NEW i \in DOMAIN m.mine, ~m.mine[i].adopted \/ m'.published, NEW x \in ToSet(MineLines(i)),
               x \notin ToSet(live')
        PROVE  /\ m'.published /\ m'.pc = "archive"
               /\ \/ m.run = "compact" /\ \E y \in ToSet(live') : key[y] = key[x] /\ q[x] <= q[y]
                  \/ m.run = "window" /\ x < policy.since
    <3>1. m'.published /\ StandsIn(r, x, ToSet(live')) /\ m'.pc = "archive"
      BY <1>3, <2>1
    <3>2. x \in done
      BY <1>0, <2>1, LinesAreDone
    <3>3. ToSet(live') \subseteq done
      <4>1. parks + 1 \in Nat /\ ToSet(File(parks + 1))' = ToSet(live')
        BY <1>0, FilesHold, ResultJoins
      <4>2. \A n \in Nat : ToSet(File(n))' \subseteq done'
        BY DEF FramedInv, History
      <4> QED BY <4>1, <4>2
    <3> QED BY <1>3, <2>1, <3>1, <3>2, <3>3 DEF StandsIn, Follows
  <2>2. \A i \in DOMAIN m.mine : ToSet(MineLines(i))' = ToSet(MineLines(i))
    BY DEF MineLines, CopyLines, Copy, Names, ToSet
  <2>3. \A i \in DOMAIN m.mine : Removable(m.mine[i])' <=> ~m.mine[i].adopted \/ m'.published
    BY DEF Removable
  <2> QED BY <1>1, <2>1, <2>2, <2>3 DEF Placed, StandsIn, Removable
<1> QED BY <1>4, <1>5

LEMMA PublishKeepsAll ==
  ASSUME OrderInv, FramedInv', Quiet, Publish
  PROVE  KeepsAll
<1>0. CopyInv /\ m \in Maintainer /\ RunInv
  BY DEF OrderInv, FramedInv, DoubleInv, CopyInv, Types
<1>1. m.pc = "publish" /\ ~m.cleaned /\ m.temp \in Seq(Nat) /\ m.run # "none"
  BY <1>0 DEF Publish, RunInv, Maintainer, Quiet
<1>2. UNCHANGED <<policy, key, done, before, copies, parks, archived>>
  BY DEF Publish, MUnchanged
<1>3. CASE CanPublish /\ live' = m.temp /\ app' = Follow(Gone)
           /\ m' = [m EXCEPT !.pc = "archive", !.temp = <<>>, !.published = TRUE, !.restored = TRUE]
  <2>1. /\ m'.pc = "archive" /\ m'.cleaned = m.cleaned /\ m'.mine = m.mine /\ m'.run = m.run /\ m'.published
    BY <1>0, <1>3 DEF Maintainer
  <2>2. live = None
    BY <1>3 DEF CanPublish
  <2>3. \A r : Placed(r) =>
           \A i \in DOMAIN m.mine : \A x \in ToSet(MineLines(i)) : StandsIn(r, x, ToSet(live'))
    BY <1>1, <1>3 DEF Placed
  <2> QED BY <1>1, <1>2, <1>3, <2>1, <2>2, <2>3, PlacedKeepsAll
<1>4. CASE ~CanPublish /\ m' = NextRound([m EXCEPT !.temp = <<>>]) /\ UNCHANGED <<live, app>>
  <2>1. PICK mm \in Maintainer : mm = [m EXCEPT !.temp = <<>>]
    BY <1>0, EmptySeq DEF Maintainer
  <2>2. mm.run = m.run /\ mm.cleaned = m.cleaned
    BY <1>0, <2>1 DEF Maintainer
  <2>3. m'.run = mm.run /\ m'.cleaned = mm.cleaned /\ m'.pc \in {"park", "restore"}
    BY <1>4, <2>1, NextRoundKeeps, NextRoundRemembers
  <2> QED BY <1>1, <1>2, <1>4, <2>2, <2>3, MovingOnKeepsAll
<1> QED BY <1>3, <1>4 DEF Publish

LEMMA RestoreMoveKeepsAll ==
  ASSUME OrderInv, FramedInv', Quiet, RestoreMove
  PROVE  KeepsAll
<1>0. CopyInv /\ m \in Maintainer /\ RunInv /\ FramedInv
  BY DEF OrderInv, FramedInv, DoubleInv, CopyInv, Types
<1>1. m.pc = "restore_move" /\ Rewriting /\ ~m.cleaned /\ m.run # "none" /\ live = None /\ ~m.published
  BY <1>0 DEF RestoreMove, RunInv, Rewriting, Quiet
<1>2. UNCHANGED <<policy, key, done, before, copies, parks, archived>>
  BY DEF RestoreMove, MUnchanged
<1>3. /\ m'.pc \in {"cleanup", "archive"} /\ m'.cleaned = m.cleaned /\ m'.mine = m.mine /\ m'.run = m.run
      /\ ~m'.published
  BY <1>0, <1>1 DEF RestoreMove, AfterRestore, Maintainer
<1>4. CASE Own = {}
  <2>1. UNCHANGED <<live, app>>
    BY <1>4 DEF RestoreMove
  <2>2. RowsStay
    BY <1>0, <1>1, <1>2, <1>3, <2>1, SameFilesAreSameRows DEF FramedInv
  <2>3. Quiet'
    <3>1. Names' = Names
      BY <1>2 DEF Names
    <3> QED BY <1>1, <1>2, <1>3, <2>1, <3>1, QuietStays
  <2>4. SUFFICES ASSUME NEW r, NEW q, AllKept(r), Ranking(q), Follows(q, r)
                 PROVE  Placed(q)' /\ AllKept(q)'
    BY <2>3 DEF KeepsAll
  <2>5. AllKept(q)'
    <3>1. \A n \in Nat : Row(n) \subseteq Row(n)'
      BY <2>2 DEF RowsStay
    <3> QED BY <1>0, <1>2, <2>4, <3>1, RowsGrow
  <2>6. \A i \in DOMAIN m.mine : ~Removable(m.mine[i])'
    BY <1>3, <1>4 DEF Own, Removable
  <2>7. Placed(q)'
    BY <1>3, <2>6 DEF Placed, Removable
  <2> QED BY <2>5, <2>7
<1>5. CASE Own # {}
  <2>1. live' = Gather(Places(Own)) /\ app' = Follow(Gone)
    BY <1>5 DEF RestoreMove
  <2>2. live' \in Seq(Nat)
    BY <1>0, <2>1, OwnHold
  <2>3. ASSUME NEW r, Ranking(r), Orders(r), NEW i \in DOMAIN m.mine, ~m.mine[i].adopted, NEW x \in ToSet(MineLines(i))
        PROVE  x \in ToSet(live')
    <3>1. i \in Own
      BY <2>3 DEF Own
    <3> QED BY <1>1, <2>1, <2>3, <3>1, OwnInOrder
  <2> QED BY <1>1, <1>2, <1>3, <2>1, <2>2, <2>3, PlacedKeepsAll
<1> QED BY <1>4, <1>5

\* The archive takes all lines of the copies.
LEMMA ArchiveKeepsAll ==
  ASSUME OrderInv, FramedInv', Quiet, Archive
  PROVE  KeepsAll
<1>0. CopyInv /\ m \in Maintainer /\ RunInv /\ FramedInv
  BY DEF OrderInv, FramedInv, DoubleInv, CopyInv, Types
<1>1. /\ m.pc = "archive" /\ m'.pc = "cleanup" /\ m'.mine = m.mine /\ m'.run = m.run /\ m'.published = m.published
      /\ m'.temp = m.temp /\ ~m.cleaned /\ ~m'.cleaned /\ m.run # "none"
      /\ UNCHANGED <<policy, key, done, before, live, copies, parks, app>>
  BY <1>0 DEF Archive, Maintainer, RunInv, MUnchanged, Quiet
<1>2. RowsStay
  BY <1>0, <1>1, SameFilesAreSameRows DEF FramedInv
<1>3. Quiet'
  <2>1. Names' = Names
    BY <1>1 DEF Names
  <2> QED BY <1>1, <2>1, QuietStays
<1>4. /\ archived \subseteq archived'
      /\ policy.archive /\ m.run # "merge" => \A i \in DOMAIN m.mine : ToSet(MineLines(i)) \subseteq archived'
  <2>1. SUFFICES ASSUME policy.archive, m.run # "merge", NEW i \in DOMAIN m.mine, NEW x \in ToSet(MineLines(i))
                 PROVE  x \in archived'
    BY DEF Archive, Archives
  <2>2. PICK k \in DOMAIN MineLines(i) : x = MineLines(i)[k]
    BY DEF ToSet
  <2>3. <<i, k>> \in Places(DOMAIN m.mine) /\ LineAt(<<i, k>>) = MineLines(i)[k]
    BY <1>0, PlacesHold DEF CopyInv
  <2> QED BY <2>1, <2>2, <2>3 DEF Archive, Archives
<1>5. SUFFICES ASSUME NEW r, NEW q, Ranking(r), Orders(r), Placed(r), AllKept(r), Ranking(q), Follows(q, r)
               PROVE  Placed(q)' /\ AllKept(q)'
  BY <1>3 DEF KeepsAll
<1>6. AllKept(q)'
  <2>1. \A n \in Nat : Row(n) \subseteq Row(n)'
    BY <1>2 DEF RowsStay
  <2> QED BY <1>0, <1>1, <1>4, <1>5, <2>1, RowsGrow
<1>7. Placed(q)'
  <2>1. \A i \in DOMAIN m.mine : ToSet(MineLines(i))' = ToSet(MineLines(i))
    BY <1>1 DEF MineLines, CopyLines, Copy, Names, ToSet
  <2>2. InFile(live)' = InFile(live)
    BY <1>1 DEF InFile, ToSet
  <2> QED BY <1>0, <1>1, <1>4, <1>5, <2>1, <2>2, PlacedStays
<1> QED BY <1>6, <1>7

-----------------------------------------------------------------------------
(* No line is lost: files that go *)

LEMMA RotateKeepsAll ==
  ASSUME OrderInv, FramedInv', Quiet, Rotate
  PROVE  KeepsAll
<1>0. CopyInv
  BY DEF OrderInv, FramedInv, DoubleInv
<1>1. /\ UNCHANGED <<policy, key, done, before, parks, app, copies, m>> /\ m = Idle /\ live' = None
      /\ \A a \in Appenders : app[a].at # Live
      /\ archived' = archived \cup InFile(live) /\ policy.action = "rotate"
  BY DEF Rotate, MUnchanged
<1>2. m.pc = "idle" /\ ~m.cleaned
  BY <1>1 DEF Idle
<1>3. Quiet'
  <2>1. Names' = Names
    BY <1>1 DEF Names
  <2> QED BY <1>1, <1>2, <2>1, QuietStays
<1>4. SUFFICES ASSUME NEW r, NEW q, AllKept(r)  PROVE Placed(q)' /\ AllKept(q)'
  BY <1>3 DEF KeepsAll
<1>5. Placed(q)'
  BY <1>1, <1>2, NothingPlaced
<1>6. ASSUME NEW n \in Nat, NEW x \in Row(n)  PROVE x \in archived' \/ x \in Row(n)'
  <2>1. CASE n = parks + 1
    BY <1>0, <1>1, <1>6, <2>1, FilesHold
  <2>2. CASE n # parks + 1
    <3>1. File(n)' = File(n)
      BY <1>1, <2>2 DEF File, CopyLines, Copy, Names
    <3> QED BY <1>1, <1>2, <1>6, <3>1 DEF Row, Stays, ToSet
  <2> QED BY <2>1, <2>2
<1>7. AllKept(q)'
  BY <1>1, <1>4, <1>6 DEF AllKept, Kept
<1> QED BY <1>5, <1>7

\* What is to be removed is in the live file, or archived or out of the window, or
\* something in the live file stands for it.
LEMMA RemovedIsStoodFor ==
  ASSUME FramedInv, Quiet, m.pc = "cleanup", NEW r, Placed(r), NEW n \in Removables, NEW x \in ToSet(File(n))
  PROVE  \/ x \in InFile(live)
         \/ /\ policy.action = "compact" /\ (policy.archive => x \in archived)
            /\ \E y \in InFile(live) : key[y] = key[x] /\ r[x] <= r[y]
         \/ policy.action = "window" /\ (policy.archive => x \in archived) /\ x < policy.since
<1>0. CopyInv /\ RunInv
  BY DEF FramedInv, DoubleInv
<1>1. PICK i \in DOMAIN m.mine : Removable(m.mine[i]) /\ n = m.mine[i].name
  BY DEF Removables
<1>2. x \in ToSet(MineLines(i))
  <2>1. n \in Nat /\ MineLines(i) = File(n)
    BY <1>0, <1>1, FilesHold, NamesAreSmall
  <2> QED BY <2>1
<1>3. \/ x \in InFile(live)
      \/ StandsIn(r, x, InFile(live)) /\ (policy.archive /\ m.run # "merge" => x \in archived)
  BY <1>1, <1>2 DEF Placed
<1>4. m.run \in {"compact", "window"} => m.run = policy.action
  BY <1>0 DEF RunInv
<1> QED BY <1>3, <1>4 DEF StandsIn

\* A copy goes only when the live file stands for it.
LEMMA CleanupKeepsAll ==
  ASSUME OrderInv, FramedInv', Quiet, Cleanup
  PROVE  KeepsAll
<1>0. CopyInv /\ RunInv /\ FramedInv
  BY DEF OrderInv, FramedInv, DoubleInv
<1>1. UNCHANGED <<policy, key, done, before, live, parks, archived, app, trouble>>
  BY <1>0, CleanupChanges
<1>2. CASE CleanedUp
  <2>1. RowsStay
    BY <1>0, <1>1, <1>2, SameFilesAreSameRows DEF CleanedUp, FramedInv
  <2>2. m'.pc = "idle" /\ Names' = Names
    BY <1>2 DEF CleanedUp, Idle, Names
  <2>3. Quiet'
    BY <1>1, <2>2, QuietStays
  <2> QED BY <1>0, <1>1, <2>1, <2>2, <2>3, RowsStayKept
<1>3. ASSUME NEW c \in DOMAIN m.mine, Removes(c)  PROVE KeepsAll
  <2>1. /\ m'.pc = "cleanup" /\ m'.cleaned /\ m'.published = m.published /\ m.pc = "cleanup"
        /\ \A n \in Nat : Row(n)' = IF n \in Removables THEN {} ELSE Row(n)
    BY <1>0, <1>1, <1>3, RemovalDropsRows
  <2>2. /\ m'.run = m.run
        /\ \A k : CopyLines(k)' = IF k = m.mine[c].name THEN <<>> ELSE CopyLines(k)
        /\ \A i \in DOMAIN m'.mine : m'.mine[i] = m.mine[Skip(c, i)] /\ Skip(c, i) \in DOMAIN m.mine \ {c}
    BY <1>0, <1>3, RemovalLeaves
  <2>3. Quiet'
    <3>1. \A a \in Appenders : app[a].at # None => app[a].at = Live
      BY <1>0, <2>1 DEF Quiet, IsOpen, RunInv, NoStragglers
    <3>2. \A a \in Appenders : app'[a].at # None => IsOpen(a)'
      BY <1>1, <3>1 DEF IsOpen
    <3> QED BY <1>1, <2>1, <2>2, <3>2 DEF Quiet
  <2>4. SUFFICES ASSUME NEW r, NEW q, Ranking(r), Placed(r), AllKept(r), Ranking(q), Follows(q, r)
                 PROVE  Placed(q)' /\ AllKept(q)'
    BY <2>3 DEF KeepsAll
  <2>5. Placed(q)'
    <3>1. ASSUME NEW i \in DOMAIN m'.mine, ~m'.mine[i].adopted \/ m'.published,
                 NEW x \in ToSet(MineLines(i))', x \notin InFile(live)
          PROVE  /\ m.published /\ (policy.archive /\ m.run # "merge" => x \in archived)
                 /\ \/ m.run = "compact" /\ \E y \in InFile(live) : key[y] = key[x] /\ q[x] <= q[y]
                    \/ m.run = "window" /\ x < policy.since
      <4>1. PICK k \in DOMAIN m.mine : m'.mine[i] = m.mine[k]
        BY <2>2, <3>1
      <4>2. Removable(m.mine[k])
        BY <2>1, <3>1, <4>1 DEF Removable
      <4>3. x \in ToSet(MineLines(k))
        <5>1. MineLines(i)' = MineLines(k) \/ MineLines(i)' = <<>>
          BY <2>2, <4>1 DEF MineLines
        <5> QED BY <3>1, <5>1 DEF ToSet
      <4>4. /\ m.published /\ StandsIn(r, x, InFile(live))
            /\ policy.archive /\ m.run # "merge" => x \in archived
        BY <2>1, <2>4, <3>1, <4>2, <4>3 DEF Placed
      <4>5. x \in done /\ InFile(live) \subseteq done
        BY <1>0, <4>3, LinesAreDone
      <4> QED BY <2>4, <3>1, <4>4, <4>5 DEF StandsIn, Follows
    <3>2. InFile(live)' = InFile(live)
      BY <1>1 DEF InFile, ToSet
    <3> QED BY <1>1, <2>1, <2>2, <3>1, <3>2 DEF Placed, StandsIn, Removable
  <2>6. AllKept(q)'
    <3>1. CASE m.cleaned
      <4>1. \A n \in Nat : Row(n) \subseteq Row(n)'
        BY <2>1, <3>1 DEF Row, Stays
      <4> QED BY <1>0, <1>1, <2>4, <4>1, RowsGrow
    <3>2. CASE ~m.cleaned
      <4>0. PICK l \in Nat : l = parks + 1
        BY <1>0, FilesHold
      <4>1. Row(l) = InFile(live) /\ Row(l)' = InFile(live)
        <5>1. Row(l) = InFile(live) /\ l \notin Names
          BY <1>0, <4>0, FilesHold, NamesAreSmall
        <5>2. Removables \subseteq Names
          BY <1>0, MineIsNamed DEF Removables
        <5> QED BY <2>1, <5>1, <5>2
      <4>2. SUFFICES ASSUME NEW x \in done
                     PROVE  /\ policy.action = "compact" =>
                                 \E n \in Nat : \E y \in Row(n)' : key[y] = key[x] /\ q[x] <= q[y]
                            /\ \/ x \in archived \/ \E n \in Nat : x \in Row(n)'
                               \/ policy.action = "compact" /\ ~policy.archive
                               \/ policy.action = "window" /\ ~policy.archive /\ x < policy.since
        BY <1>1 DEF AllKept, Stood, Kept
      <4>3. \A n \in Nat : Row(n) \subseteq done /\ Row(n) \subseteq ToSet(File(n))
        BY <1>0, FilesHold, LinesAreDone
      <4>4. InFile(live) \subseteq done
        BY <4>1, <4>3
      <4>5. \A y \in done : q[y] = r[y] /\ r[y] \in Nat
        BY <1>0, <2>4, DoneIsRanked DEF Follows
      <4>6. ASSUME policy.action = "compact"
            PROVE  \E n \in Nat : \E y \in Row(n)' : key[y] = key[x] /\ q[x] <= q[y]
        <5>1. PICK n \in Nat : \E y \in Row(n) : key[y] = key[x] /\ r[x] <= r[y]
          BY <2>4, <4>2, <4>6 DEF AllKept, Stood
        <5>2. PICK y \in Row(n) : key[y] = key[x] /\ r[x] <= r[y]
          BY <5>1
        <5>3. y \in done
          BY <4>3, <5>2
        <5>4. CASE n \notin Removables
          <6>1. y \in Row(n)'
            BY <2>1, <5>2, <5>4
          <6> QED BY <4>2, <4>5, <5>2, <5>3, <6>1
        <5>5. CASE n \in Removables
          <6>1. \E z \in InFile(live) : key[z] = key[y] /\ r[y] <= r[z]
            BY <1>0, <2>1, <2>4, <4>3, <4>5, <4>6, <5>2, <5>3, <5>5, RemovedIsStoodFor
          <6>2. PICK z \in InFile(live) : key[z] = key[y] /\ r[y] <= r[z]
            BY <6>1
          <6>3. z \in done /\ r[x] <= r[z]
            BY <4>2, <4>4, <4>5, <5>2, <5>3, <6>2
          <6> QED BY <4>1, <4>2, <4>5, <5>2, <6>2, <6>3
        <5> QED BY <5>4, <5>5
      <4>7. ASSUME NEW n \in Nat, x \in Row(n)
            PROVE  \/ x \in archived \/ \E h \in Nat : x \in Row(h)'
                   \/ policy.action = "compact" /\ ~policy.archive
                   \/ policy.action = "window" /\ ~policy.archive /\ x < policy.since
        <5>1. CASE n \notin Removables
          BY <2>1, <4>7, <5>1
        <5>2. CASE n \in Removables
          BY <1>0, <2>1, <2>4, <4>1, <4>3, <4>7, <5>2, RemovedIsStoodFor
        <5> QED BY <5>1, <5>2
      <4> QED BY <2>4, <4>2, <4>6, <4>7 DEF AllKept, Kept
    <3> QED BY <3>1, <3>2
  <2> QED BY <2>5, <2>6
<1> QED BY <1>0, <1>2, <1>3, CleanupChanges

\* A failure or a death leaves the files as they are.
LEMMA TroubleKeepsAll ==
  ASSUME OrderInv, FramedInv', Quiet, Fault \/ Crash, SplitCleanup = FALSE
  PROVE  KeepsAll
<1>0. CopyInv /\ RunInv /\ FramedInv /\ History
  BY DEF OrderInv, FramedInv, DoubleInv
<1>1. UNCHANGED <<policy, key, done, before, live, copies, parks, archived, app>>
  BY <1>0, FaultIsWhole DEF Crash, hist, store
<1>2. Names' = Names
  BY <1>1 DEF Names
<1>3. CASE m' = Idle /\ (~m.cleaned \/ AllRemoved)
  <2>1. RowsStay
    BY <1>0, <1>1, <1>3, SameFilesAreSameRows DEF AllRemoved
  <2>2. m'.pc = "idle"
    BY <1>3 DEF Idle
  <2>3. Quiet'
    BY <1>1, <1>2, <2>2, QuietStays
  <2> QED BY <1>0, <1>1, <2>1, <2>2, <2>3, RowsStayKept
<1>4. CASE Rewriting /\ m'.pc = "restore" /\ m'.run = m.run /\ m'.cleaned = m.cleaned
  <2>1. ~m.cleaned /\ m.run # "none"
    BY <1>0, <1>4 DEF RunInv, Rewriting, Quiet
  <2> QED BY <1>1, <1>4, <2>1, MovingOnKeepsAll
<1>5. CASE /\ m.pc = "archive" /\ m'.pc = "cleanup" /\ m'.mine = m.mine /\ m'.run = m.run
           /\ m'.cleaned = m.cleaned /\ m'.published = m.published /\ m'.temp = m.temp
           /\ ~(m.published /\ policy.archive /\ m.run # "merge")
  <2>1. ~m.cleaned /\ m.run # "none"
    BY <1>0, <1>5 DEF RunInv, Quiet
  <2>2. RowsStay
    BY <1>0, <1>1, <1>5, <2>1, SameFilesAreSameRows
  <2>3. Quiet'
    BY <1>1, <1>2, <1>5, <2>1, QuietStays
  <2>4. SUFFICES ASSUME NEW r, NEW q, Placed(r), AllKept(r), Ranking(q), Follows(q, r)
                 PROVE  Placed(q)' /\ AllKept(q)'
    BY <2>3 DEF KeepsAll
  <2>5. AllKept(q)'
    <3>1. \A n \in Nat : Row(n) \subseteq Row(n)'
      BY <2>2 DEF RowsStay
    <3> QED BY <1>0, <1>1, <2>4, <3>1, RowsGrow
  <2>6. Placed(q)'
    <3>1. \A i \in DOMAIN m.mine : ToSet(MineLines(i))' = ToSet(MineLines(i))
      BY <1>1, <1>5 DEF MineLines, CopyLines, Copy, Names, ToSet
    <3>2. InFile(live)' = InFile(live)
      BY <1>1 DEF InFile, ToSet
    <3> QED BY <1>0, <1>1, <1>5, <2>4, <3>1, <3>2, PlacedStays
  <2> QED BY <2>5, <2>6
<1>6. CASE Crash
  BY <1>3, <1>6 DEF Crash
<1>7. ASSUME ~m.cleaned, NEW c \in DOMAIN m.mine, PassesOver(c)  PROVE KeepsAll
  <2>1. /\ m'.pc = "cleanup" /\ m'.run = m.run /\ m'.published = m.published /\ ~m'.cleaned
        /\ \A i \in DOMAIN m'.mine : m'.mine[i] = m.mine[Skip(c, i)] /\ Skip(c, i) \in DOMAIN m.mine
    BY <1>0, <1>7, PassingOverLeaves
  <2>2. m.pc = "cleanup"
    BY <1>7 DEF PassesOver
  <2>3. RowsStay
    BY <1>0, <1>1, <1>7, <2>1, SameFilesAreSameRows
  <2>4. Quiet'
    BY <1>1, <1>2, <2>1, <2>2, QuietStays DEF Quiet
  <2>5. SUFFICES ASSUME NEW r, NEW q, Ranking(r), Placed(r), AllKept(r), Ranking(q), Follows(q, r)
                 PROVE  Placed(q)' /\ AllKept(q)'
    BY <2>4 DEF KeepsAll
  <2>6. AllKept(q)'
    <3>1. \A n \in Nat : Row(n) \subseteq Row(n)'
      BY <2>3 DEF RowsStay
    <3> QED BY <1>0, <1>1, <2>5, <3>1, RowsGrow
  <2>7. Placed(q)'
    <3>1. ASSUME NEW i \in DOMAIN m'.mine, ~m'.mine[i].adopted \/ m'.published,
                 NEW x \in ToSet(MineLines(i))', x \notin InFile(live)
          PROVE  /\ m.published /\ (policy.archive /\ m.run # "merge" => x \in archived)
                 /\ \/ m.run = "compact" /\ \E y \in InFile(live) : key[y] = key[x] /\ q[x] <= q[y]
                    \/ m.run = "window" /\ x < policy.since
      <4>1. PICK k \in DOMAIN m.mine : m'.mine[i] = m.mine[k]
        BY <2>1, <3>1
      <4>2. Removable(m.mine[k])
        BY <2>1, <3>1, <4>1 DEF Removable
      <4>3. x \in ToSet(MineLines(k))
        <5>1. MineLines(i)' = MineLines(k)
          BY <1>1, <4>1 DEF MineLines, CopyLines, Copy, Names
        <5> QED BY <3>1, <5>1 DEF ToSet
      <4>4. /\ m.published /\ StandsIn(r, x, InFile(live))
            /\ policy.archive /\ m.run # "merge" => x \in archived
        BY <2>2, <2>5, <3>1, <4>2, <4>3 DEF Placed
      <4>5. x \in done /\ InFile(live) \subseteq done
        BY <1>0, <4>3, LinesAreDone
      <4> QED BY <2>5, <3>1, <4>4, <4>5 DEF StandsIn, Follows
    <3>2. InFile(live)' = InFile(live)
      BY <1>1 DEF InFile, ToSet
    <3> QED BY <1>1, <2>1, <3>1, <3>2 DEF Placed, StandsIn, Removable
  <2> QED BY <2>6, <2>7
<1>9. CASE Fault
  <2>1. m.pc = "archive" /\ m'.pc = "cleanup" => m'.temp = m.temp
    <3>1. Idle.pc = "idle"
      BY IdleIsTyped
    <3> QED BY <1>0, <1>9, <3>1, FaultChanges DEF PassesOver
  <2> QED BY <1>0, <1>3, <1>4, <1>5, <1>7, <1>9, <2>1, FaultIsWhole
<1> QED BY <1>6, <1>9

-----------------------------------------------------------------------------
(* No line is lost: appends *)

\* A line is only cut off from the store by an append in the middle of a restore, which is
\* where it could be lost.
LEMMA OpenKeepsAll ==
  ASSUME AppendInRestore = FALSE, OrderInv, FramedInv', Quiet, NEW a \in Appenders, NEW k \in Keys, Open(a, k)
  PROVE  KeepsAll
<1>0. CopyInv /\ FramedInv /\ Types
  BY DEF OrderInv, FramedInv, DoubleInv, CopyInv
<1>1. /\ key' = Append(key, k) /\ live' = (IF live = None THEN <<>> ELSE live)
      /\ app' = [app EXCEPT ![a] = [at |-> Live, line |-> Len(key) + 1]]
      /\ UNCHANGED <<policy, copies, parks, archived, m, done>> /\ m.pc # "restore_move"
  BY DEF Open
<1>2. <<>> # None
  BY NoneIsNoFile, EmptySeq
<1>3. Names' = Names /\ \A n \in Nat : Row(n)' = Row(n)
  <2>1. Names' = Names /\ \A n : CopyLines(n)' = CopyLines(n)
    BY <1>1 DEF Names, CopyLines, Copy
  <2>2. \A n \in Nat : File(n)' = File(n)
    BY <1>1, <1>2, <2>1 DEF File
  <2> QED BY <1>1, <2>1, <2>2 DEF Row, Stays, Removables, Removable
<1>4. \A y \in done : key'[y] = key[y]
  <2>1. done \subseteq 1..Len(key)
    BY <1>0, LinesAreDone DEF Lines
  <2> QED BY <1>0, <1>1, <2>1, AppendProperties DEF Types
<1>5. Quiet'
  <2>1. app'[a] = [at |-> Live, line |-> Len(key) + 1] /\ \A b \in Appenders : b # a => app'[b] = app[b]
    BY <1>0, <1>1 DEF Types
  <2>2. app'[a].at = Live
    BY <2>1
  <2> QED BY <1>1, <1>3, <2>1, <2>2 DEF Quiet, IsOpen
<1>6. SUFFICES ASSUME NEW r, NEW q, Placed(r), AllKept(r), Ranking(q), Follows(q, r)
               PROVE  Placed(q)' /\ AllKept(q)'
  BY <1>5 DEF KeepsAll
<1>7. AllKept(q)'
  BY <1>0, <1>1, <1>3, <1>4, <1>6, RowsGrow
<1>8. Placed(q)'
  <2>1. \A i \in DOMAIN m.mine : ToSet(MineLines(i))' = ToSet(MineLines(i))
    BY <1>1 DEF MineLines, CopyLines, Copy, Names, ToSet
  <2>2. InFile(live) \subseteq InFile(live)'
    BY <1>1 DEF InFile, ToSet
  <2> QED BY <1>0, <1>1, <1>4, <1>6, <2>1, <2>2, PlacedStays
<1> QED BY <1>7, <1>8

\* A line that is written is in the live file or a copy; no copy that has been read for
\* the last time gets one.
LEMMA WriteKeepsAll ==
  ASSUME OrderInv, FramedInv', Quiet, NEW a \in Appenders, Write(a)
  PROVE  KeepsAll
<1>0. CopyInv /\ FramedInv /\ RunInv /\ Types
  BY DEF OrderInv, FramedInv, DoubleInv, CopyInv
<1>1. /\ app[a].line \in Nat /\ app'[a].at = None /\ UNCHANGED <<key, before, m, parks>>
      /\ done' = done \cup {app[a].line} /\ Names' = Names
      /\ \A b \in Appenders : b # a => app'[b] = app[b]
      /\ \A n \in Nat : File(n)' = IF IsOpen(a) /\ n = OpenAt(a) THEN Append(File(n), app[a].line) ELSE File(n)
      /\ IsOpen(a) => Stays(OpenAt(a)) /\ OpenAt(a) \in Nat
  BY WriteJoins
<1>2. /\ UNCHANGED <<policy, archived>> /\ app[a].at # None /\ (live' = None <=> live = None)
      /\ live' = IF app[a].at = Live THEN Append(live, app[a].line) ELSE live
      /\ app[a].at = Live => live \in Seq(Nat)
      /\ \A k : CopyLines(k)' = IF k \in Names /\ k = app[a].at
                                THEN Append(CopyLines(k), app[a].line) ELSE CopyLines(k)
  BY <1>0, WriteChanges DEF Write
<1>3. IsOpen(a)
  BY <1>2 DEF Quiet
<1>4. Quiet'
  BY <1>1, <1>2 DEF Quiet, IsOpen
<1>5. ASSUME NEW n \in Nat
      PROVE  Row(n) \subseteq Row(n)' /\ (n = OpenAt(a) => app[a].line \in Row(n)')
  <2>1. Stays(n)' = Stays(n)
    BY <1>1 DEF Stays, Removables, Removable
  <2>2. File(n) \in Seq(Nat)
    BY <1>0, FilesHold
  <2>3. CASE n = OpenAt(a)
    <3>1. File(n)' = Append(File(n), app[a].line)
      BY <1>1, <1>3, <2>3
    <3>2. ToSet(File(n))' = ToSet(File(n)) \cup {app[a].line}
      <4>1. ToSet(File(n))' = ToSet(Append(File(n), app[a].line))
        BY <3>1 DEF ToSet
      <4> QED BY <1>1, <2>2, <4>1, AppendedLine
    <3> QED BY <1>1, <1>3, <2>1, <2>3, <3>2 DEF Row
  <2>4. CASE n # OpenAt(a)
    <3>1. File(n)' = File(n)
      BY <1>1, <2>4
    <3> QED BY <2>1, <2>4, <3>1 DEF Row, ToSet
  <2> QED BY <2>3, <2>4
<1>6. SUFFICES ASSUME NEW r, NEW q, Placed(r), AllKept(r), Ranking(q), Follows(q, r)
               PROVE  Placed(q)' /\ AllKept(q)'
  BY <1>4 DEF KeepsAll
<1>7. AllKept(q)'
  <2>1. PICK n \in Nat : app[a].line \in Row(n)'
    <3>1. PICK n \in Nat : n = OpenAt(a)
      BY <1>1, <1>3
    <3> QED BY <1>5, <3>1
  <2>2. \A x \in done' : x \in done \/ \E h \in Nat : x \in Row(h)'
    BY <1>1, <2>1
  <2> QED BY <1>0, <1>1, <1>2, <1>5, <1>6, <2>2, RowsGrow
<1>8. Placed(q)'
  <2>1. CASE m.pc \in {"publish", "archive", "cleanup"}
    <3>1. app[a].at \notin Names
      BY <1>0, <2>1 DEF RunInv, NoStragglers
    <3>2. \A i \in DOMAIN m.mine : MineLines(i)' = MineLines(i)
      BY <1>1, <1>2, <3>1 DEF MineLines
    <3>3. \A i \in DOMAIN m.mine : ToSet(MineLines(i))' = ToSet(MineLines(i))
      BY <3>2 DEF ToSet
    <3>4. InFile(live) \subseteq InFile(live)'
      <4>1. CASE app[a].at = Live
        <5>1. live # None /\ live' # None /\ live' = Append(live, app[a].line) /\ live \in Seq(Nat)
          BY <1>2, <4>1, NoneIsNoFile
        <5>2. ToSet(live) \subseteq ToSet(Append(live, app[a].line))
          BY <1>1, <5>1, AppendedLine
        <5>3. InFile(live)' = ToSet(Append(live, app[a].line))
          BY <5>1 DEF InFile, ToSet
        <5> QED BY <5>1, <5>2, <5>3 DEF InFile
      <4>2. CASE app[a].at # Live
        BY <1>2, <4>2 DEF InFile, ToSet
      <4> QED BY <4>1, <4>2
    <3> QED BY <1>0, <1>1, <1>2, <1>6, <3>3, <3>4, PlacedStays
  <2>2. CASE m.pc \notin {"publish", "archive", "cleanup"}
    BY <1>1, <2>2, NothingPlaced
  <2> QED BY <2>1, <2>2
<1> QED BY <1>7, <1>8
-----------------------------------------------------------------------------
(* No line is lost *)

LEMMA InitIsKeptInv == Init => KeptInv
<1> SUFFICES ASSUME Init  PROVE KeptInv
  OBVIOUS
<1>1. OrderInv
  BY InitIsOrderInv
<1>2. CopyInv /\ FramedInv
  BY <1>1 DEF OrderInv, FramedInv, DoubleInv
<1>3. PICK r : Ranking(r) /\ Orders(r)
  BY <1>1 DEF OrderInv
<1>4. m.pc = "idle" /\ \A a \in Appenders : app[a].at = None
  BY DEF Init, Idle
<1>5. Quiet
  <2>1. policy.since \in Nat
    BY StoreAssumption DEF Init
  <2> QED BY <1>4, <2>1 DEF Quiet
<1>6. Placed(r)
  BY <1>4 DEF Placed
<1>7. AllKept(r)
  <2>1. SUFFICES ASSUME NEW x \in done  PROVE \E n \in Nat : x \in Row(n) /\ r[x] <= r[x]
    BY DEF AllKept, Stood, Kept
  <2>2. x \in InFile(live)
    <3>1. live = [i \in 1..StartLines |-> i] /\ x \in 1..StartLines
      BY DEF Init
    <3>2. live # None
      <4>1. live \in Seq(Nat) \cup {None} /\ live \in Seq(Nat)
        BY <3>1, StoreAssumption, IsASeq DEF CopyInv, Types
      <4> QED BY <4>1, NoneIsNoFile
    <3> QED BY <3>1, <3>2 DEF InFile, ToSet
  <2>3. parks + 1 \in Nat /\ Row(parks + 1) = InFile(live)
    BY <1>2, FilesHold
  <2>4. r[x] \in Nat
    BY <1>2, <1>3, DoneIsRanked
  <2> QED BY <2>2, <2>3, <2>4
<1> QED BY <1>2, <1>3, <1>5, <1>6, <1>7 DEF KeptInv

\* Every step keeps all lines, by the order that it goes on with.
LEMMA KeptStep ==
  ASSUME AppendInRestore = FALSE, SplitCleanup = FALSE
  PROVE  OrderInv /\ Quiet /\ [Next]_vars => OrderGoesOn /\ KeepsAll
<1> SUFFICES ASSUME OrderInv, Quiet, [Next]_vars  PROVE OrderGoesOn /\ KeepsAll
  OBVIOUS
<1>1. OrderGoesOn
  BY OrderStep
<1>2. FramedInv'
  BY <1>1 DEF OrderGoesOn
<1>3. CASE ReaderStep \/ UNCHANGED vars
  BY <1>1, <1>2, <1>3, ReaderTouchesNothing, UntouchedKeepsAll
<1>4. ASSUME NEW a \in Appenders, Write(a)  PROVE KeepsAll
  BY <1>2, <1>4, WriteKeepsAll
<1>5. ASSUME NEW a \in Appenders, NEW k \in Keys, Open(a, k)  PROVE KeepsAll
  BY <1>2, <1>5, OpenKeepsAll
<1>6. CASE Rotate
  BY <1>1, <1>2, <1>6, RotateKeepsAll
<1>7. CASE StartRewrite \/ StartMerge
  BY <1>1, <1>2, <1>7, StartsKeepAll
<1>8. CASE Park \/ RestorePark
  BY <1>1, <1>2, <1>8, ParksKeepAll
<1>9. CASE Look
  BY <1>1, <1>2, <1>9, LookKeepsAll
<1>10. CASE WriteSurvivors
  BY <1>1, <1>2, <1>10, WriteSurvivorsKeepsAll
<1>11. CASE Publish
  BY <1>1, <1>2, <1>11, PublishKeepsAll
<1>12. CASE RestoreMove
  BY <1>1, <1>2, <1>12, RestoreMoveKeepsAll
<1>13. CASE Archive
  BY <1>1, <1>2, <1>13, ArchiveKeepsAll
<1>14. CASE Cleanup
  BY <1>1, <1>2, <1>14, CleanupKeepsAll
<1>15. CASE Fault \/ Crash
  BY <1>1, <1>2, <1>15, TroubleKeepsAll
<1> QED BY <1>1, <1>3, <1>4, <1>5, <1>6, <1>7, <1>8, <1>9, <1>10, <1>11, <1>12, <1>13, <1>14, <1>15
        DEF Next, ReaderStep

\* Every file of the row is one that the store holds.
LEMMA FilesAreHeld ==
  ASSUME CopyInv
  PROVE  \A n \in Nat : ToSet(File(n)) \subseteq Held
<1>1. SUFFICES ASSUME NEW n \in Nat, NEW x \in ToSet(File(n))  PROVE x \in Held
  OBVIOUS
<1>2. CASE n = parks + 1
  BY <1>1, <1>2, FilesHold DEF Held
<1>3. CASE n # parks + 1
  <2>1. File(n) = CopyLines(n) /\ (n \notin Names => File(n) = <<>>) /\ ToSet(<<>>) = {}
    BY <1>3, FilesHold
  <2>2. n \in Names
    BY <1>1, <2>1
  <2>3. Copy(n) \in DOMAIN copies /\ CopyLines(n) = copies[Copy(n)].lines
    BY <2>2, CopyFound DEF CopyInv
  <2> QED BY <1>1, <2>1, <2>3 DEF Held
<1> QED BY <1>2, <1>3

\* What ranks as high as a line is not older than it.
LEMMA KeptInvLosesNothing == KeptInv => NoLineLost
<1> SUFFICES ASSUME KeptInv, NEW x \in done
             PROVE  \/ x \in Held \cup archived
                    \/ policy.action = "compact" /\ ~policy.archive
                         /\ \E y \in Held : key[y] = key[x] /\ ~Older(y, x)
                    \/ policy.action = "window" /\ ~policy.archive /\ x < policy.since
  BY DEF NoLineLost
<1>1. CopyInv /\ FramedInv
  BY DEF KeptInv, FramedInv, DoubleInv
<1>2. PICK r : Ranking(r) /\ Orders(r) /\ AllKept(r)
  BY DEF KeptInv
<1>3. \A n \in Nat : Row(n) \subseteq Held /\ Row(n) \subseteq done
  BY <1>1, FilesAreHeld, FilesHold, LinesAreDone
<1>4. CASE policy.action = "compact"
  <2>1. PICK n \in Nat : \E y \in Row(n) : key[y] = key[x] /\ r[x] <= r[y]
    BY <1>2, <1>4 DEF AllKept, Stood
  <2>2. PICK y \in Row(n) : key[y] = key[x] /\ r[x] <= r[y]
    BY <2>1
  <2>3. ~Older(y, x)
    <3>1. x \in Lines /\ y \in done /\ r[x] \in Nat /\ r[y] \in Nat
      BY <1>1, <1>2, <1>3, LinesAreDone, DoneIsRanked
    <3> QED BY <1>2, <2>2, <3>1 DEF Orders, Ranks, Older
  <2>4. y \in Held
    BY <1>3, <2>2
  <2>5. CASE policy.archive
    BY <1>2, <1>3, <1>4, <2>5 DEF AllKept, Kept
  <2> QED BY <1>4, <2>2, <2>3, <2>4, <2>5
<1>5. CASE policy.action # "compact"
  BY <1>2, <1>3, <1>5 DEF AllKept, Kept
<1> QED BY <1>4, <1>5

\* No acknowledged line disappears: it stays in the live file, a copy, an archive or a
\* segment unless the policy takes it out, and then something of its key that is not
\* older stays, whatever maintenance fails or dies at, as long as no line is appended in
\* the middle of a restore and the removal of a run's copies is not split.
THEOREM LinesAreNotLost ==
  ASSUME AppendInRestore = FALSE, SplitCleanup = FALSE
  PROVE  Spec => []NoLineLost
<1>1. Init => KeptInv
  BY InitIsKeptInv
<1>2. KeptInv /\ [Next]_vars => KeptInv'
  <2>1. SUFFICES ASSUME KeptInv, [Next]_vars  PROVE KeptInv'
    OBVIOUS
  <2>2. PICK r : Ranking(r) /\ Orders(r) /\ Placed(r) /\ AllKept(r)
    BY <2>1 DEF KeptInv
  <2>3. OrderGoesOn /\ KeepsAll
    <3>1. OrderInv /\ Quiet
      BY <2>1 DEF KeptInv, OrderInv
    <3> QED BY <2>1, <3>1, KeptStep
  <2>4. PICK q : Ranking(q) /\ Orders(q)' /\ Follows(q, r)
    BY <2>2, <2>3 DEF OrderGoesOn
  <2>5. Placed(q)' /\ AllKept(q)' /\ Quiet'
    BY <2>2, <2>3, <2>4 DEF KeepsAll
  <2>6. Ranking(q)' /\ FramedInv'
    BY <2>3, <2>4 DEF Ranking, OrderGoesOn
  <2> QED BY <2>4, <2>5, <2>6 DEF KeptInv
<1>3. KeptInv => NoLineLost
  BY KeptInvLosesNothing
<1> QED BY <1>1, <1>2, <1>3, PTL DEF Spec

-----------------------------------------------------------------------------
(* The reader: what it goes by *)

Reader ==
  [pc : {"idle", "read", "relist", "seen", "gave up"}, listed : SUBSET Nat, todo : Seq(Nat),
   last : [Keys -> Nat \cup {None}], must : SUBSET Nat, round : Nat, missed : BOOLEAN]
\* A reader goes through the copies it has listed in the order they were parked in.
Reading ==
  /\ reader \in Reader
  /\ reader.pc # "idle" => policy.action = "compact" /\ reader.must \subseteq done
  /\ \A k \in Keys : reader.last[k] # None => reader.last[k] \in done /\ key[reader.last[k]] = k
  /\ \A n \in reader.listed : n <= parks
  /\ \A i \in DOMAIN reader.todo : reader.todo[i] \in reader.listed
  /\ \A i, j \in DOMAIN reader.todo : i < j => reader.todo[i] < reader.todo[j]
  /\ reader.pc = "read" =>
       \A n \in reader.listed : \A i \in DOMAIN reader.todo : n > reader.todo[i] => n \in ToSet(reader.todo)

\* Of the lines of a key in a file, one ranks as high as any in the files before it.
LastIsBest(r) ==
  policy.action = "compact" =>
    \A n \in Nat : \A h \in Nat : \A x \in ToSet(File(h)) : \A z \in ToSet(File(n)) :
      h < n /\ key[z] = key[x] => \E y \in ToSet(File(n)) : key[y] = key[x] /\ r[x] <= r[y]
\* A line that ranks as high has been read, or is in a file that is yet to be read.
Found(r, x) == reader.last[key[x]] # None /\ r[x] <= r[reader.last[key[x]]]
Standing(r, x, n) == \E y \in ToSet(File(n)) : key[y] = key[x] /\ r[x] <= r[y]
Ahead == ToSet(reader.todo) \cup {parks + 1}
Fair == ~reader.missed /\ Names \subseteq reader.listed
ReaderFinds(r) ==
  /\ reader.pc = "read" /\ Fair => \A x \in reader.must : Found(r, x) \/ \E n \in Ahead : Standing(r, x, n)
  /\ reader.pc = "relist" /\ Fair => \A x \in reader.must : Found(r, x)
  /\ reader.pc = "seen" /\ ~reader.missed => \A x \in reader.must : Found(r, x)
Guides(r) == /\ Placed(r) /\ AllKept(r) /\ LastIsBest(r) /\ ReaderFinds(r)
             /\ \A n \in Nat : Sorted(r, File(n))
ReadInv == FramedInv /\ Quiet /\ Reading /\ \E r : Ranking(r) /\ Orders(r) /\ Guides(r)

\* What a reader is yet to read is among what it has listed.
LEMMA TodoIsListed ==
  ASSUME Reading
  PROVE  ToSet(reader.todo) \subseteq reader.listed /\ reader.listed \subseteq Nat /\ ToSet(reader.todo) \subseteq Nat
<1>1. reader.listed \subseteq Nat
  BY DEF Reading, Reader
<1>2. ToSet(reader.todo) \subseteq reader.listed
  BY DEF Reading, ToSet
<1> QED BY <1>1, <1>2

\* What holds by an order holds by one that follows it.
LEMMA GuidesFollow ==
  ASSUME FramedInv, Reading, NEW r, NEW q, Follows(q, r), Guides(r)
  PROVE  Guides(q)
<1>1. /\ \A n \in Nat : ToSet(File(n)) \subseteq done /\ Row(n) \subseteq done
      /\ \A i \in DOMAIN m.mine : ToSet(MineLines(i)) \subseteq done
      /\ InFile(live) \subseteq done /\ (m.pc = "publish" => ToSet(m.temp) \subseteq done)
  BY LinesAreDone
<1>2. \A x \in done : q[x] = r[x]
  BY DEF Follows
<1>3. Placed(q)
  <2>1. ASSUME NEW i \in DOMAIN m.mine, NEW x \in ToSet(MineLines(i)), NEW S \in SUBSET done, StandsIn(r, x, S)
        PROVE  StandsIn(q, x, S)
    <3>1. x \in done
      BY <1>1, <2>1
    <3> QED BY <1>2, <2>1, <3>1 DEF StandsIn
  <2> QED BY <1>1, <2>1 DEF Guides, Placed
<1>4. AllKept(q)
  <2>1. \A x \in done : Stood(r, x) => Stood(q, x)
    BY <1>1, <1>2 DEF Stood
  <2> QED BY <2>1 DEF Guides, AllKept
<1>5. LastIsBest(q)
  <2>1. ASSUME NEW n \in Nat, NEW x \in done, \E y \in ToSet(File(n)) : key[y] = key[x] /\ r[x] <= r[y]
        PROVE  \E y \in ToSet(File(n)) : key[y] = key[x] /\ q[x] <= q[y]
    BY <1>1, <1>2, <2>1
  <2> QED BY <1>1, <2>1 DEF Guides, LastIsBest
<1>6. ReaderFinds(q)
  <2>1. CASE reader.pc = "idle"
    BY <2>1 DEF ReaderFinds
  <2>2. CASE reader.pc # "idle"
    <3>1. reader.must \subseteq done
      BY <2>2 DEF Reading
    <3>2. \A x \in done : Found(r, x) => Found(q, x)
      <4>1. \A x \in done : key[x] \in Keys
        <5>1. done \subseteq 1..Len(key) /\ key \in Seq(Keys)
          BY LinesAreDone DEF Lines, FramedInv, DoubleInv, CopyInv, Types
        <5> QED BY <5>1, ElementOfSeq
      <4> QED BY <1>2, <4>1 DEF Found, Reading
    <3>3. \A x \in done : \A n \in Nat : Standing(r, x, n) => Standing(q, x, n)
      BY <1>1, <1>2 DEF Standing
    <3>4. Ahead \subseteq Nat
      <4>1. ToSet(reader.todo) \subseteq Nat
        BY TodoIsListed
      <4>2. parks + 1 \in Nat
        BY FilesHold DEF FramedInv, DoubleInv
      <4> QED BY <4>1, <4>2 DEF Ahead
    <3> QED BY <3>1, <3>2, <3>3, <3>4 DEF Guides, ReaderFinds
  <2> QED BY <2>1, <2>2
<1>7. \A n \in Nat : Sorted(q, File(n))
  <2>1. ASSUME NEW n \in Nat  PROVE Sorted(q, File(n))
    <3>1. \A i \in DOMAIN File(n) : q[File(n)[i]] = r[File(n)[i]]
      BY <1>1, <1>2 DEF ToSet
    <3> QED BY <3>1 DEF Guides, Sorted
  <2> QED BY <2>1
<1> QED BY <1>3, <1>4, <1>5, <1>6, <1>7 DEF Guides

ReadingGoesOn ==
  Reading' /\ \A q : Ranking(q) /\ Guides(q) /\ Orders(q)' => LastIsBest(q)' /\ ReaderFinds(q)'
LinesLast == \A y \in done : key'[y] = key[y] /\ y \in done'

\* Files that only go keep their order.
LEMMA BestStays ==
  ASSUME FramedInv, NEW q, LastIsBest(q), UNCHANGED policy, LinesLast,
         \A n \in Nat : ToSet(File(n))' = ToSet(File(n)) \/ ToSet(File(n))' = {}
  PROVE  LastIsBest(q)'
<1>1. SUFFICES ASSUME policy.action = "compact", NEW n \in Nat, NEW h \in Nat, NEW x \in ToSet(File(h))',
                      NEW z \in ToSet(File(n))', h < n, key'[z] = key'[x]
               PROVE  \E y \in ToSet(File(n))' : key'[y] = key'[x] /\ q[x] <= q[y]
  BY DEF LastIsBest
<1>2. ToSet(File(n))' = ToSet(File(n)) /\ x \in ToSet(File(h))
  BY <1>1
<1>3. \A g \in Nat : \A y \in ToSet(File(g)) : key'[y] = key[y]
  BY LinesAreDone DEF LinesLast
<1>4. \E y \in ToSet(File(n)) : key[y] = key[x] /\ q[x] <= q[y]
  BY <1>1, <1>2, <1>3 DEF LastIsBest
<1> QED BY <1>2, <1>3, <1>4

\* A reader that others do not disturb.
LEMMA ReadingStays ==
  ASSUME FramedInv, Reading, UNCHANGED <<policy, reader>>, LinesLast, parks' \in Nat, parks' >= parks
  PROVE  Reading'
<1>1. parks \in Nat /\ reader.listed \subseteq Nat
  BY NamesAreSmall DEF FramedInv, DoubleInv, Reading, Reader
<1>2. \A k \in Keys : reader.last[k] # None => reader.last[k] \in done' /\ key'[reader.last[k]] = k
  BY DEF Reading, LinesLast
<1>3. \A n \in reader.listed : n <= parks'
  BY <1>1 DEF Reading
<1>4. reader.pc # "idle" => policy.action = "compact" /\ reader.must \subseteq done'
  BY DEF Reading, LinesLast
<1>5. ToSet(reader.todo)' = ToSet(reader.todo)
  BY DEF ToSet
<1> QED BY <1>2, <1>3, <1>4, <1>5 DEF Reading

\* What a reader has found or will find stays so while its files only grow.
LEMMA FindsStays ==
  ASSUME FramedInv, Reading, NEW q, ReaderFinds(q), UNCHANGED reader, LinesLast, UNCHANGED parks, Names \subseteq Names',
         \A n \in Nat : ToSet(File(n)) \subseteq ToSet(File(n))'
  PROVE  ReaderFinds(q)'
<1>1. CASE reader.pc = "idle"
  BY <1>1 DEF ReaderFinds
<1>2. CASE reader.pc # "idle"
  <2>1. \A x \in reader.must : x \in done /\ key'[x] = key[x]
    BY <1>2 DEF Reading, LinesLast
  <2>2. \A x \in reader.must : Found(q, x) => Found(q, x)'
    BY <2>1 DEF Found
  <2>3. \A n \in Nat : \A y \in ToSet(File(n)) : key'[y] = key[y]
    BY LinesAreDone DEF LinesLast
  <2>4. \A x \in reader.must : \A n \in Nat : Standing(q, x, n) => Standing(q, x, n)'
    BY <2>1, <2>3 DEF Standing
  <2>5. Ahead' = Ahead /\ Ahead \subseteq Nat
    <3>1. parks + 1 \in Nat
      BY FilesHold DEF FramedInv, DoubleInv
    <3>2. ToSet(reader.todo)' = ToSet(reader.todo)
      BY DEF ToSet
    <3> QED BY <3>1, <3>2, TodoIsListed DEF Ahead
  <2>6. Fair' => Fair
    BY DEF Fair
  <2> QED BY <2>2, <2>4, <2>5, <2>6 DEF ReaderFinds
<1> QED BY <1>1, <1>2

\* A step that changes no line of a file does not disturb a reader.
LEMMA SameFilesKeepReading ==
  ASSUME FramedInv, Reading, UNCHANGED <<policy, reader, copies, parks>>, LinesLast, InFile(live)' = InFile(live)
  PROVE  ReadingGoesOn
<1>1. parks \in Nat /\ CopyInv
  BY NamesAreSmall DEF FramedInv, DoubleInv
<1>2. Names' = Names /\ \A n : CopyLines(n)' = CopyLines(n)
  BY DEF Names, CopyLines, Copy
<1>3. ASSUME NEW n \in Nat  PROVE ToSet(File(n))' = ToSet(File(n))
  <2>1. CASE n = parks + 1
    <3>1. ToSet(<<>>) = {}
      BY DEF ToSet
    <3>2. ToSet(File(n)) = InFile(live)
      BY <2>1, <3>1 DEF File, InFile
    <3>3. ToSet(File(n))' = InFile(live)'
      BY <2>1, <3>1 DEF File, InFile, ToSet
    <3> QED BY <3>2, <3>3
  <2>2. CASE n # parks + 1
    <3>1. File(n)' = File(n)
      BY <1>2, <2>2 DEF File
    <3> QED BY <3>1 DEF ToSet
  <2> QED BY <2>1, <2>2
<1>4. Reading'
  BY <1>1, ReadingStays
<1>5. ASSUME NEW q, Guides(q)  PROVE LastIsBest(q)' /\ ReaderFinds(q)'
  <2>1. LastIsBest(q)'
    BY <1>3, <1>5, BestStays DEF Guides
  <2>2. ReaderFinds(q)'
    BY <1>2, <1>3, <1>5, FindsStays DEF Guides
  <2> QED BY <2>1, <2>2
<1> QED BY <1>4, <1>5 DEF ReadingGoesOn

-----------------------------------------------------------------------------
(* The reader, step by step *)

\* A file moved aside is one that the reader has not listed.
LEMMA ParkedKeepsReading ==
  ASSUME FramedInv, Reading, UNCHANGED <<policy, key, done, before, reader>>, live # None,
         NEW pc \in {"look", "restore_move"}, Parked(pc), Rewriting
  PROVE  ReadingGoesOn
<1>0. CopyInv /\ RunInv /\ History /\ Types /\ pc \in MaintainerPcs
  BY DEF FramedInv, DoubleInv, MaintainerPcs, CopyInv
<1>1. ~m.cleaned
  BY <1>0 DEF RunInv, Rewriting
<1>2. RowsStay
  BY <1>0, <1>1, ParkedIsSameRows
<1>3. live \in Seq(Nat) /\ parks' = parks + 1 /\ parks \in Nat
  BY <1>0, ParkedJoins, NamesAreSmall
<1>4. Names' = Names \cup {parks + 1}
  BY <1>0, <1>3, CopyAdded DEF CopyInv, Parked
<1>5. LinesLast
  BY DEF LinesLast
<1>6. Reading'
  BY <1>3, <1>5, ReadingStays
<1>7. ~Fair'
  <2>1. parks + 1 \notin reader.listed
    BY <1>3 DEF Reading
  <2> QED BY <1>4, <2>1 DEF Fair
<1>8. ASSUME NEW q, Guides(q)  PROVE LastIsBest(q)' /\ ReaderFinds(q)'
  <2>1. \A n \in Nat : ToSet(File(n))' = ToSet(File(n))
    <3>1. ASSUME NEW n \in Nat  PROVE ToSet(File(n))' = ToSet(File(n))
      <4>1. File(n)' = File(n)
        BY <1>2 DEF RowsStay
      <4> QED BY <4>1 DEF ToSet
    <3> QED BY <3>1
  <2>2. LastIsBest(q)'
    BY <1>5, <1>8, <2>1, BestStays DEF Guides
  <2>3. ReaderFinds(q)'
    BY <1>7, <1>8 DEF Guides, ReaderFinds, Found
  <2> QED BY <2>2, <2>3
<1> QED BY <1>6, <1>8 DEF ReadingGoesOn

\* A result has a line for every one in the files before it that it has the key of.
LEMMA PlacedKeepsReading ==
  ASSUME FramedInv, Reading, UNCHANGED <<policy, key, done, copies, parks, reader>>,
         live = None, live' \in Seq(Nat), ~m.cleaned, ~m'.cleaned,
         \A q : Ranking(q) /\ Guides(q) /\ policy.action = "compact" =>
           \A h \in Nat : \A x \in ToSet(File(h)) : \A z \in ToSet(live') :
             h < parks + 1 /\ key[z] = key[x] => \E y \in ToSet(live') : key[y] = key[x] /\ q[x] <= q[y]
  PROVE  ReadingGoesOn
<1>0. CopyInv /\ parks \in Nat
  BY NamesAreSmall DEF FramedInv, DoubleInv
<1>1. \A n \in Nat : /\ n = parks + 1 => ToSet(File(n)) = {} /\ ToSet(File(n))' = ToSet(live')
                     /\ n # parks + 1 => ToSet(File(n))' = ToSet(File(n))
                     /\ n > parks + 1 => ToSet(File(n)) = {}
  <2>1. \A n \in Nat : /\ ToSet(File(n))' = IF n = parks + 1 THEN ToSet(live') ELSE ToSet(File(n))
                       /\ n > parks + 1 => ToSet(File(n)) = {}
    BY <1>0, ResultJoins, FilesHold
  <2>2. ToSet(File(parks + 1)) = {}
    BY <1>0, FilesHold DEF InFile
  <2> QED BY <2>1, <2>2
<1>2. LinesLast
  BY DEF LinesLast
<1>3. Reading'
  BY <1>0, <1>2, ReadingStays
<1>4. ASSUME NEW q, Ranking(q), Guides(q)  PROVE LastIsBest(q)'
  <2>1. SUFFICES ASSUME policy.action = "compact", NEW n \in Nat, NEW h \in Nat, NEW x \in ToSet(File(h))',
                        NEW z \in ToSet(File(n))', h < n, key[z] = key[x]
                 PROVE  \E y \in ToSet(File(n))' : key[y] = key[x] /\ q[x] <= q[y]
    BY DEF LastIsBest
  <2>2. h < parks + 1 /\ x \in ToSet(File(h)) /\ ~(n > parks + 1)
    BY <1>0, <1>1, <2>1
  <2>3. CASE n = parks + 1
    BY <1>1, <1>4, <2>1, <2>2, <2>3
  <2>4. CASE n # parks + 1
    BY <1>1, <1>4, <2>1, <2>2, <2>4 DEF Guides, LastIsBest
  <2> QED BY <2>3, <2>4
<1>5. ASSUME NEW q, Guides(q)  PROVE ReaderFinds(q)'
  <2>1. Names' = Names
    BY DEF Names
  <2>2. \A n \in Nat : ToSet(File(n)) \subseteq ToSet(File(n))'
    BY <1>1
  <2> QED BY <1>2, <1>5, <2>1, <2>2, FindsStays DEF Guides
<1> QED BY <1>3, <1>4, <1>5 DEF ReadingGoesOn

\* The copies before a run's own ones are not its own.
LEMMA OthersComeBefore ==
  ASSUME CopyInv, RunInv, Active, NEW i \in Own, NEW h \in Nat, File(h) # <<>>, h < parks + 1,
         \A j \in Own : m.mine[j].name # h
  PROVE  h < m.mine[i].name
<1>1. h \in Names /\ i \in DOMAIN m.mine
  BY FilesHold DEF Own
<1>2. ~(h > m.mine[i].name)
  BY <1>1 DEF RunInv
<1>3. m.mine[i].name # h /\ m.mine[i].name \in Nat
  BY <1>1, MineIsNamed, NamesAreSmall
<1> QED BY <1>2, <1>3

\* A result has the last line of each key of its copies: who has yet to read the live file
\* finds it there.
LEMMA PublishKeepsReading ==
  ASSUME FramedInv, FramedInv', Reading, Quiet, Publish
  PROVE  ReadingGoesOn
<1>0. CopyInv /\ m \in Maintainer /\ RunInv /\ ResultIsOfCopies /\ Types
  BY DEF FramedInv, DoubleInv, CopyInv, Types
<1>1. m.pc = "publish" /\ ~m.cleaned /\ m.temp \in Seq(Nat) /\ m.run # "none" /\ Active
  BY <1>0 DEF Publish, RunInv, Maintainer, Quiet, Active
<1>2. UNCHANGED <<policy, key, done, before, copies, parks, reader>>
  BY DEF Publish, MUnchanged
<1>3. CASE CanPublish /\ live' = m.temp /\ app' = Follow(Gone)
           /\ m' = [m EXCEPT !.pc = "archive", !.temp = <<>>, !.published = TRUE, !.restored = TRUE]
  <2>1. m'.cleaned = m.cleaned /\ live = None
    BY <1>0, <1>3 DEF Maintainer, CanPublish
  <2>2. ASSUME NEW q, Ranking(q), Guides(q), policy.action = "compact", NEW h \in Nat, NEW x \in ToSet(File(h)),
               NEW z \in ToSet(live'), h < parks + 1, key[z] = key[x]
        PROVE  \E y \in ToSet(live') : key[y] = key[x] /\ q[x] <= q[y]
    <3>0. \A g \in Nat : \A y \in ToSet(File(g)) : y \in done /\ q[y] \in Nat
      BY <2>2, LinesAreDone, DoneIsRanked
    <3>1. ASSUME NEW j \in DOMAIN m.mine, NEW y \in ToSet(MineLines(j))
          PROVE  \E v \in ToSet(live') : key[v] = key[y] /\ q[y] <= q[v]
      <4>1. StandsIn(q, y, ToSet(live'))
        BY <1>1, <1>3, <2>2, <3>1 DEF Guides, Placed
      <4>2. m.run # "window"
        BY <1>0, <1>1, <2>2 DEF RunInv
      <4>3. q[y] \in Nat
        BY <2>2, <3>1, LinesAreDone, DoneIsRanked
      <4> QED BY <4>1, <4>2, <4>3 DEF StandsIn
    <3>2. CASE \E j \in DOMAIN m.mine : m.mine[j].name = h
      BY <1>0, <2>2, <3>1, <3>2, FilesHold
    <3>3. CASE ~\E j \in DOMAIN m.mine : m.mine[j].name = h
      <4>1. PICK i \in DOMAIN m.mine : z \in ToSet(MineLines(i))
        BY <1>0, <1>1, <1>3, <2>2 DEF ResultIsOfCopies
      <4>2. File(h) # <<>>
        BY <1>0, <2>2, FilesHold
      <4>3. m.run # "merge"
        BY <1>0, <1>1, <2>2, <3>3, <4>2, FilesHold DEF RunInv, Mine
      <4>4. i \in Own /\ \A j \in Own : m.mine[j].name # h
        BY <1>0, <3>3, <4>3 DEF CopyInv, OnlyMergesAdopt
      <4>5. h < m.mine[i].name
        BY <1>0, <1>1, <2>2, <4>2, <4>4, OthersComeBefore
      <4>6. MineLines(i) = File(m.mine[i].name) /\ m.mine[i].name \in Nat
        BY <1>0, FilesHold, NamesAreSmall
      <4>7. PICK y \in ToSet(MineLines(i)) : key[y] = key[x] /\ q[x] <= q[y]
        BY <2>2, <4>1, <4>5, <4>6 DEF Guides, LastIsBest
      <4>8. PICK v \in ToSet(live') : key[v] = key[y] /\ q[y] <= q[v]
        BY <3>1
      <4>9. v \in done /\ q[v] \in Nat
        BY <1>1, <1>3, <2>2, LinesAreDone, DoneIsRanked
      <4> QED BY <2>2, <3>0, <4>6, <4>7, <4>8, <4>9
    <3> QED BY <3>2, <3>3
  <2> QED BY <1>1, <1>2, <1>3, <2>1, <2>2, PlacedKeepsReading
<1>4. CASE ~CanPublish /\ m' = NextRound([m EXCEPT !.temp = <<>>]) /\ UNCHANGED <<live, app>>
  <2>1. LinesLast /\ InFile(live)' = InFile(live)
    BY <1>2, <1>4 DEF LinesLast, InFile, ToSet
  <2> QED BY <1>2, <2>1, SameFilesKeepReading
<1> QED BY <1>3, <1>4 DEF Publish

\* The union of a run's own copies has the lines of all files that come after the others.
LEMMA RestoreMoveKeepsReading ==
  ASSUME OrderInv, Reading, Quiet, RestoreMove
  PROVE  ReadingGoesOn
<1>0. CopyInv /\ m \in Maintainer /\ RunInv /\ FramedInv
  BY DEF OrderInv, FramedInv, DoubleInv, CopyInv, Types
<1>1. m.pc = "restore_move" /\ Rewriting /\ ~m.cleaned /\ live = None /\ Active
  BY <1>0 DEF RestoreMove, RunInv, Rewriting, Quiet, Active
<1>2. UNCHANGED <<policy, key, done, before, copies, parks, reader>>
  BY DEF RestoreMove, MUnchanged
<1>3. m'.cleaned = m.cleaned
  BY <1>0 DEF RestoreMove, Maintainer
<1>4. CASE Own = {}
  <2>1. LinesLast /\ InFile(live)' = InFile(live)
    BY <1>2, <1>4 DEF LinesLast, InFile, ToSet, RestoreMove
  <2> QED BY <1>0, <1>2, <2>1, SameFilesKeepReading
<1>5. CASE Own # {}
  <2>1. live' = Gather(Places(Own))
    BY <1>5 DEF RestoreMove
  <2>2. live' \in Seq(Nat)
    BY <1>0, <2>1, OwnHold
  <2>3. PICK r : Ranking(r) /\ Orders(r)
    BY DEF OrderInv
  <2>4. /\ \A x \in ToSet(live') : \E i \in Own : x \in ToSet(MineLines(i))
        /\ \A i \in Own : \A x \in ToSet(MineLines(i)) : x \in ToSet(live')
    BY <1>1, <2>1, <2>3, OwnInOrder
  <2>5. ASSUME NEW q, Ranking(q), Guides(q), policy.action = "compact", NEW h \in Nat, NEW x \in ToSet(File(h)),
               NEW z \in ToSet(live'), h < parks + 1, key[z] = key[x]
        PROVE  \E y \in ToSet(live') : key[y] = key[x] /\ q[x] <= q[y]
    <3>1. \A i \in Own : i \in DOMAIN m.mine /\ MineLines(i) = File(m.mine[i].name) /\ m.mine[i].name \in Nat
      BY <1>0, FilesHold, NamesAreSmall, OwnIsMine
    <3>2. CASE \E j \in Own : m.mine[j].name = h
      <4>1. x \in ToSet(live')
        BY <2>4, <2>5, <3>1, <3>2
      <4>2. q[x] \in Nat
        BY <1>0, <2>5, LinesAreDone, DoneIsRanked
      <4> QED BY <4>1, <4>2
    <3>3. CASE \A j \in Own : m.mine[j].name # h
      <4>1. PICK i \in Own : z \in ToSet(MineLines(i))
        BY <2>4, <2>5
      <4>2. File(h) # <<>>
        BY <1>0, <2>5, FilesHold
      <4>3. h < m.mine[i].name
        BY <1>0, <1>1, <2>5, <3>3, <4>2, OthersComeBefore
      <4>4. PICK y \in ToSet(MineLines(i)) : key[y] = key[x] /\ q[x] <= q[y]
        BY <2>5, <3>1, <4>1, <4>3 DEF Guides, LastIsBest
      <4> QED BY <2>4, <4>4
    <3> QED BY <3>2, <3>3
  <2> QED BY <1>0, <1>1, <1>2, <1>3, <2>2, <2>5, PlacedKeepsReading
<1> QED BY <1>4, <1>5

LEMMA RotateKeepsReading ==
  ASSUME FramedInv, Reading, Rotate
  PROVE  ReadingGoesOn
<1>1. UNCHANGED <<policy, key, done, parks, reader>> /\ policy.action = "rotate"
  BY DEF Rotate, MUnchanged
<1>2. parks \in Nat /\ LinesLast
  BY <1>1, NamesAreSmall DEF FramedInv, DoubleInv, LinesLast
<1>3. Reading'
  BY <1>1, <1>2, ReadingStays
<1>4. reader'.pc = "idle" /\ policy'.action # "compact"
  BY <1>1 DEF Reading
<1> QED BY <1>3, <1>4 DEF ReadingGoesOn, LastIsBest, ReaderFinds

\* The copy that a cleanup removes is one that the reader has listed, or the reader has
\* missed it.
LEMMA CleanupTellsReader ==
  ASSUME CopyInv, Cleanup
  PROVE  \/ CleanedUp /\ UNCHANGED reader
         \/ \E c \in DOMAIN m.mine :
              /\ Removes(c)
              /\ reader' = [reader EXCEPT !.missed = @ \/ (/\ reader.pc # "idle"
                                                           /\ m.mine[c].name \notin reader.listed)]
BY DEF Cleanup, CleanedUp, Removes

\* A copy that a reader has not read yet goes only with a result that stands for it, and
\* a copy that it has not listed is noticed as missed.
LEMMA CleanupKeepsReading ==
  ASSUME FramedInv, Reading, Quiet, Cleanup
  PROVE  ReadingGoesOn
<1>0. CopyInv
  BY DEF FramedInv, DoubleInv
<1>1. UNCHANGED <<policy, key, done, before, live, parks, archived, app, trouble>> /\ m.pc = "cleanup"
  BY <1>0, CleanupChanges DEF Cleanup
<1>2. CASE CleanedUp /\ UNCHANGED reader
  <2>1. LinesLast /\ InFile(live)' = InFile(live) /\ UNCHANGED copies
    BY <1>1, <1>2 DEF LinesLast, InFile, ToSet, CleanedUp
  <2> QED BY <1>1, <1>2, <2>1, SameFilesKeepReading
<1>3. ASSUME NEW c \in DOMAIN m.mine, Removes(c),
             reader' = [reader EXCEPT !.missed = @ \/ (/\ reader.pc # "idle"
                                                       /\ m.mine[c].name \notin reader.listed)]
      PROVE  ReadingGoesOn
  <2> PICK name : name = m.mine[c].name
    OBVIOUS
  <2>1. /\ Names' = Names \ {name} /\ name \in Removables
        /\ \A n \in Nat : File(n)' = IF n = name THEN <<>> ELSE File(n)
    <3>1. name \in Removables
      BY <1>3 DEF Removables, Removes, NextToRemove
    <3> QED BY <1>0, <1>1, <1>3, <3>1, RemovalDropsRows
  <2>2. \A n \in Nat : ToSet(File(n))' = IF n = name THEN {} ELSE ToSet(File(n))
    <3>1. ASSUME NEW n \in Nat  PROVE ToSet(File(n))' = IF n = name THEN {} ELSE ToSet(File(n))
      <4>1. File(n)' = IF n = name THEN <<>> ELSE File(n)
        BY <2>1
      <4> QED BY <4>1 DEF ToSet
    <3> QED BY <3>1
  <2>3. /\ reader' \in Reader /\ reader'.pc = reader.pc /\ reader'.listed = reader.listed
        /\ reader'.todo = reader.todo /\ reader'.last = reader.last /\ reader'.must = reader.must
        /\ reader'.missed = (reader.missed \/ (reader.pc # "idle" /\ name \notin reader.listed))
    BY <1>3 DEF Reading, Reader
  <2>4. Reading'
    <3>1. ToSet(reader.todo)' = ToSet(reader.todo)
      BY <2>3 DEF ToSet
    <3> QED BY <1>1, <2>3, <3>1 DEF Reading
  <2>5. ASSUME NEW q, Ranking(q), Guides(q)  PROVE LastIsBest(q)' /\ ReaderFinds(q)'
    <3>1. LastIsBest(q)'
      <4>1. LinesLast
        BY <1>1 DEF LinesLast
      <4> QED BY <1>1, <2>2, <2>5, <4>1, BestStays DEF Guides
    <3>2. CASE reader.pc = "idle"
      BY <2>3, <3>1, <3>2 DEF ReaderFinds
    <3>3. CASE reader.pc # "idle"
      <4>1. Fair' => Fair
        BY <2>1, <2>3, <3>3 DEF Fair
      <4>2. \A x : Found(q, x)' <=> Found(q, x)
        BY <1>1, <2>3 DEF Found
      <4>3. parks + 1 \in Nat /\ name # parks + 1 /\ ToSet(File(parks + 1)) = InFile(live)
        BY <1>0, <1>3, FilesHold, NamesAreSmall
      <4> PICK l \in Nat : l = parks + 1
        BY <4>3
      <4>4. Ahead' = Ahead /\ Ahead \subseteq Nat /\ l \in Ahead /\ ToSet(File(l)) = InFile(live)
        <5>1. ToSet(reader.todo)' = ToSet(reader.todo)
          BY <2>3 DEF ToSet
        <5> QED BY <1>1, <4>3, <5>1, TodoIsListed DEF Ahead
      <4>5. ASSUME NEW x \in reader.must, NEW n \in Ahead, Standing(q, x, n)
            PROVE  \E h \in Ahead : Standing(q, x, h)'
        <5>1. PICK y \in ToSet(File(n)) : key[y] = key[x] /\ q[x] <= q[y]
          BY <4>5 DEF Standing
        <5>2. CASE n # name
          BY <1>1, <2>2, <4>4, <4>5, <5>1, <5>2 DEF Standing
        <5>3. CASE n = name
          <6>1. x \in done /\ y \in done /\ InFile(live) \subseteq done /\ policy.action = "compact"
            BY <3>3, <4>4, <4>5, <5>1, LinesAreDone DEF Reading
          <6>2. \A z \in done : q[z] \in Nat
            BY <2>5, DoneIsRanked
          <6>3. y \in InFile(live) \/ \E z \in InFile(live) : key[z] = key[y] /\ q[y] <= q[z]
            BY <1>1, <2>1, <2>5, <5>1, <5>3, <6>1, RemovedIsStoodFor DEF Guides
          <6>4. PICK z \in InFile(live) : key[z] = key[y] /\ q[y] <= q[z]
            BY <6>1, <6>2, <6>3
          <6>5. q[x] <= q[z] /\ key[z] = key[x]
            BY <5>1, <6>1, <6>2, <6>4
          <6>6. ToSet(File(l))' = InFile(live)
            BY <2>2, <4>3, <4>4
          <6> QED BY <1>1, <4>4, <6>4, <6>5, <6>6 DEF Standing
        <5> QED BY <5>2, <5>3
      <4>6. ReaderFinds(q)'
        BY <2>3, <2>5, <4>1, <4>2, <4>4, <4>5 DEF Guides, ReaderFinds
      <4> QED BY <3>1, <4>6
    <3> QED BY <3>1, <3>2, <3>3
  <2> QED BY <2>4, <2>5 DEF ReadingGoesOn
<1> QED BY <1>0, <1>2, <1>3, CleanupTellsReader

\* A line that is late ranks below those of its key in the files after it.
LEMMA WriteKeepsReading ==
  ASSUME OrderInv, FramedInv', Reading, Quiet, NEW a \in Appenders, Write(a)
  PROVE  ReadingGoesOn
<1>0. CopyInv /\ FramedInv /\ RunInv /\ Types
  BY DEF OrderInv, FramedInv, DoubleInv, CopyInv
<1> PICK w : w = app[a].line
  OBVIOUS
<1>1. /\ w \in Nat /\ UNCHANGED <<policy, reader, key, before, m, parks>>
      /\ done' = done \cup {w} /\ Names' = Names
      /\ \A n \in Nat : File(n)' = IF IsOpen(a) /\ n = OpenAt(a) THEN Append(File(n), w) ELSE File(n)
      /\ \A n \in Nat : w \notin ToSet(File(n)) /\ w \notin Row(n)
      /\ IsOpen(a) => Stays(OpenAt(a)) /\ OpenAt(a) \in Nat
  BY WriteJoins DEF Write
<1>2. IsOpen(a)
  BY DEF Quiet, Write
<1> PICK O \in Nat : O = OpenAt(a)
  BY <1>1, <1>2
<1>3. ASSUME NEW n \in Nat
      PROVE  /\ ToSet(File(n))' = IF n = O THEN ToSet(File(n)) \cup {w} ELSE ToSet(File(n))
             /\ Row(n)' = IF n = O THEN Row(n) \cup {w} ELSE Row(n)
             /\ Row(n) = IF Stays(n) THEN ToSet(File(n)) ELSE {}
  <2>1. Stays(n)' = Stays(n)
    BY <1>1 DEF Stays, Removables, Removable
  <2>2. File(n) \in Seq(Nat)
    BY <1>0, FilesHold
  <2>3. CASE n = O
    <3>1. File(n)' = Append(File(n), w)
      BY <1>1, <1>2, <2>3
    <3>2. ToSet(File(n))' = ToSet(File(n)) \cup {w}
      <4>1. ToSet(File(n))' = ToSet(Append(File(n), w))
        BY <3>1 DEF ToSet
      <4> QED BY <1>1, <2>2, <4>1, AppendedLine
    <3> QED BY <1>1, <1>2, <2>1, <2>3, <3>2 DEF Row
  <2>4. CASE n # O
    <3>1. File(n)' = File(n)
      BY <1>1, <2>4
    <3> QED BY <2>1, <2>4, <3>1 DEF Row, ToSet
  <2> QED BY <2>3, <2>4
<1>4. LinesLast
  BY <1>1 DEF LinesLast
<1>5. Reading'
  BY <1>0, <1>1, <1>4, NamesAreSmall, ReadingStays
<1>6. PICK r : Ranking(r) /\ Orders(r)
  BY DEF OrderInv
\* A file that is about to go gets no line any more.
<1>7. m.cleaned => O = parks + 1 /\ m.pc = "cleanup"
  BY <1>0, <1>2 DEF RunInv, NoStragglers, IsOpen, OpenAt
<1>8. ASSUME NEW q, Ranking(q), Guides(q), Orders(q)'  PROVE LastIsBest(q)'
  <2>1. SUFFICES ASSUME policy.action = "compact", NEW n \in Nat, NEW h \in Nat, NEW x \in ToSet(File(h))',
                        NEW z \in ToSet(File(n))', h < n, key[z] = key[x]
                 PROVE  \E y \in ToSet(File(n))' : key[y] = key[x] /\ q[x] <= q[y]
    BY <1>1 DEF LastIsBest
  <2>2. \A g \in Nat : \A v \in Row(g)' : (\A e \in Nat : e < g => v \notin Row(e)') =>
          \A e \in Nat : \A u \in Row(e)' : e < g /\ key[u] = key[v] => q[u] <= q[v]
    BY <1>1, <1>8 DEF Orders, NewComesLast
  <2>3. CASE x # w /\ z # w
    <3>1. x \in ToSet(File(h)) /\ z \in ToSet(File(n))
      BY <1>3, <2>1, <2>3
    <3>2. PICK y \in ToSet(File(n)) : key[y] = key[x] /\ q[x] <= q[y]
      BY <1>8, <2>1, <3>1 DEF Guides, LastIsBest
    <3> QED BY <1>3, <3>2
  <2>4. CASE z = w /\ x # w
    <3>1. n = O /\ x \in ToSet(File(h)) /\ h # O
      BY <1>1, <1>3, <2>1, <2>4
    <3>2. CASE Stays(h)
      <4>1. x \in Row(h)'
        BY <1>3, <3>1, <3>2
      <4>2. w \in Row(O)'
        BY <1>3
      <4>3. \A e \in Nat : e < O => w \notin Row(e)'
        BY <1>1, <1>3
      <4> QED BY <2>1, <2>2, <2>4, <3>1, <4>1, <4>2, <4>3
    <3>3. CASE ~Stays(h)
      <4>1. m.cleaned /\ h \in Removables
        BY <3>3 DEF Stays
      <4>2. x \in done /\ q[x] \in Nat
        BY <1>0, <1>8, <3>1, LinesAreDone, DoneIsRanked
      <4>3. x \in InFile(live) \/ \E y \in InFile(live) : key[y] = key[x] /\ q[x] <= q[y]
        BY <1>0, <1>7, <1>8, <2>1, <3>1, <4>1, RemovedIsStoodFor DEF Guides
      <4>4. InFile(live) = ToSet(File(O))
        BY <1>0, <1>7, <4>1, FilesHold
      <4> QED BY <1>3, <3>1, <4>2, <4>3, <4>4
    <3> QED BY <3>2, <3>3
  <2>5. CASE x = w /\ z # w
    <3>1. h = O /\ z \in ToSet(File(n)) /\ n > O
      BY <1>1, <1>3, <2>1, <2>5
    <3>2. ~m.cleaned
      <4>1. n > parks + 1 => ToSet(File(n)) = {}
        BY <1>0, FilesHold
      <4> QED BY <1>7, <3>1, <4>1
    <3>3. z \in Row(n)
      BY <1>3, <3>1, <3>2 DEF Stays
    <3>4. \A e \in Nat : e <= O => z \notin Row(e)
      BY <1>2, <1>6, <3>1, <3>3 DEF Orders, LateComesFirst
    <3>5. PICK g \in {g \in Nat : z \in Row(g)} : \A e \in {e \in Nat : z \in Row(e)} : g <= e
      <4>1. {g \in Nat : z \in Row(g)} # {} /\ {g \in Nat : z \in Row(g)} \in SUBSET Nat
        BY <3>3
      <4> QED BY <4>1, LeastNat
    <3>6. g \in Nat /\ z \in Row(g) /\ (\A e \in Nat : e < g => z \notin Row(e)) /\ O < g
      <4>1. ~(g <= O)
        BY <3>4, <3>5
      <4> QED BY <3>5, <4>1
    <3>7. z \in Row(g)' /\ (\A e \in Nat : e < g => z \notin Row(e)') /\ w \in Row(O)'
      BY <1>3, <2>5, <3>6
    <3>8. q[w] <= q[z]
      BY <2>1, <2>2, <2>5, <3>6, <3>7
    <3> QED BY <2>1, <2>5, <3>8
  <2>6. CASE x = w /\ z = w
    BY <1>1, <1>3, <2>1, <2>6
  <2> QED BY <2>3, <2>4, <2>5, <2>6
<1>9. ASSUME NEW q, Guides(q)  PROVE ReaderFinds(q)'
  <2>1. \A n \in Nat : ToSet(File(n)) \subseteq ToSet(File(n))'
    BY <1>3
  <2> QED BY <1>0, <1>1, <1>4, <1>9, <2>1, FindsStays DEF Guides
<1> QED BY <1>5, <1>8, <1>9 DEF ReadingGoesOn

-----------------------------------------------------------------------------
(* The reader's own steps *)

\* The last line of a key in a file, if it has one, ranks as high as any.
LEMMA LatestOfKey ==
  ASSUME NEW r, NEW rows \in Seq(Nat), Sorted(r, rows), \A x \in ToSet(rows) : r[x] \in Nat,
         NEW last, NEW k \in Keys
  PROVE  /\ (\A y \in ToSet(rows) : key[y] # k) => Latest(last, rows)[k] = last[k]
         /\ (\E y \in ToSet(rows) : key[y] = k) =>
              Latest(last, rows)[k] \in ToSet(rows) /\ key[Latest(last, rows)[k]] = k
         /\ \A y \in ToSet(rows) : key[y] = k => r[y] <= r[Latest(last, rows)[k]]
<1> DEFINE mine == {i \in DOMAIN rows : key[rows[i]] = k}
<1>1. Latest(last, rows)[k] = IF mine = {} THEN last[k] ELSE rows[Max(mine)]
  BY DEF Latest
<1>2. DOMAIN rows = 1..Len(rows) /\ Len(rows) \in Nat
  BY LenProperties
<1>3. CASE mine = {}
  <2>1. \A y \in ToSet(rows) : key[y] # k
    BY <1>3 DEF ToSet
  <2> QED BY <1>1, <1>3, <2>1
<1>4. CASE mine # {}
  <2>1. \E i \in mine : \A j \in mine : i >= j
    <3> DEFINE S == {Len(rows) - i : i \in mine}
    <3>1. S # {} /\ S \in SUBSET Nat
      BY <1>2, <1>4
    <3>2. PICK d \in S : \A e \in S : d <= e
      BY <3>1, LeastNat
    <3>3. PICK i \in mine : d = Len(rows) - i
      BY <3>2
    <3>4. ASSUME NEW j \in mine  PROVE i >= j
      <4>1. Len(rows) - i <= Len(rows) - j
        BY <3>2, <3>3
      <4>2. i \in Nat /\ j \in Nat
        BY <1>2
      <4> QED BY <1>2, <4>1, <4>2
    <3> QED BY <3>4
  <2>2. Max(mine) \in mine /\ \A j \in mine : Max(mine) >= j
    BY <2>1 DEF Max
  <2> PICK i : i = Max(mine)
    OBVIOUS
  <2>3. i \in DOMAIN rows /\ key[rows[i]] = k /\ rows[i] \in ToSet(rows) /\ Latest(last, rows)[k] = rows[i]
    BY <1>1, <1>4, <2>2 DEF ToSet
  <2>4. ASSUME NEW y \in ToSet(rows), key[y] = k  PROVE r[y] <= r[rows[i]]
    <3>1. PICK j \in DOMAIN rows : y = rows[j]
      BY DEF ToSet
    <3>2. j \in mine /\ i >= j
      BY <2>2, <2>4, <3>1
    <3>3. CASE j = i
      BY <2>3, <3>1, <3>3
    <3>4. CASE j # i
      <4>1. j < i
        BY <1>2, <2>3, <3>1, <3>2, <3>4
      <4> QED BY <2>3, <2>4, <3>1, <4>1 DEF Sorted
    <3> QED BY <3>3, <3>4
  <2>5. ToSet(rows) # {} /\ \E y \in ToSet(rows) : key[y] = k
    BY <2>3
  <2> HIDE DEF mine
  <2> QED BY <2>3, <2>4, <2>5
<1> QED BY <1>3, <1>4

\* The reader reads the file n, and what stands for a line is in none of the files after
\* it, unless it is yet to be read.
LEMMA FileIsRead ==
  ASSUME FramedInv, Reading, NEW q, Ranking(q), Guides(q), reader.pc = "read", Fair, NEW n \in Nat,
         NEW last, last = Latest(reader.last, File(n)), NEW A \in SUBSET Nat,
         Ahead \subseteq A \cup {n}, \A h \in Names \cup {parks + 1} : h \notin A => h <= n,
         NEW x \in reader.must
  PROVE  \/ last[key[x]] # None /\ q[x] <= q[last[key[x]]]
         \/ \E h \in A : Standing(q, x, h)
<1>0. CopyInv /\ parks + 1 \in Nat
  BY FilesHold DEF FramedInv, DoubleInv
<1>1. x \in done /\ policy.action = "compact" /\ key[x] \in Keys
  <2>1. x \in done /\ policy.action = "compact"
    BY DEF Reading
  <2>2. done \subseteq 1..Len(key) /\ key \in Seq(Keys)
    BY LinesAreDone DEF Lines, FramedInv, DoubleInv, CopyInv, Types
  <2> QED BY <2>1, <2>2, ElementOfSeq
<1>2. /\ File(n) \in Seq(Nat) /\ Sorted(q, File(n)) /\ \A y \in ToSet(File(n)) : y \in done /\ y \in Nat
      /\ \A y \in done : q[y] \in Nat
  BY <1>0, FilesHold, LinesAreDone, DoneIsRanked DEF Guides
<1>3. /\ (\A y \in ToSet(File(n)) : key[y] # key[x]) => last[key[x]] = reader.last[key[x]]
      /\ (\E y \in ToSet(File(n)) : key[y] = key[x]) => last[key[x]] \in ToSet(File(n))
      /\ \A y \in ToSet(File(n)) : key[y] = key[x] => q[y] <= q[last[key[x]]]
  <2>1. \A y \in ToSet(File(n)) : q[y] \in Nat
    BY <1>2
  <2> QED BY <1>1, <1>2, <2>1, LatestOfKey
<1>4. ASSUME NEW y \in ToSet(File(n)), key[y] = key[x], q[x] <= q[y]
      PROVE  last[key[x]] # None /\ q[x] <= q[last[key[x]]]
  <2>1. last[key[x]] \in ToSet(File(n)) /\ q[y] <= q[last[key[x]]]
    BY <1>3, <1>4
  <2>2. last[key[x]] # None
    BY <1>2, <2>1, NoneIsNoFile
  <2> QED BY <1>1, <1>2, <1>4, <2>1, <2>2
<1>5. CASE \A y \in ToSet(File(n)) : key[y] # key[x]
  <2>1. Found(q, x) \/ \E h \in Ahead : Standing(q, x, h)
    BY DEF Guides, ReaderFinds
  <2>2. ~Standing(q, x, n)
    BY <1>5 DEF Standing
  <2> QED BY <1>3, <1>5, <2>1, <2>2 DEF Found
<1>6. CASE \E z \in ToSet(File(n)) : key[z] = key[x]
  <2>1. PICK h \in Nat : \E y \in Row(h) : key[y] = key[x] /\ q[x] <= q[y]
    BY <1>1 DEF Guides, AllKept, Stood
  <2>2. PICK y \in Row(h) : key[y] = key[x] /\ q[x] <= q[y]
    BY <2>1
  <2>3. y \in ToSet(File(h)) /\ y \in done
    BY <1>0, <2>2, FilesHold, LinesAreDone
  <2>4. h \in Names \cup {parks + 1}
    BY <1>0, <2>3, FilesHold
  <2>5. CASE h \in A
    BY <2>2, <2>3, <2>5 DEF Standing
  <2>6. CASE h = n
    BY <1>4, <2>2, <2>3, <2>6
  <2>7. CASE h \notin A /\ h # n
    <3>1. h < n
      BY <2>4, <2>7
    <3>2. PICK z \in ToSet(File(n)) : key[z] = key[x]
      BY <1>6
    <3>3. PICK v \in ToSet(File(n)) : key[v] = key[y] /\ q[y] <= q[v]
      BY <1>1, <2>2, <2>3, <3>1, <3>2 DEF Guides, LastIsBest
    <3>4. q[x] <= q[v]
      BY <1>1, <1>2, <2>2, <2>3, <3>3
    <3> QED BY <1>4, <2>2, <3>3, <3>4
  <2> QED BY <2>5, <2>6, <2>7
<1> QED BY <1>5, <1>6

\* What has been read is done, and of its key.
LEMMA LatestIsDone ==
  ASSUME FramedInv, Reading, NEW r, Ranking(r), Guides(r), NEW n \in Nat
  PROVE  /\ Latest(reader.last, File(n)) \in [Keys -> Nat \cup {None}]
         /\ \A k \in Keys : Latest(reader.last, File(n))[k] # None =>
              Latest(reader.last, File(n))[k] \in done /\ key[Latest(reader.last, File(n))[k]] = k
<1>1. /\ File(n) \in Seq(Nat) /\ Sorted(r, File(n)) /\ \A y \in ToSet(File(n)) : y \in done /\ y \in Nat
      /\ \A y \in ToSet(File(n)) : r[y] \in Nat
  <2>1. CopyInv
    BY DEF FramedInv, DoubleInv
  <2> QED BY <2>1, FilesHold, LinesAreDone, DoneIsRanked DEF Guides
<1>2. ASSUME NEW l \in Keys
      PROVE  \/ Latest(reader.last, File(n))[l] = reader.last[l]
             \/ Latest(reader.last, File(n))[l] \in ToSet(File(n)) /\ key[Latest(reader.last, File(n))[l]] = l
  BY <1>1, LatestOfKey
<1>3. Latest(reader.last, File(n)) = [l \in Keys |-> Latest(reader.last, File(n))[l]]
  BY DEF Latest
<1>4. \A l \in Keys : reader.last[l] \in Nat \cup {None}
  BY DEF Reading, Reader
<1>5. \A l \in Keys : Latest(reader.last, File(n))[l] \in Nat \cup {None}
  BY <1>1, <1>2, <1>4
<1> QED BY <1>1, <1>2, <1>3, <1>5 DEF Reading

\* A step of the reader leaves the files alone.
LEMMA OnlyReads ==
  ASSUME FramedInv, RUnchanged, Reading', \A q : Ranking(q) /\ Guides(q) => ReaderFinds(q)'
  PROVE  ReadingGoesOn
<1>1. UNCHANGED <<policy, key, done, live, copies, parks>>
  BY DEF RUnchanged, hist, store
<1>2. ASSUME NEW q, Guides(q)  PROVE LastIsBest(q)'
  <2>1. LinesLast
    BY <1>1 DEF LinesLast
  <2>2. ASSUME NEW n \in Nat  PROVE ToSet(File(n))' = ToSet(File(n))
    BY <1>1 DEF File, CopyLines, Copy, Names, ToSet
  <2> QED BY <1>1, <1>2, <2>1, <2>2, BestStays DEF Guides
<1> QED BY <1>2 DEF ReadingGoesOn

\* A reader lists the copies in park order.
LEMMA InOrderIsParkOrder ==
  ASSUME CopyInv, RunInv
  PROVE  /\ InOrder \in Seq(Nat) /\ ToSet(InOrder) = Names
         /\ \A i \in DOMAIN InOrder : InOrder[i] \in Names
         /\ \A i, j \in DOMAIN InOrder : i < j => InOrder[i] < InOrder[j]
<1>1. DOMAIN copies = 1..Len(copies) /\ Len(copies) \in Nat
  BY LenProperties DEF CopyInv, Types
<1>2. \A i \in DOMAIN copies : copies[i].name \in Names /\ copies[i].name \in Nat
  BY NamesAreSmall DEF Names
<1>3. DOMAIN InOrder = DOMAIN copies /\ \A i \in DOMAIN copies : InOrder[i] = copies[i].name
  BY DEF InOrder
<1>4. InOrder \in Seq(Nat)
  BY <1>1, <1>2, IsASeq DEF InOrder
<1>5. ToSet(InOrder) = Names
  BY <1>3 DEF ToSet, Names
<1> QED BY <1>2, <1>3, <1>4, <1>5 DEF RunInv

\* A reader that lists the copies has all files ahead of it.
LEMMA ListingStarts ==
  ASSUME FramedInv, RUnchanged, policy.action = "compact", reader' \in Reader, reader'.pc = "read",
         reader'.listed = Names, reader'.todo = InOrder, reader'.must \subseteq done,
         \A k \in Keys : reader'.last[k] # None => reader'.last[k] \in done /\ key[reader'.last[k]] = k
  PROVE  ReadingGoesOn
<1>0. CopyInv /\ RunInv
  BY DEF FramedInv, DoubleInv
<1>1. UNCHANGED <<policy, key, done, live, copies, parks>>
  BY DEF RUnchanged, hist, store
<1>2. Reading'
  <2>1. ToSet(reader.todo)' = Names
    <3>1. ToSet(reader.todo)' = ToSet(InOrder)
      BY DEF ToSet
    <3> QED BY <1>0, <3>1, InOrderIsParkOrder
  <2>2. \A n \in Names : n <= parks
    BY <1>0, NamesAreSmall
  <2>3. /\ \A i \in DOMAIN reader'.todo : reader'.todo[i] \in reader'.listed
        /\ \A i, j \in DOMAIN reader'.todo : i < j => reader'.todo[i] < reader'.todo[j]
    BY <1>0, InOrderIsParkOrder
  <2> QED BY <1>1, <2>1, <2>2, <2>3 DEF Reading
<1>3. ASSUME NEW q, Guides(q)  PROVE ReaderFinds(q)'
  <2>1. Ahead' = Names \cup {parks + 1}
    <3>1. ToSet(reader.todo)' = ToSet(InOrder)
      BY DEF ToSet
    <3> QED BY <1>0, <1>1, <3>1, InOrderIsParkOrder DEF Ahead
  <2>2. ASSUME NEW x \in reader'.must  PROVE \E n \in Ahead' : Standing(q, x, n)'
    <3>1. PICK n \in Nat : \E y \in Row(n) : key[y] = key[x] /\ q[x] <= q[y]
      BY <1>3, <2>2 DEF Guides, AllKept, Stood
    <3>2. PICK y \in Row(n) : key[y] = key[x] /\ q[x] <= q[y]
      BY <3>1
    <3>3. y \in ToSet(File(n)) /\ n \in Names \cup {parks + 1}
      BY <1>0, FilesHold
    <3>4. File(n)' = File(n)
      BY <1>1 DEF File, CopyLines, Copy, Names
    <3>5. y \in ToSet(File(n))'
      BY <3>3, <3>4 DEF ToSet
    <3> QED BY <1>1, <2>1, <3>2, <3>3, <3>5 DEF Standing
  <2> QED BY <2>2 DEF ReaderFinds
<1> QED BY <1>2, <1>3, OnlyReads

LEMMA ReadStartKeepsReading ==
  ASSUME FramedInv, Reading, ReadStart
  PROVE  ReadingGoesOn
<1>0. CopyInv /\ RunInv /\ done \subseteq Nat
  BY LinesAreDone DEF FramedInv, DoubleInv
<1>1. /\ RUnchanged /\ policy.action = "compact"
      /\ reader' = [NoReader EXCEPT !.pc = "read", !.listed = Names, !.todo = InOrder, !.must = done]
  BY DEF ReadStart
<1>2. NoReader \in Reader /\ \A k \in Keys : NoReader.last[k] = None
  BY EmptySeq DEF NoReader, Reader
<1>3. Names \subseteq Nat /\ InOrder \in Seq(Nat)
  BY <1>0, NamesAreSmall, InOrderIsParkOrder
<1>4. /\ reader' \in Reader /\ reader'.pc = "read" /\ reader'.listed = Names /\ reader'.todo = InOrder
      /\ reader'.must = done /\ reader'.last = NoReader.last
  BY <1>0, <1>1, <1>2, <1>3 DEF Reader
<1> QED BY <1>1, <1>2, <1>4, ListingStarts

LEMMA RelistKeepsReading ==
  ASSUME FramedInv, Reading, Relist
  PROVE  ReadingGoesOn
<1>0. CopyInv /\ RunInv /\ reader \in Reader
  BY DEF FramedInv, DoubleInv, Reading
<1>1. RUnchanged /\ reader.pc = "relist"
  BY DEF Relist
<1>2. UNCHANGED <<policy, key, done, live, copies, parks>>
  BY <1>1 DEF RUnchanged, hist, store
<1>3. CASE reader' = [reader EXCEPT !.pc = "read", !.listed = Names, !.todo = InOrder,
                        !.round = @ + 1, !.missed = FALSE]
  <2>0. reader.round + 1 \in Nat
    <3>1. reader.round \in Nat
      BY <1>0 DEF Reader
    <3> QED BY <3>1
  <2>1. Names \subseteq Nat /\ InOrder \in Seq(Nat) /\ reader.round + 1 \in Nat
    BY <1>0, <2>0, NamesAreSmall, InOrderIsParkOrder
  <2>2. /\ reader' \in Reader /\ reader'.pc = "read" /\ reader'.listed = Names /\ reader'.todo = InOrder
        /\ reader'.must = reader.must /\ reader'.last = reader.last
    BY <1>0, <1>3, <2>1 DEF Reader
  <2>3. policy.action = "compact" /\ reader.must \subseteq done
    BY <1>1 DEF Reading
  <2> QED BY <1>1, <2>2, <2>3, ListingStarts DEF Reading
<1>4. ASSUME NEW pc \in {"seen", "gave up"}, reader' = [reader EXCEPT !.pc = pc], pc = "seen" => ~Again
      PROVE  ReadingGoesOn
  <2>1. /\ reader' \in Reader /\ reader'.pc = pc /\ reader'.listed = reader.listed /\ reader'.todo = reader.todo
        /\ reader'.must = reader.must /\ reader'.last = reader.last /\ reader'.missed = reader.missed
    BY <1>0, <1>4 DEF Reader
  <2>2. Reading'
    BY <1>1, <1>2, <2>1 DEF Reading
  <2>3. ASSUME NEW q, Guides(q)  PROVE ReaderFinds(q)'
    <3>1. \A x : Found(q, x)' <=> Found(q, x)
      BY <1>2, <2>1 DEF Found
    <3>2. pc = "seen" /\ ~reader.missed => Fair
      BY <1>4 DEF Again, Fair
    <3> QED BY <1>1, <2>1, <2>3, <3>1, <3>2 DEF Guides, ReaderFinds
  <2> QED BY <1>1, <2>2, <2>3, OnlyReads
<1> QED BY <1>3, <1>4 DEF Relist

LEMMA ReadReturnKeepsReading ==
  ASSUME FramedInv, Reading, ReadReturn
  PROVE  ReadingGoesOn
<1>1. RUnchanged /\ reader' = NoReader
  BY DEF ReadReturn
<1>2. UNCHANGED parks /\ parks \in Nat
  BY <1>1, NamesAreSmall DEF RUnchanged, store, FramedInv, DoubleInv
<1>3. /\ NoReader \in Reader /\ NoReader.pc = "idle" /\ NoReader.listed = {} /\ NoReader.todo = <<>>
      /\ \A k \in Keys : NoReader.last[k] = None
  BY EmptySeq DEF NoReader, Reader
<1>4. Reading'
  BY <1>1, <1>2, <1>3 DEF Reading
<1>5. \A q : ReaderFinds(q)'
  BY <1>1, <1>3 DEF ReaderFinds
<1> QED BY <1>1, <1>4, <1>5, OnlyReads

LEMMA ReadLiveKeepsReading ==
  ASSUME FramedInv, Reading, NEW r, Ranking(r), Guides(r), ReadLive
  PROVE  ReadingGoesOn
<1>0. CopyInv /\ reader \in Reader
  BY DEF FramedInv, DoubleInv, Reading
<1> PICK n \in Nat : n = parks + 1
  BY <1>0, FilesHold
<1>1. /\ RUnchanged /\ reader.pc = "read" /\ reader.todo = <<>>
      /\ reader' = [reader EXCEPT !.last = Latest(@, File(n)), !.pc = "relist"]
  BY DEF ReadLive, File
<1>2. UNCHANGED <<policy, key, done, live, copies, parks>>
  BY <1>1 DEF RUnchanged, hist, store
<1>3. /\ Latest(reader.last, File(n)) \in [Keys -> Nat \cup {None}]
      /\ \A k \in Keys : Latest(reader.last, File(n))[k] # None =>
           Latest(reader.last, File(n))[k] \in done /\ key[Latest(reader.last, File(n))[k]] = k
  BY LatestIsDone
<1>4. /\ reader' \in Reader /\ reader'.pc = "relist" /\ reader'.listed = reader.listed /\ reader'.todo = reader.todo
      /\ reader'.must = reader.must /\ reader'.missed = reader.missed /\ reader'.last = Latest(reader.last, File(n))
  BY <1>0, <1>1, <1>3 DEF Reader
<1>5. Reading'
  BY <1>1, <1>2, <1>3, <1>4 DEF Reading
<1>6. ASSUME NEW q, Ranking(q), Guides(q), Fair', NEW x \in reader.must  PROVE Found(q, x)'
  <2>1. Fair
    BY <1>2, <1>4, <1>6 DEF Fair, Names
  <2>2. Ahead \subseteq {n}
    BY <1>1 DEF Ahead, ToSet
  <2>3. \A h \in Names \cup {parks + 1} : h <= n
    BY <1>0, NamesAreSmall
  <2> PICK last : last = Latest(reader.last, File(n))
    OBVIOUS
  <2>4. reader.pc = "read" /\ Ranking(q) /\ Guides(q)
    BY <1>1, <1>6
  <2>5. ASSUME NEW A \in SUBSET Nat, Ahead \subseteq A \cup {n},
               \A h \in Names \cup {parks + 1} : h \notin A => h <= n
        PROVE  \/ last[key[x]] # None /\ q[x] <= q[last[key[x]]]
               \/ \E h \in A : Standing(q, x, h)
    BY <2>1, <2>4, <2>5, FileIsRead
  <2>6. last[key[x]] # None /\ q[x] <= q[last[key[x]]]
    <3>1. {} \in SUBSET Nat /\ Ahead \subseteq {} \cup {n}
      BY <2>2
    <3> QED BY <2>3, <2>5, <3>1
  <2> QED BY <1>2, <1>4, <2>6 DEF Found
<1>7. ASSUME NEW q, Ranking(q), Guides(q)  PROVE ReaderFinds(q)'
  BY <1>4, <1>6, <1>7 DEF ReaderFinds
<1> QED BY <1>1, <1>5, <1>7, OnlyReads

LEMMA ReadCopyKeepsReading ==
  ASSUME FramedInv, Reading, NEW r, Ranking(r), Guides(r), ReadCopy
  PROVE  ReadingGoesOn
<1>0. CopyInv /\ reader \in Reader /\ parks \in Nat /\ \A h \in Names : h \in Nat /\ h < parks + 1
  BY NamesAreSmall DEF FramedInv, DoubleInv, Reading
<1>1. /\ reader.todo \in Seq(Nat) /\ reader.todo # <<>> /\ reader.todo[1] \in reader.listed
      /\ DOMAIN reader.todo = 1..Len(reader.todo) /\ Len(reader.todo) \in Nat /\ Len(reader.todo) >= 1
  <2>1. reader.todo \in Seq(Nat) /\ reader.todo # <<>>
    BY <1>0 DEF ReadCopy, Reader
  <2>2. DOMAIN reader.todo = 1..Len(reader.todo) /\ Len(reader.todo) \in Nat /\ Len(reader.todo) >= 1
    BY <2>1, LenProperties, EmptySeq
  <2> QED BY <2>1, <2>2 DEF Reading
<1> PICK n \in Nat : n = reader.todo[1]
  BY <1>1, TodoIsListed
<1> PICK tail : tail = Tail(reader.todo)
  OBVIOUS
<1>2. /\ tail \in Seq(Nat) /\ DOMAIN tail = 1..(Len(reader.todo) - 1)
      /\ \A i \in DOMAIN tail : tail[i] = reader.todo[i + 1] /\ i + 1 \in DOMAIN reader.todo
      /\ \A j \in DOMAIN reader.todo : j # 1 => j - 1 \in DOMAIN tail /\ reader.todo[j] = tail[j - 1]
  <2>1. tail \in Seq(Nat) /\ Len(tail) = Len(reader.todo) - 1 /\ \A i \in 1..Len(tail) : tail[i] = reader.todo[i + 1]
    BY <1>1, HeadTailProperties
  <2>2. DOMAIN tail = 1..Len(tail)
    BY <2>1, LenProperties
  <2>3. DOMAIN tail = 1..(Len(reader.todo) - 1)
    BY <2>1, <2>2
  <2>4. \A i \in DOMAIN tail : tail[i] = reader.todo[i + 1]
    BY <2>1, <2>2
  <2>5. \A i \in DOMAIN tail : i \in Nat /\ i + 1 \in DOMAIN reader.todo
    BY <1>1, <2>3
  <2>6. ASSUME NEW j \in DOMAIN reader.todo, j # 1
        PROVE  j - 1 \in DOMAIN tail /\ reader.todo[j] = tail[j - 1]
    <3>1. j - 1 \in DOMAIN tail /\ (j - 1) + 1 = j
      BY <1>1, <2>3, <2>6
    <3> QED BY <2>4, <3>1
  <2> QED BY <2>1, <2>3, <2>4, <2>5, <2>6
<1>3. File(n) = CopyLines(n)
  <2>1. n <= parks
    BY <1>1 DEF Reading
  <2>2. n # parks + 1
    BY <1>0, <2>1
  <2> QED BY <2>2 DEF File
<1>4. /\ RUnchanged /\ reader.pc = "read"
      /\ reader' = [reader EXCEPT !.last = Latest(@, File(n)), !.todo = tail]
  BY <1>1, <1>3 DEF ReadCopy
<1>5. UNCHANGED <<policy, key, done, live, copies, parks>>
  BY <1>4 DEF RUnchanged, hist, store
<1>6. /\ Latest(reader.last, File(n)) \in [Keys -> Nat \cup {None}]
      /\ \A k \in Keys : Latest(reader.last, File(n))[k] # None =>
           Latest(reader.last, File(n))[k] \in done /\ key[Latest(reader.last, File(n))[k]] = k
  BY LatestIsDone
<1>7. /\ reader' \in Reader /\ reader'.pc = "read" /\ reader'.listed = reader.listed /\ reader'.todo = tail
      /\ reader'.must = reader.must /\ reader'.missed = reader.missed /\ reader'.last = Latest(reader.last, File(n))
  BY <1>0, <1>2, <1>4, <1>6 DEF Reader
<1>8. ToSet(tail) \subseteq Nat /\ ToSet(reader.todo) = ToSet(tail) \cup {n}
  <2>1. ASSUME NEW j \in DOMAIN reader.todo  PROVE reader.todo[j] \in ToSet(tail) \cup {n}
    BY <1>2 DEF ToSet
  <2>2. ASSUME NEW i \in DOMAIN tail  PROVE tail[i] \in ToSet(reader.todo)
    BY <1>2 DEF ToSet
  <2>3. n \in ToSet(reader.todo)
    BY <1>1 DEF ToSet
  <2>4. ToSet(reader.todo) = ToSet(tail) \cup {n}
    BY <2>1, <2>2, <2>3 DEF ToSet
  <2> QED BY <2>4, TodoIsListed
<1>9. Reading'
  <2>1. \A i \in DOMAIN tail : tail[i] \in reader.listed
    BY <1>2 DEF Reading
  <2>2. \A i, j \in DOMAIN tail : i < j => tail[i] < tail[j]
    <3>1. SUFFICES ASSUME NEW i \in DOMAIN tail, NEW j \in DOMAIN tail, i < j  PROVE tail[i] < tail[j]
      OBVIOUS
    <3>2. i + 1 < j + 1
      BY <1>1, <1>2, <3>1
    <3> QED BY <1>2, <3>2 DEF Reading
  <2>3. ASSUME NEW h \in reader.listed, NEW i \in DOMAIN tail, h > tail[i]  PROVE h \in ToSet(tail)
    <3>1. h \in ToSet(reader.todo)
      BY <1>2, <1>4, <2>3 DEF Reading
    <3>2. n < tail[i]
      <4>1. 1 \in DOMAIN reader.todo /\ i + 1 \in DOMAIN reader.todo /\ 1 < i + 1
        BY <1>1, <1>2
      <4> QED BY <1>2, <4>1 DEF Reading
    <3>3. tail[i] \in Nat
      <4>1. tail[i] \in ToSet(tail)
        BY DEF ToSet
      <4> QED BY <1>8, <4>1
    <3>4. h \in Nat
      BY TodoIsListed
    <3> QED BY <1>8, <2>3, <3>1, <3>2, <3>3, <3>4
  <2>4. ToSet(reader.todo)' = ToSet(tail)
    BY <1>7 DEF ToSet
  <2> QED BY <1>4, <1>5, <1>6, <1>7, <2>1, <2>2, <2>3, <2>4 DEF Reading
<1>10. ASSUME NEW q, Ranking(q), Guides(q), Fair', NEW x \in reader.must
       PROVE  Found(q, x)' \/ \E h \in Ahead' : Standing(q, x, h)'
  <2>1. Fair
    BY <1>5, <1>7, <1>10 DEF Fair, Names
  <2> PICK last : last = Latest(reader.last, File(n))
    OBVIOUS
  <2>2. ASSUME NEW B \in SUBSET Nat, Ahead \subseteq B \cup {n},
               \A h \in Names \cup {parks + 1} : h \notin B => h <= n
        PROVE  \/ last[key[x]] # None /\ q[x] <= q[last[key[x]]]
               \/ \E h \in B : Standing(q, x, h)
    <3>1. reader.pc = "read" /\ Ranking(q) /\ Guides(q)
      BY <1>4, <1>10
    <3> QED BY <2>1, <2>2, <3>1, FileIsRead
  <2> PICK A : A = ToSet(tail) \cup {parks + 1}
    OBVIOUS
  <2>3. A \in SUBSET Nat
    <3>1. parks + 1 \in Nat
      BY <1>0
    <3> QED BY <1>8, <3>1
  <2>4. Ahead \subseteq A \cup {n} /\ Ahead' = A
    <3>1. ToSet(reader.todo)' = ToSet(tail)
      BY <1>7 DEF ToSet
    <3> QED BY <1>5, <1>8, <3>1 DEF Ahead
  <2>5. ASSUME NEW h \in Names \cup {parks + 1}, h \notin A  PROVE h <= n
    <3>1. h \in Names /\ h \in reader.listed /\ h \notin ToSet(tail)
      BY <2>1, <2>5 DEF Fair
    <3>2. h > n => h \in ToSet(reader.todo)
      BY <1>1, <1>4, <3>1 DEF Reading
    <3> QED BY <1>0, <1>8, <3>1, <3>2
  <2>6. \/ last[key[x]] # None /\ q[x] <= q[last[key[x]]]
        \/ \E h \in A : Standing(q, x, h)
    <3>1. \A h \in Names \cup {parks + 1} : h \notin A => h <= n
      BY <2>5
    <3>2. Ahead \subseteq A \cup {n}
      BY <2>4
    <3> QED BY <2>3, <2>2, <3>1, <3>2
  <2>7. \A h \in A : Standing(q, x, h)' <=> Standing(q, x, h)
    BY <1>5 DEF Standing, File, CopyLines, Copy, Names, ToSet
  <2> QED BY <1>5, <1>7, <2>4, <2>6, <2>7 DEF Found
<1>11. ASSUME NEW q, Ranking(q), Guides(q)  PROVE ReaderFinds(q)'
  BY <1>7, <1>10, <1>11 DEF ReaderFinds
<1> QED BY <1>4, <1>9, <1>11, OnlyReads

LEMMA OpenKeepsReading ==
  ASSUME FramedInv, Reading, NEW a \in Appenders, NEW k \in Keys, Open(a, k)
  PROVE  ReadingGoesOn
<1>0. CopyInv /\ Types
  BY DEF FramedInv, DoubleInv, CopyInv
<1>1. /\ key' = Append(key, k) /\ live' = (IF live = None THEN <<>> ELSE live)
      /\ UNCHANGED <<policy, copies, parks, done, reader>>
  BY DEF Open
<1>2. InFile(live)' = InFile(live)
  <2>1. <<>> # None /\ ToSet(<<>>) = {}
    <3>1. <<>> # None
      BY NoneIsNoFile, EmptySeq
    <3>2. ToSet(<<>>) = {}
      BY DEF ToSet
    <3> QED BY <3>1, <3>2
  <2>2. CASE live = None
    <3>1. live' = <<>>
      BY <1>1, <2>2
    <3>2. InFile(live)' = ToSet(<<>>)
      BY <2>1, <3>1 DEF InFile, ToSet
    <3> QED BY <2>1, <2>2, <3>2 DEF InFile
  <2>3. CASE live # None
    BY <1>1, <2>3 DEF InFile, ToSet
  <2> QED BY <2>2, <2>3
<1>3. LinesLast
  <2>1. done \subseteq 1..Len(key)
    BY LinesAreDone DEF Lines
  <2>2. \A y \in done : key'[y] = key[y]
    BY <1>0, <1>1, <2>1, AppendProperties DEF Types
  <2> QED BY <1>1, <2>2 DEF LinesLast
<1> QED BY <1>1, <1>2, <1>3, SameFilesKeepReading

\* A step of the maintainer that touches no file the reader goes by.
LEMMA ThinkingKeepsReading ==
  ASSUME FramedInv, Reading, UNCHANGED <<policy, key, done, live, copies, parks, reader>>
  PROVE  ReadingGoesOn
<1>1. InFile(live)' = InFile(live)
  BY DEF InFile, ToSet
<1>2. LinesLast
  BY DEF LinesLast
<1> QED BY <1>1, <1>2, SameFilesKeepReading

LEMMA ParksKeepReading ==
  ASSUME FramedInv, Reading, Park \/ RestorePark
  PROVE  ReadingGoesOn
<1>0. CopyInv /\ m \in Maintainer /\ RunInv
  BY DEF FramedInv, DoubleInv, CopyInv, Types
<1>1. Rewriting /\ UNCHANGED <<policy, key, done, before, reader>>
  BY DEF Park, RestorePark, Rewriting, MUnchanged
<1>2. CASE live # None
  BY <1>1, <1>2, ParkedKeepsReading DEF Park, RestorePark
<1>3. CASE live = None
  <2>1. UNCHANGED <<live, copies, parks>>
    BY <1>3 DEF Park, RestorePark
  <2> QED BY <1>1, <2>1, ThinkingKeepsReading
<1> QED BY <1>2, <1>3

LEMMA ThinkingStepsKeepReading ==
  ASSUME FramedInv, Reading,
         StartRewrite \/ StartMerge \/ Look \/ WriteSurvivors \/ Archive \/ Fault \/ Crash \/ UNCHANGED vars
  PROVE  ReadingGoesOn
<1>1. UNCHANGED <<policy, key, done, live, copies, parks, reader>>
  BY DEF StartRewrite, StartMerge, Look, WriteSurvivors, Archive, Fault, Crash, vars, MUnchanged, store, hist
<1> QED BY <1>1, ThinkingKeepsReading

\* Every step keeps a reader on its way.
LEMMA ReadingStep ==
  ASSUME OrderInv, FramedInv', Reading, Quiet, NEW r, Ranking(r), Guides(r), [Next]_vars
  PROVE  ReadingGoesOn
<1>0. FramedInv
  BY DEF OrderInv
<1>1. ASSUME NEW a \in Appenders, Write(a)  PROVE ReadingGoesOn
  BY <1>1, WriteKeepsReading
<1>2. ASSUME NEW a \in Appenders, NEW k \in Keys, Open(a, k)  PROVE ReadingGoesOn
  BY <1>0, <1>2, OpenKeepsReading
<1>3. CASE Rotate
  BY <1>0, <1>3, RotateKeepsReading
<1>4. CASE Park \/ RestorePark
  BY <1>0, <1>4, ParksKeepReading
<1>5. CASE Publish
  BY <1>0, <1>5, PublishKeepsReading
<1>6. CASE RestoreMove
  BY <1>6, RestoreMoveKeepsReading
<1>7. CASE Cleanup
  BY <1>0, <1>7, CleanupKeepsReading
<1>8. CASE StartRewrite \/ StartMerge \/ Look \/ WriteSurvivors \/ Archive \/ Fault \/ Crash \/ UNCHANGED vars
  BY <1>0, <1>8, ThinkingStepsKeepReading
<1>9. CASE ReadStart
  BY <1>0, <1>9, ReadStartKeepsReading
<1>10. CASE ReadCopy
  BY <1>0, <1>10, ReadCopyKeepsReading
<1>11. CASE ReadLive
  BY <1>0, <1>11, ReadLiveKeepsReading
<1>12. CASE Relist
  BY <1>0, <1>12, RelistKeepsReading
<1>13. CASE ReadReturn
  BY <1>0, <1>13, ReadReturnKeepsReading
<1> QED BY <1>1, <1>2, <1>3, <1>4, <1>5, <1>6, <1>7, <1>8, <1>9, <1>10, <1>11, <1>12, <1>13 DEF Next
-----------------------------------------------------------------------------
(* A reader is current *)

\* Nothing is read, and the live file is the only one.
LEMMA InitIsReadInv == Init => ReadInv
<1> SUFFICES ASSUME Init  PROVE ReadInv
  OBVIOUS
<1>1. KeptInv
  BY InitIsKeptInv
<1>2. CopyInv /\ FramedInv /\ parks = 0 /\ copies = <<>> /\ reader = NoReader
  BY <1>1 DEF Init, KeptInv, FramedInv, DoubleInv
<1>3. PICK r : Ranking(r) /\ Orders(r) /\ Placed(r) /\ AllKept(r)
  BY <1>1 DEF KeptInv
<1>4. /\ reader \in Reader /\ reader.pc = "idle" /\ reader.listed = {} /\ reader.todo = <<>>
      /\ \A k \in Keys : reader.last[k] = None
  BY <1>2, EmptySeq DEF NoReader, Reader
<1>5. Reading
  BY <1>4 DEF Reading
<1>6. ReaderFinds(r)
  BY <1>4 DEF ReaderFinds
<1>7. LastIsBest(r)
  <2>1. Names = {}
    BY <1>2 DEF Names
  <2>2. \A n \in Nat : n # 1 => File(n) = <<>>
    BY <1>2, <2>1, FilesHold
  <2>3. \A n \in Nat : n # 1 => ToSet(File(n)) = {}
    BY <2>2 DEF ToSet
  <2> QED BY <2>3 DEF LastIsBest
<1>8. Guides(r)
  BY <1>3, <1>6, <1>7 DEF Guides, Orders
<1> QED BY <1>1, <1>2, <1>3, <1>5, <1>8 DEF ReadInv, KeptInv

\* What ranks as high as a line of its key is not older than it.
LEMMA ReadInvIsCurrent == ReadInv => ReaderIsCurrent
<1> SUFFICES ASSUME ReadInv, reader.pc = "seen", ~reader.missed, NEW x \in reader.must
             PROVE  reader.last[key[x]] # None /\ ~Older(reader.last[key[x]], x)
  BY DEF ReaderIsCurrent
<1>1. FramedInv /\ Reading
  BY DEF ReadInv
<1>2. PICK r : Ranking(r) /\ Orders(r) /\ Guides(r)
  BY DEF ReadInv
<1>3. Found(r, x)
  BY <1>2 DEF Guides, ReaderFinds
<1>4. x \in done /\ key[x] \in Keys
  <2>1. x \in done
    BY <1>1 DEF Reading
  <2>2. done \subseteq 1..Len(key) /\ key \in Seq(Keys)
    BY <1>1, LinesAreDone DEF Lines, FramedInv, DoubleInv, CopyInv, Types
  <2> QED BY <2>1, <2>2, ElementOfSeq
<1> PICK y : y = reader.last[key[x]]
  OBVIOUS
<1>5. y # None /\ r[x] <= r[y] /\ y \in done
  BY <1>1, <1>3, <1>4 DEF Found, Reading
<1>6. ~Older(y, x)
  <2>1. x \in Lines /\ r[x] \in Nat /\ r[y] \in Nat
    BY <1>1, <1>2, <1>4, <1>5, LinesAreDone, DoneIsRanked
  <2> QED BY <1>2, <1>5, <2>1 DEF Orders, Ranks, Older
<1> QED BY <1>5, <1>6

\* streamJsonLinesAcrossCompaction gives, for every key, a row that is not older than any
\* that was written before the reader began: whatever is appended, parked, published,
\* restored and removed meanwhile, unless a copy was parked and removed between its two
\* listings or it gave up, as long as no line is appended in the middle of a restore and
\* the removal of a run's copies is not split.
THEOREM ReadersSeeTheLatest ==
  ASSUME AppendInRestore = FALSE, SplitCleanup = FALSE
  PROVE  Spec => []ReaderIsCurrent
<1>1. Init => ReadInv
  BY InitIsReadInv
<1>2. ReadInv /\ [Next]_vars => ReadInv'
  <2>1. SUFFICES ASSUME ReadInv, [Next]_vars  PROVE ReadInv'
    OBVIOUS
  <2>2. PICK r : Ranking(r) /\ Orders(r) /\ Guides(r)
    BY <2>1 DEF ReadInv
  <2>3. OrderInv /\ FramedInv /\ Reading /\ Quiet
    BY <2>1 DEF ReadInv, OrderInv
  <2>4. OrderGoesOn /\ KeepsAll
    BY <2>1, <2>3, KeptStep
  <2>5. ReadingGoesOn
    BY <2>1, <2>2, <2>3, <2>4, ReadingStep DEF OrderGoesOn
  <2>6. PICK q : Ranking(q) /\ Orders(q)' /\ Follows(q, r)
    BY <2>2, <2>4 DEF OrderGoesOn
  <2>7. Guides(q)
    BY <2>2, <2>3, <2>6, GuidesFollow
  <2>8. Placed(q)' /\ AllKept(q)' /\ Quiet'
    BY <2>2, <2>4, <2>6 DEF KeepsAll, Guides
  <2>9. Reading' /\ LastIsBest(q)' /\ ReaderFinds(q)'
    BY <2>5, <2>6, <2>7 DEF ReadingGoesOn
  <2>10. \A n \in Nat : Sorted(q, File(n))'
    BY <2>6 DEF Orders
  <2>11. Ranking(q)' /\ FramedInv'
    BY <2>4, <2>6 DEF Ranking, OrderGoesOn
  <2> QED BY <2>6, <2>8, <2>9, <2>10, <2>11 DEF ReadInv, Guides
<1>3. ReadInv => ReaderIsCurrent
  BY ReadInvIsCurrent
<1> QED BY <1>1, <1>2, <1>3, PTL DEF Spec
=============================================================================
