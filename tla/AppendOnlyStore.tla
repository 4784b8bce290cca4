--------------------------- MODULE AppendOnlyStore ---------------------------
(***************************************************************************)
(* Maintenance of a JSONL store while other processes append to it and     *)
(* read it: rotation, compaction by key and the time window of             *)
(* append-only-store.ts (rewriteParked), the recovery of leftover copies   *)
(* (mergeCompactionCopies, compaction-copy-recovery.ts) and the reader of  *)
(* jsonl-parked-read.ts.                                                   *)
(*                                                                         *)
(* A step is one file operation.  An append opens the live file, or        *)
(* creates it, and then writes one line; a file that is moved meanwhile    *)
(* takes its open appends along.  Maintenance runs under the store's lock, *)
(* so there is one maintainer at a time; appenders and readers take no     *)
(* lock.  Lines are never equal: stores rewritten this way stamp them.     *)
(* Unreadable and oversized lines, which both passes keep as they are, and *)
(* the audit record are left out.                                          *)
(***************************************************************************)
EXTENDS Integers, Sequences, SequencesExt, FiniteSetsExt

CONSTANTS
  Appenders, Keys, None,
  StartLines,       \* lines the store has grown to before
  MaxLines,         \* bound: lines ever
  MaxCopies,        \* bound: copies ever parked
  MaxTrouble,       \* bound: failing file operations and deaths of a maintainer
  MinLines,         \* threshold of the policy
  ParkAttempts,     \* COMPACT_MAX_PARK_ATTEMPTS: every cap up to it is tried
  StreamRounds,     \* MAX_STREAM_ROUNDS
  AppendInRestore,  \* may a line be appended between restore's look and its rename?
  SplitCleanup      \* may a death or a failing unlink leave a copy on disk although an earlier
                    \* one of its run is removed?

ASSUME StoreAssumption ==
  /\ StartLines \in Nat /\ MaxLines \in Nat /\ MaxCopies \in Nat /\ MaxTrouble \in Nat
  /\ MinLines \in Nat /\ ParkAttempts \in Nat /\ StreamRounds \in Nat \ {0}
  /\ AppendInRestore \in BOOLEAN /\ SplitCleanup \in BOOLEAN
\* The value for "no file" is neither a file nor the name of one.
ASSUME NoneIsNoFile == None \notin Int /\ None \notin Seq(Nat)

VARIABLES
  policy,    \* [action, archive, rounds, since]: what the store's maintenance does, how
             \* often it merges a live file that came back, and the first line in the
             \* window; fixed
  key,       \* the keys of the lines opened so far
  live,      \* the live file: a sequence of lines, or None
  copies,    \* parked copies on disk, in park order
  parks,     \* number of copies parked so far: their names
  archived,  \* lines in archives and rotated segments
  app,       \* appenders
  m,         \* the maintainer
  reader,
  done,      \* history: lines whose append has returned
  before,    \* history: the lines of its key done when a line's append began
  trouble    \* history: failures and deaths so far

vars == <<policy, key, live, copies, parks, archived, app, m, reader, done, before, trouble>>
store == <<live, copies, parks, archived>>
hist == <<key, done, before>>

Lines == 1..Len(key)
\* Where an append is open: the live file, a parked copy by its name, or a file
\* that has lost its last name.
Live == 0
Gone == -1
Idle == [pc |-> "idle", run |-> "none", mine |-> <<>>, round |-> 0, temp |-> <<>>,
         published |-> FALSE, restored |-> FALSE, failed |-> FALSE, cleaned |-> FALSE]
NoReader == [pc |-> "idle", listed |-> {}, todo |-> <<>>, last |-> [k \in Keys |-> None],
             must |-> {}, round |-> 0, missed |-> FALSE]

Init ==
  /\ policy \in [action : {"compact", "window", "rotate"}, archive : BOOLEAN,
                  rounds : 0..ParkAttempts, since : 0..MaxLines]
  /\ policy.action = "rotate" => ~policy.archive
  /\ policy.action = "window" <=> policy.since > 0
  /\ key \in [1..StartLines -> Keys]
  /\ live = [i \in 1..StartLines |-> i] /\ copies = <<>> /\ parks = 0 /\ archived = {}
  /\ app = [a \in Appenders |-> [at |-> None, line |-> 0]]
  /\ m = Idle /\ reader = NoReader
  /\ done = 1..StartLines /\ before = [i \in 1..StartLines |-> {j \in 1..(i - 1) : key[j] = key[i]}]
  /\ trouble = 0

\* A file as a set of lines, and a copy by its name.
InFile(f) == IF f = None THEN {} ELSE ToSet(f)
Names == {copies[i].name : i \in DOMAIN copies}
Copy(n) == CHOOSE i \in DOMAIN copies : copies[i].name = n
CopyLines(n) == IF n \in Names THEN copies[Copy(n)].lines ELSE <<>>
-----------------------------------------------------------------------------
(* Appenders: safeAppendFileSync opens the path, then writes *)

Open(a, k) ==
  /\ app[a].at = None /\ Len(key) < MaxLines
  /\ ~AppendInRestore => m.pc # "restore_move"
  /\ key' = Append(key, k)
  /\ before' = Append(before, {x \in done : key[x] = k})
  /\ live' = IF live = None THEN <<>> ELSE live
  /\ app' = [app EXCEPT ![a] = [at |-> Live, line |-> Len(key) + 1]]
  /\ UNCHANGED <<policy, copies, parks, archived, m, reader, done, trouble>>

Write(a) ==
  /\ app[a].at # None
  /\ live' = IF app[a].at = Live THEN Append(live, app[a].line) ELSE live
  /\ copies' = IF app[a].at \in Names
               THEN [copies EXCEPT ![Copy(app[a].at)].lines = Append(@, app[a].line)] ELSE copies
  /\ done' = done \cup {app[a].line}
  /\ app' = [app EXCEPT ![a] = [at |-> None, line |-> 0]]
  /\ UNCHANGED <<policy, key, parks, archived, m, reader, before, trouble>>

\* Appends open on the live file follow it to its new name, or to nowhere.
Follow(to) == [a \in Appenders |-> IF app[a].at = Live THEN [app[a] EXCEPT !.at = to] ELSE app[a]]
\* The appenders reopen the path for every line, so a line that is on its way
\* to a parked copy arrives before the copy is read for the last time.
NoStragglers == \A a \in Appenders : app[a].at \notin Names
-----------------------------------------------------------------------------
(* The maintainer: maintainStoreAfterAppend, runPolicy, rewriteParked *)

Mine == {m.mine[i].name : i \in DOMAIN m.mine}
Own == {n \in DOMAIN m.mine : ~m.mine[n].adopted}

\* A run's lines by their place: <<n, i>> is the i-th line of its n-th copy.
Places(N) == UNION {{n} \X DOMAIN CopyLines(m.mine[n].name) : n \in N}
LineAt(p) == CopyLines(m.mine[p[1]].name)[p[2]]
Precedes(p, q) == p[1] < q[1] \/ (p[1] = q[1] /\ p[2] <= q[2])
\* The file that holds the lines at the places P, in their order.
Gather(P) ==
  LET Rank(p) == Cardinality({q \in P : Precedes(q, p)})
  IN [k \in 1..Cardinality(P) |-> LineAt(CHOOSE p \in P : Rank(p) = k)]
MUnchanged == UNCHANGED <<policy, key, done, before>>

\* analyzeStoreKeys: there is something to fold.
Foldable(lines) == \E i, j \in DOMAIN lines : i # j /\ key[lines[i]] = key[lines[j]]

\* An append that is open on the live file would end in the segment: it is
\* taken as made before the rename.
Rotate ==
  /\ policy.action = "rotate" /\ m = Idle
  /\ live # None /\ Len(live) >= MinLines /\ Len(live) > 0
  /\ \A a \in Appenders : app[a].at # Live
  /\ archived' = archived \cup InFile(live)
  /\ live' = None
  /\ UNCHANGED <<copies, parks, app, m, reader, trouble>> /\ MUnchanged

StartRewrite ==
  /\ policy.action # "rotate" /\ m = Idle
  /\ live # None /\ Len(live) >= MinLines
  /\ policy.action = "compact" => Foldable(live)
  /\ m' = [Idle EXCEPT !.pc = "park", !.run = policy.action]
  /\ UNCHANGED <<store, app, reader, trouble>> /\ MUnchanged

\* The order parkedCompactionCopies lists the copies in.
\* Mutant: their names do not sort in park order.
ParkOrder_Unsorted == Reverse(copies)
ParkOrder == copies
\* recoverCompactionCopies: the copies of an earlier rewrite are old, so it is over.
StartMerge ==
  /\ m = Idle /\ copies # <<>>
  /\ m' = [Idle EXCEPT !.pc = "park", !.run = "merge",
             !.mine = [i \in DOMAIN copies |->
                        [name |-> ParkOrder[i].name, indexed |-> Len(ParkOrder[i].lines),
                         adopted |-> TRUE]]]
  /\ UNCHANGED <<store, app, reader, trouble>> /\ MUnchanged

\* Move the live file aside and index it: what is there now is pass 1's.
Parked(pc) ==
  /\ parks < MaxCopies
  /\ parks' = parks + 1
  /\ copies' = Append(copies, [name |-> parks', lines |-> live])
  /\ live' = None
  /\ app' = Follow(parks')
  /\ m' = [m EXCEPT !.pc = pc,
             !.mine = Append(@, [name |-> parks', indexed |-> Len(live), adopted |-> FALSE])]
Park ==
  /\ m.pc = "park"
  /\ \/ live # None /\ Parked("look")
     \/ /\ live = None
        /\ m' = IF m.mine = <<>> THEN Idle ELSE [m EXCEPT !.pc = "look"]
        /\ UNCHANGED <<live, copies, parks, app>>
  /\ UNCHANGED <<archived, reader, trouble>> /\ MUnchanged

\* After a round that did not publish.
NextRound(mm) ==
  IF mm.round < policy.rounds THEN [mm EXCEPT !.pc = "park", !.round = @ + 1]
  ELSE [mm EXCEPT !.pc = "restore"]
Look ==
  /\ m.pc = "look"
  /\ m' = IF live = None THEN [m EXCEPT !.pc = "survivors"] ELSE NextRound(m)
  /\ UNCHANGED <<store, app, reader, trouble>> /\ MUnchanged

\* What pass 1 has seen.
Indexed == {p \in Places(DOMAIN m.mine) : p[2] <= m.mine[p[1]].indexed}
LastOfKey(p) ==
  \A q \in Indexed : key[LineAt(q)] = key[LineAt(p)] =>
    \E e \in Indexed : Precedes(q, e) /\ LineAt(e) = LineAt(p)
\* Mutant: a merge keeps the lines that the copies and the live file share.
EarlierFile_Kept(p) == FALSE
EarlierFile(p) == \E q \in Indexed : q[1] < p[1] /\ LineAt(q) = LineAt(p)
\* compactStoreByKey, retainWindow, mergeCompactionCopies: does the line at p
\* survive?
Keep(p) ==
  CASE m.run = "compact" -> LastOfKey(p)
    [] m.run = "window" -> LineAt(p) >= policy.since
    [] m.run = "merge" -> ~EarlierFile(p)

\* Pass 2: filter what pass 1 has seen, copy the rest as it is.
Survivors == {p \in Places(DOMAIN m.mine) : p \in Indexed => Keep(p)}
WriteSurvivors ==
  /\ m.pc = "survivors" /\ NoStragglers
  /\ m' = [m EXCEPT !.pc = "publish", !.temp = Gather(Survivors)]
  /\ UNCHANGED <<store, app, reader, trouble>> /\ MUnchanged

\* An exclusive link: a live file that came back is merged in another round.
\* Mutant: it is replaced.
CanPublish_Replace == TRUE
CanPublish == live = None
Publish ==
  /\ m.pc = "publish"
  /\ \/ /\ CanPublish
        /\ live' = m.temp
        /\ app' = Follow(Gone)
        /\ m' = [m EXCEPT !.pc = "archive", !.temp = <<>>, !.published = TRUE, !.restored = TRUE]
     \/ /\ ~CanPublish
        /\ m' = NextRound([m EXCEPT !.temp = <<>>])
        /\ UNCHANGED <<live, app>>
  /\ UNCHANGED <<copies, parks, archived, reader, trouble>> /\ MUnchanged

\* restoreRawUnion: park what came back, then rename the union of the run's own
\* copies over the live path.
RestorePark ==
  /\ m.pc = "restore"
  /\ \/ live # None /\ Parked("restore_move")
     \/ /\ live = None /\ m' = [m EXCEPT !.pc = "restore_move"]
        /\ UNCHANGED <<live, copies, parks, app>>
  /\ UNCHANGED <<archived, reader, trouble>> /\ MUnchanged
AfterRestore == IF m.failed THEN "cleanup" ELSE "archive"
RestoreMove ==
  /\ m.pc = "restore_move" /\ NoStragglers
  /\ IF Own = {} THEN UNCHANGED <<live, app>>
     ELSE live' = Gather(Places(Own)) /\ app' = Follow(Gone)
  /\ m' = [m EXCEPT !.pc = AfterRestore, !.restored = TRUE]
  /\ UNCHANGED <<copies, parks, archived, reader, trouble>> /\ MUnchanged

\* The raw union is archived if the policy says so; a merge has no archive.
Archives == policy.archive /\ m.run # "merge"
Archive ==
  /\ m.pc = "archive" /\ NoStragglers
  /\ archived' = IF Archives THEN archived \cup {LineAt(p) : p \in Places(DOMAIN m.mine)} ELSE archived
  /\ m' = [m EXCEPT !.pc = "cleanup"]
  /\ UNCHANGED <<live, copies, parks, app, reader, trouble>> /\ MUnchanged

\* The copies are removed one by one, those of an earlier rewrite only once
\* the result is published.
\* Mutant: so do the rewrite's own ones.
Removable_Published(c) == m.published
Removable(c) == ~c.adopted \/ m.published
NextToRemove(i) == Removable(m.mine[i]) /\ \A j \in 1..(i - 1) : ~Removable(m.mine[j])
AllRemoved == \A i \in DOMAIN m.mine : ~Removable(m.mine[i])
Cleanup ==
  /\ m.pc = "cleanup"
  /\ \/ \E i \in DOMAIN m.mine :
          LET name == m.mine[i].name
          IN /\ NextToRemove(i)
             /\ copies' = RemoveAt(copies, Copy(name))
             /\ m' = [m EXCEPT !.mine = RemoveAt(@, i), !.cleaned = TRUE]
             /\ reader' = [reader EXCEPT !.missed = @ \/ (reader.pc # "idle" /\ name \notin reader.listed)]
     \/ AllRemoved /\ m' = Idle /\ UNCHANGED <<copies, reader>>
  /\ UNCHANGED <<live, parks, archived, app, trouble>> /\ MUnchanged

\* A file operation fails.  Before the live file is whole again the union is
\* restored; when that fails as well the copies stay.  After a restore the
\* copies go, after a publish whose archive failed they stay.  A failing unlink
\* is passed over: its copy stays, and the next one is removed.
KeepsCopies == ~m.restored \/ (m.published /\ Archives)
Fault ==
  /\ trouble < MaxTrouble /\ trouble' = trouble + 1
  /\ \/ /\ m.pc \in {"survivors", "publish", "park", "restore", "restore_move"} /\ ~m.failed
        /\ m' = IF m.mine = <<>> THEN Idle ELSE [m EXCEPT !.pc = "restore", !.failed = TRUE, !.temp = <<>>]
     \/ /\ m.pc \in {"restore", "restore_move"} /\ m.failed
        /\ m' = IF KeepsCopies THEN Idle ELSE [m EXCEPT !.pc = "cleanup"]
     \/ /\ m.pc = "archive" /\ Archives
        /\ m' = IF KeepsCopies THEN Idle ELSE [m EXCEPT !.pc = "cleanup"]
     \/ /\ m.pc = "cleanup" /\ (SplitCleanup \/ ~m.cleaned)
        /\ \E i \in DOMAIN m.mine : NextToRemove(i) /\ m' = [m EXCEPT !.mine = RemoveAt(@, i)]
  /\ UNCHANGED <<store, app, reader>> /\ MUnchanged

\* The maintainer's process dies; its temporary file is never read.
Crash ==
  /\ m # Idle /\ trouble < MaxTrouble /\ trouble' = trouble + 1
  /\ SplitCleanup \/ ~m.cleaned \/ AllRemoved
  /\ m' = Idle
  /\ UNCHANGED <<policy, hist, store, app, reader>>
-----------------------------------------------------------------------------
(* streamJsonLinesAcrossCompaction, for a reader that keeps the last row of *)
(* each key                                                                 *)

RUnchanged == UNCHANGED <<policy, hist, store, app, m, trouble>>
InOrder == [i \in DOMAIN copies |-> copies[i].name]
Latest(last, rows) ==
  [k \in Keys |-> LET mine == {i \in DOMAIN rows : key[rows[i]] = k}
                  IN IF mine = {} THEN last[k] ELSE rows[Max(mine)]]
ReadStart ==
  /\ reader.pc = "idle" /\ policy.action = "compact"
  /\ reader' = [NoReader EXCEPT !.pc = "read", !.listed = Names, !.todo = InOrder, !.must = done]
  /\ RUnchanged
ReadCopy ==
  /\ reader.pc = "read" /\ reader.todo # <<>>
  /\ reader' = [reader EXCEPT !.last = Latest(@, CopyLines(Head(reader.todo))), !.todo = Tail(@)]
  /\ RUnchanged
ReadLive ==
  /\ reader.pc = "read" /\ reader.todo = <<>>
  /\ reader' = [reader EXCEPT !.last = Latest(@, IF live = None THEN <<>> ELSE live), !.pc = "relist"]
  /\ RUnchanged
\* Mutant: the copies are not listed again.
Again_Never == FALSE
Again == ~(Names \subseteq reader.listed)
Relist ==
  /\ reader.pc = "relist"
  /\ reader' = IF ~Again THEN [reader EXCEPT !.pc = "seen"]
               ELSE IF reader.round + 1 < StreamRounds
               THEN [reader EXCEPT !.pc = "read", !.listed = Names, !.todo = InOrder,
                       !.round = @ + 1, !.missed = FALSE]
               ELSE [reader EXCEPT !.pc = "gave up"]
  /\ RUnchanged
ReadReturn ==
  /\ reader.pc \in {"seen", "gave up"} /\ reader' = NoReader
  /\ RUnchanged

Next ==
  \/ \E a \in Appenders : Write(a) \/ \E k \in Keys : Open(a, k)
  \/ Rotate \/ StartRewrite \/ StartMerge \/ Park \/ Look \/ WriteSurvivors \/ Publish
  \/ RestorePark \/ RestoreMove \/ Archive \/ Cleanup \/ Fault \/ Crash
  \/ ReadStart \/ ReadCopy \/ ReadLive \/ Relist \/ ReadReturn
Spec == Init /\ [][Next]_vars
-----------------------------------------------------------------------------
MaintainerPcs == {"idle", "park", "look", "survivors", "publish", "restore", "restore_move",
                  "archive", "cleanup"}
TypeOK ==
  /\ key \in Seq(Keys) /\ Len(key) <= MaxLines /\ done \subseteq Lines
  /\ live = None \/ live \in Seq(Lines)
  /\ parks \in 0..MaxCopies /\ archived \subseteq Lines
  /\ \A i \in DOMAIN copies : copies[i].name \in 1..parks /\ copies[i].lines \in Seq(Lines)
  /\ \A a \in Appenders : app[a].at \in {None} \cup (Gone..parks)
  /\ m.pc \in MaintainerPcs /\ m.round \in 0..policy.rounds
  /\ \A i \in DOMAIN m.mine : m.mine[i].indexed \in 0..MaxLines

\* Lines the store still holds, in the live file or a copy of it.
Held == InFile(live) \cup UNION {ToSet(copies[i].lines) : i \in DOMAIN copies}
Older(x, y) == x \in before[y]

\* No acknowledged line disappears: it is in the live file, a parked copy, an
\* archive or a segment; without an archive a compaction keeps one of its key
\* that is not older, a window all lines in it.
NoLineLost ==
  \A x \in done :
    \/ x \in Held \cup archived
    \/ policy.action = "compact" /\ ~policy.archive
         /\ \E y \in Held : key[y] = key[x] /\ ~Older(y, x)
    \/ policy.action = "window" /\ ~policy.archive /\ x < policy.since

\* "Older before newer": of two lines of one key, one that was written before
\* the other began never comes after it, so that the last one is current.
OrderKept ==
  \A f \in {live} \cup {copies[i].lines : i \in DOMAIN copies} :
    f # None => \A i, j \in DOMAIN f : i < j /\ key[f[i]] = key[f[j]] => ~Older(f[j], f[i])

\* No line is in the live file twice, however often a rewrite was interrupted,
\* restored and its copies merged back.
NothingDoubled == live # None => IsInjective(live)

\* Copies are left behind only by a death or a failing file operation.
CopiesHaveCause == m = Idle /\ copies # <<>> => trouble > 0

\* A reader finds, for every key, a line that is not older than any line
\* written before it began, unless a rewrite parked and removed a copy between
\* its two listings or it gave up.
ReaderIsCurrent ==
  reader.pc = "seen" /\ ~reader.missed =>
    \A x \in reader.must :
      /\ reader.last[key[x]] # None
      /\ ~Older(reader.last[key[x]], x)
=============================================================================
