-------------------------- MODULE ArchiveLogProofs --------------------------
(***************************************************************************)
(* Theorems about ArchiveLog, for every value of its constants.            *)
(***************************************************************************)
EXTENDS ArchiveLogInv, FiniteSetTheorems, FunctionTheorems, WellFoundedInduction, TLAPS

(***************************************************************************)
(* Type correctness.                                                       *)
(***************************************************************************)

LEMMA BatchType ==
    ASSUME TypeOK, NEW n \in Nat
    PROVE  Batch(n) \subseteq Record
BY DEF TypeOK, Batch, Record

LEMMA InitType == Init => TypeOK
BY ConstantsAssumption DEF Init, TypeOK, Files, Manifest, Segment, Steps, Modes

LEMMA MarkedType ==
    ASSUME NEW segs \in SUBSET Segment, NEW Q,
           NEW st \in {"sealed", "quarantined"}
    PROVE  Marked(segs, Q, st) \in SUBSET Segment
BY DEF Marked, Segment

LEMMA NextType == TypeOK /\ [Next]_vars => TypeOK'
<1> SUFFICES ASSUME TypeOK, [Next]_vars PROVE TypeOK'
    OBVIOUS
<1> USE ConstantsAssumption
<1>1. ASSUME NEW n \in 1 .. MaxBatch, Ingest(n) PROVE TypeOK'
  <2>1. Batch(n) \subseteq Record
    BY BatchType
  <2> QED BY <1>1, <2>1 DEF Ingest, TypeOK, Files, Steps, Modes, counts
<1>2. CASE IngestFails
  <2>1. Batch(1) \subseteq Record
    BY BatchType
  <2> QED BY <1>2, <2>1 DEF IngestFails, TypeOK, Files, memory
<1>3. CASE SealAll
  BY <1>3 DEF SealAll, TypeOK, Files, disk, memory, counts, Steps, Modes
<1>4. CASE WriteSegment
  BY <1>4 DEF WriteSegment, TypeOK, Files, With, Offs, Record, counts, Steps
<1>5. CASE Publish
  BY <1>5 DEF Publish, SealedMark, TypeOK, Files, Offs, Record, Manifest, Segment, counts, Steps
<1>6. CASE Rotate
  BY <1>6 DEF Rotate, Rest, NextFile, TypeOK, Files, With, Manifest, counts, Steps
<1>7. ASSUME NEW b \in Files, CollectFile(b) PROVE TypeOK'
  BY <1>7 DEF CollectFile, TypeOK, Files, Without, memory, counts
<1>8. CASE CollectDone
  BY <1>8 DEF CollectDone, TypeOK, Files, disk, memory, counts, Steps, Modes
<1>9. ASSUME NEW s \in mem.segs, Quarantine(s) PROVE TypeOK'
  <2>1. mem'.segs \in SUBSET Segment /\ mem'.sealed = mem.sealed /\ mem' \in Manifest
    BY <1>9, MarkedType DEF Quarantine, TypeOK, Manifest
  <2> QED BY <1>9, <2>1 DEF Quarantine, TypeOK, Files
<1>10. ASSUME NEW s \in mem.segs, Repair(s) PROVE TypeOK'
  <2>1. mem'.segs \in SUBSET Segment /\ mem'.sealed = mem.sealed /\ mem' \in Manifest
    BY <1>10, MarkedType DEF Repair, TypeOK, Manifest
  <2>2. Gathered(s) \subseteq Record
    BY DEF Gathered, Frames, Files, TypeOK
  <2>3. s.first \in Nat
    BY DEF TypeOK, Manifest, Segment
  <2>4. DOMAIN dirs' \subseteq Nat /\ \A f \in DOMAIN dirs' : dirs'[f] \subseteq Record
    BY <1>10, <2>2, <2>3 DEF Repair, TypeOK, With
  <2> QED BY <1>10, <2>1, <2>4 DEF Repair, TypeOK, Files, counts
<1>11. CASE Crash
  BY <1>11 DEF Crash, Die, TypeOK, Files, disk, Steps, Modes
<1>12. ASSUME NEW n \in 1 .. MaxBatch, NEW k \in 0 .. n, CrashInIngest(n, k) PROVE TypeOK'
  <2>1. Batch(k) \subseteq Record
    BY BatchType
  <2>2. DOMAIN wal' \subseteq Nat /\ \A b \in DOMAIN wal' : wal'[b] \subseteq Record
    BY <1>12, <2>1 DEF CrashInIngest, TypeOK, Files
  <2>3. torn' \subseteq Nat
    BY <1>12 DEF CrashInIngest, TypeOK
  <2>4. born' \in Nat
    BY <1>12 DEF CrashInIngest, TypeOK
  <2> QED BY <1>12, <2>2, <2>3, <2>4
          DEF CrashInIngest, Die, TypeOK, Files, Steps, Modes
<1>13. CASE RecoverScan
  <2>1. PICK Q \in SUBSET SealedIn(man.segs), k \in 0 .. MaxFaults - faults :
           /\ faults' = faults + k
           /\ mem' = [man EXCEPT !.segs = Marked(@, Q, "quarantined")]
    BY <1>13 DEF RecoverScan, Corrupt, SetAside, Contributing
  <2>2. mem' \in Manifest /\ mem'.sealed = man.sealed
    BY <2>1, MarkedType DEF TypeOK, Manifest
  <2>3. Live \subseteq Record
    BY DEF Live, Frames, Files, TypeOK
  <2>4. next' \in Nat
    BY <1>13, <2>3 DEF RecoverScan, Corrupt, SetAside, Contributing, TypeOK, Manifest, Record
  <2>5. faults' \in Nat
    BY <2>1 DEF TypeOK
  <2>6. aside' \subseteq Record
    BY <1>13 DEF RecoverScan, Corrupt, SetAside, Contributing, TypeOK, Files
  <2> QED BY <1>13, <2>2, <2>3, <2>4, <2>5, <2>6
          DEF RecoverScan, Corrupt, SetAside, Contributing, TypeOK, Files, Without, Steps
<1>14. CASE CompactWrite
  <2>1. Merged \subseteq Record
    BY <1>14 DEF CompactWrite, Obsolete, Merged, TypeOK, Files
  <2>2. active' \in Nat /\ DOMAIN wal' \subseteq Nat
    <3>1. CASE active' = next /\ UNCHANGED wal
      BY <3>1 DEF TypeOK, Files
    <3>2. ASSUME NEW base \in Offs(Merged), active' = base,
                 wal' = With(wal, base, Merged)
          PROVE  active' \in Nat /\ DOMAIN wal' \subseteq Nat
      <4>1. base \in Nat
        BY <2>1 DEF Offs, Record
      <4> QED BY <3>2, <4>1 DEF TypeOK, Files, With
    <3> QED BY <1>14, <3>1, <3>2 DEF CompactWrite, Obsolete
  <2>3. \A b \in DOMAIN wal' : wal'[b] \subseteq Record
    BY <1>14, <2>1 DEF CompactWrite, Obsolete, TypeOK, Files, With
  <2> QED BY <1>14, <2>2, <2>3 DEF CompactWrite, Obsolete, TypeOK, Files, counts, Steps
<1>15. ASSUME NEW b \in contrib, CleanupFile(b) PROVE TypeOK'
  BY <1>15 DEF CleanupFile, TypeOK, Files, Without, counts
<1>16. CASE OpenWriter
  BY <1>16 DEF OpenWriter, TypeOK, Files, With, memory, counts, Steps
<1>17. CASE UNCHANGED vars
  BY <1>17 DEF vars, disk, memory, counts, TypeOK, Files
<1> QED
  BY <1>1, <1>2, <1>3, <1>4, <1>5, <1>6, <1>7, <1>8, <1>9, <1>10, <1>11, <1>12,
     <1>13, <1>14, <1>15, <1>16, <1>17
  DEF Next, Requests, SealSteps, CollectSteps, RecoverySteps, Crashes

\* Every variable keeps its type, with torn writes and write errors too.
THEOREM TypeCorrect == Spec => []TypeOK
<1>1. Init => TypeOK
  BY InitType
<1>2. TypeOK /\ [Next]_vars => TypeOK'
  BY NextType
<1> QED BY <1>1, <1>2, PTL DEF Spec
-----------------------------------------------------------------------------
(***************************************************************************)
(* Facts about offsets and records.                                        *)
(***************************************************************************)

LEMMA LeastNat ==
    ASSUME NEW T \in SUBSET Nat, T # {}
    PROVE  \E x \in T : \A y \in T : x <= y
<1>1. \E x \in T : \A y \in T : ~(<<y, x>> \in OpToRel(<, Nat))
  BY NatLessThanWellFounded, WFMin
<1>2. \E x \in T : \A y \in T : ~(y < x)
  BY <1>1, Zenon DEF OpToRel
<1> QED BY <1>2

\* A nonempty set of naturals with an upper bound has a greatest member.
LEMMA GreatestNat ==
    ASSUME NEW T \in SUBSET Nat, T # {}, NEW m \in Nat, \A x \in T : x <= m
    PROVE  \E x \in T : \A y \in T : y <= x
<1> DEFINE U == {m - x : x \in T}
<1>1. U \in SUBSET Nat /\ U # {}
  <2>1. \A x \in T : m - x \in Nat
    OBVIOUS
  <2>2. PICK x \in T : TRUE
    OBVIOUS
  <2> QED BY <2>1, <2>2
<1>2. PICK u \in U : \A v \in U : u <= v
  <2> HIDE DEF U
  <2> QED BY <1>1, LeastNat
<1>3. PICK x \in T : u = m - x
  OBVIOUS
<1>4. \A y \in T : m - x <= m - y
  BY <1>2, <1>3
<1> QED BY <1>4

\* Sets with one record for each offset are as large as their ranges.
LEMMA OffsCardinality ==
    ASSUME NEW R, OneEach(R), NEW a \in Int, NEW b \in Int, Offs(R) = a .. b
    PROVE  Cardinality(R) = IF a > b THEN 0 ELSE b - a + 1
<1> DEFINE f == [r \in R |-> r.off]
<1>1. f \in Bijection(R, a .. b)
  <2>1. f \in [R -> a .. b]
    BY DEF Offs
  <2>2. \A p, q \in R : f[p] = f[q] => p = q
    BY DEF OneEach
  <2>3. \A o \in a .. b : \E r \in R : f[r] = o
    BY DEF Offs
  <2> HIDE DEF f
  <2> QED BY <2>1, <2>2, <2>3, Fun_IsBij
<1>2. ExistsBijection(a .. b, R)
  BY <1>1, Fun_ExistsBijSymmetric DEF ExistsBijection
<1> QED BY <1>2, FS_Interval, FS_Bijection

LEMMA OffsOfUnion ==
    ASSUME NEW A, NEW B
    PROVE  Offs(A \cup B) = Offs(A) \cup Offs(B)
BY DEF Offs

LEMMA BatchOffs ==
    ASSUME next \in Nat, NEW n \in Nat
    PROVE  Offs(Batch(n)) = next .. next + n - 1
<1>1. \A o \in Offs(Batch(n)) : o \in next .. next + n - 1
  BY DEF Offs, Batch
<1>2. \A o \in next .. next + n - 1 : o \in Offs(Batch(n))
  <2> TAKE o \in next .. next + n - 1
  <2>1. o - next \in 0 .. n - 1 /\ next + (o - next) = o
    OBVIOUS
  <2>2. [off |-> next + (o - next), id |-> born + (o - next)] \in Batch(n)
    BY <2>1 DEF Batch
  <2> QED BY <2>1, <2>2 DEF Offs
<1> QED BY <1>1, <1>2

\* Offsets above the sealed mark are above the retention horizon: the newest
\* segment is below them, and it is sealed (hence one of the last Retain) or
\* quarantined (hence pinned).
LEMMA UnsealedRetained ==
    ASSUME TypeOK, SegmentsInv, MemInv, NEW o \in Int, man.sealed < o
    PROVE  Retained(o, mem.segs)
<1> USE ConstantsAssumption DEF TypeOK, Manifest, Segment
<1>1. CASE man.sealed = -1
  <2>1. mem.segs = {}
    BY <1>1 DEF SegmentsInv, Tiled, MemInv, SameRanges
  <2>2. SealedIn(mem.segs) = {}
    BY <2>1 DEF SealedIn
  <2> QED BY <2>2, FS_EmptySet DEF Retained
<1>2. CASE man.sealed # -1
  <2>1. man.sealed \in 0 .. man.sealed
    BY <1>2
  <2>2. PICK t \in man.segs : t.first <= man.sealed /\ man.sealed <= t.last
    BY <2>1 DEF SegmentsInv, Tiled
  <2>3. PICK s \in mem.segs : s.first = t.first /\ s.last = t.last
    BY DEF MemInv, SameRanges
  <2>4. s.first <= o
    BY <2>2, <2>3
  <2>5. CASE s.status = "quarantined"
    BY <2>4, <2>5 DEF Retained
  <2>6. CASE s.status = "sealed"
    <3>1. \A u \in mem.segs : u.first >= s.first => u = s
      <4>1. TAKE u \in mem.segs
      <4>2. HAVE u.first >= s.first
      <4>3. PICK v \in man.segs : u.first = v.first /\ u.last = v.last
        BY DEF MemInv, SameRanges
      <4>4. v.last <= man.sealed /\ v.first <= v.last
        BY DEF SegmentsInv, Tiled
      <4>5. ~(v.last < t.first) /\ ~(t.last < v.first)
        BY <2>2, <2>3, <4>2, <4>3, <4>4
      <4>6. v = t
        BY <4>5 DEF SegmentsInv, Tiled
      <4> QED BY <2>3, <4>3, <4>6 DEF MemInv, SameRanges
    <3>2. {u \in SealedIn(mem.segs) : u.first >= s.first} = {s}
      BY <2>6, <3>1 DEF SealedIn
    <3>3. Cardinality({s}) = 1
      BY FS_Singleton
    <3>4. s \in SealedIn(mem.segs)
      BY <2>6 DEF SealedIn
    <3>5. Retain = 0 \/ 1 <= Retain
      OBVIOUS
    <3> QED BY <2>4, <3>2, <3>3, <3>4, <3>5 DEF Retained
  <2> QED BY <2>5, <2>6
<1> QED BY <1>1, <1>2

(***************************************************************************)
(* What a recovery would find.                                             *)
(***************************************************************************)

LEMMA UnsealedFacts ==
    ASSUME TypeOK
    PROVE  /\ man.sealed \in Int /\ -1 <= man.sealed
           /\ \A b \in Files : b \in Nat /\ On(b) \subseteq Nat
           /\ Unsealed \subseteq Nat
           /\ \A o : o \in Unsealed <=> man.sealed < o /\ \E b \in Files : o \in On(b)
<1>1. /\ man.sealed \in Int /\ -1 <= man.sealed
      /\ \A b \in Files : b \in Nat /\ wal[b] \subseteq Record
  BY DEF TypeOK, Manifest, Files
<1>2. \A b \in Files : On(b) \subseteq Nat
  BY <1>1 DEF On, Offs, Record
<1> QED BY <1>1, <1>2 DEF Unsealed

\* The scan keeps a record of every unsealed offset: the first file that
\* reaches the offset has a frame of it.
LEMMA UnsealedKept ==
    ASSUME TypeOK, FilesInv, NEW o \in Unsealed
    PROVE  \E b \in Files : \E r \in wal[b] : r.off = o /\ Kept(b, r)
<1> DEFINE Reach == {b \in Files : \E p \in On(b) : o <= p}
<1>1. /\ o \in Nat /\ man.sealed \in Int /\ man.sealed < o
      /\ \A b \in Files : b \in Nat /\ On(b) \subseteq Nat
  BY UnsealedFacts
<1>2. PICK c \in Files : o \in On(c)
  BY UnsealedFacts
<1>3. c \in Reach
  BY <1>1, <1>2
<1>4. PICK b \in Reach : \A d \in Reach : b <= d
  <2>1. Reach \in SUBSET Nat /\ Reach # {}
    BY <1>1, <1>3
  <2> HIDE DEF Reach
  <2> QED BY <2>1, LeastNat
<1>5. o \in On(b)
  <2>1. CASE b <= man.sealed
    <3>1. PICK p \in On(b) : o <= p
      OBVIOUS
    <3>2. man.sealed + 1 .. p \subseteq On(b)
      BY <2>1 DEF FilesInv, SelfContained
    <3> QED BY <1>1, <3>1, <3>2
  <2>2. CASE b > man.sealed
    <3>1. b = man.sealed + 1 /\ c <= man.sealed + 1
      BY <1>1, <2>2 DEF FilesInv, NamesBounded
    <3>2. b = c
      BY <1>1, <1>3, <1>4, <3>1
    <3> QED BY <1>2, <3>2
  <2> QED BY <1>1, <2>1, <2>2
<1> DEFINE ids == {r.id : r \in {q \in wal[b] : q.off = o}}
<1>6. PICK i \in ids : \A j \in ids : i <= j
  <2>1. ids \in SUBSET Nat
    BY DEF TypeOK, Record, Files
  <2>2. ids # {}
    BY <1>5 DEF On, Offs
  <2> HIDE DEF ids
  <2> QED BY <2>1, <2>2, LeastNat
<1>7. PICK r \in wal[b] : r.off = o /\ r.id = i
  OBVIOUS
<1>8. \A q \in wal[b] : q.off = r.off => r.id <= q.id
  BY <1>6, <1>7
<1>9. \A d \in Files : d < b => \A q \in wal[d] : q.off < r.off
  <2> SUFFICES ASSUME NEW d \in Files, d < b, NEW q \in wal[d] PROVE q.off < o
    BY <1>7
  <2>1. q.off \in On(d)
    BY DEF On, Offs
  <2>2. d \notin Reach
    BY <1>1, <1>4
  <2> QED BY <1>1, <2>1, <2>2
<1> QED BY <1>1, <1>7, <1>8, <1>9 DEF Kept

\* What the scan keeps are the unsealed offsets, with one record for each.
LEMMA LiveIsUnsealed ==
    ASSUME TypeOK, FilesInv
    PROVE  Offs(Live) = Unsealed /\ OneEach(Live)
<1>1. \A r \in Live : r.off \in Unsealed
  <2> TAKE r \in Live
  <2>1. PICK b \in Files : Kept(b, r)
    BY DEF Live
  <2> QED BY <2>1, UnsealedFacts DEF Kept, On, Offs
<1>2. \A o \in Unsealed : o \in Offs(Live)
  <2> TAKE o \in Unsealed
  <2>1. PICK b \in Files : \E r \in wal[b] : r.off = o /\ Kept(b, r)
    BY UnsealedKept
  <2>2. PICK r \in wal[b] : r.off = o /\ Kept(b, r)
    BY <2>1
  <2>3. r \in Live
    BY <2>2 DEF Live, Frames
  <2> QED BY <2>2, <2>3 DEF Offs
<1>3. ASSUME NEW p \in Live, NEW q \in Live, p.off = q.off PROVE p = q
  <2>1. PICK b \in Files, c \in Files : Kept(b, p) /\ Kept(c, q)
    BY DEF Live
  <2>2. /\ p \in wal[b] /\ q \in wal[c] /\ p \in Record /\ q \in Record
        /\ b \in Nat /\ c \in Nat
    BY <2>1 DEF Kept, TypeOK, Files
  <2>3. ~(b < c) /\ ~(c < b)
    BY <1>3, <2>1, <2>2 DEF Kept, Record
  <2>4. b = c
    BY <2>2, <2>3
  <2>5. p.id <= q.id /\ q.id <= p.id
    BY <1>3, <2>1, <2>2, <2>4 DEF Kept
  <2> QED BY <1>3, <2>2, <2>5 DEF Record
<1> QED BY <1>1, <1>2, <1>3 DEF Offs, OneEach

LEMMA PublishedIsSealed ==
    ASSUME TypeOK, SegmentsInv
    PROVE  Offs(Published) = 0 .. man.sealed
<1>1. /\ man.sealed \in Int
      /\ \A s \in man.segs : s.first \in Nat /\ s.last \in Nat
  BY DEF TypeOK, Manifest, Segment
<1>2. \A r \in Published : r.off \in 0 .. man.sealed
  <2> TAKE r \in Published
  <2>1. PICK s \in man.segs : r \in dirs[s.first]
    BY DEF Published
  <2>2. r.off \in Offs(dirs[s.first])
    BY <2>1 DEF Offs
  <2>3. r.off \in s.first .. s.last /\ s.last <= man.sealed
    BY <2>1, <2>2 DEF SegmentsInv, Tiled
  <2> QED BY <1>1, <2>3
<1>3. \A o \in 0 .. man.sealed : o \in Offs(Published)
  <2> TAKE o \in 0 .. man.sealed
  <2>1. PICK s \in man.segs : s.first <= o /\ o <= s.last
    BY DEF SegmentsInv, Tiled
  <2>2. o \in Offs(dirs[s.first])
    BY <1>1, <2>1 DEF SegmentsInv, Tiled
  <2> QED BY <2>2 DEF Published, Offs
<1> QED BY <1>2, <1>3 DEF Offs
-----------------------------------------------------------------------------
(***************************************************************************)
(* The inductive step.  First what the kinds of change to the WAL files    *)
(* preserve: no change, deletion, a new file, and the append of a batch.   *)
(***************************************************************************)

LEMMA FilesUnchanged ==
    ASSUME FilesInv, wal' = wal, man'.sealed = man.sealed
    PROVE  FilesInv' /\ Unsealed' = Unsealed
BY DEF FilesInv, NamesBounded, Dense, SelfContained, NewestFile, Unsealed, On, Files

LEMMA FilesDeleted ==
    ASSUME FilesInv, NEW D, wal' = Without(wal, D), man'.sealed = man.sealed,
           \A o \in Unsealed : \E b \in Files \ D : o \in On(b)
    PROVE  /\ FilesInv' /\ Unsealed' = Unsealed
           /\ Files' = Files \ D /\ \A b \in Files' : On(b)' = On(b)
<1>1. Files' = Files \ D /\ \A b \in Files' : wal'[b] = wal[b]
  BY DEF Without, Files
<1>2. \A b \in Files' : On(b)' = On(b)
  BY <1>1 DEF On
<1>3. Unsealed' = Unsealed
  BY <1>1, <1>2 DEF Unsealed
<1>4. NamesBounded' /\ Dense'
  BY <1>1, <1>3 DEF FilesInv, NamesBounded, Dense
<1>5. SelfContained' /\ NewestFile'
  BY <1>1, <1>2 DEF FilesInv, SelfContained, NewestFile
<1> QED BY <1>1, <1>2, <1>3, <1>4, <1>5 DEF FilesInv

\* A new, empty file named at most one past the sealed mark.
LEMMA FilesOpened ==
    ASSUME FilesInv, NEW k, k \notin Files, k <= man.sealed + 1,
           wal' = With(wal, k, {}), man'.sealed = man.sealed
    PROVE  /\ FilesInv' /\ Unsealed' = Unsealed
           /\ Files' = Files \cup {k} /\ wal'[k] = {} /\ On(k)' = {}
           /\ \A b \in Files : wal'[b] = wal[b] /\ On(b)' = On(b)
<1>1. /\ Files' = Files \cup {k} /\ wal'[k] = {}
      /\ \A b \in Files : wal'[b] = wal[b]
  BY DEF With, Files
<1>2. On(k)' = {} /\ \A b \in Files : On(b)' = On(b)
  BY <1>1 DEF On, Offs
<1>3. Unsealed' = Unsealed
  BY <1>1, <1>2 DEF Unsealed
<1>4. NamesBounded' /\ Dense'
  BY <1>1, <1>3 DEF FilesInv, NamesBounded, Dense
<1>5. SelfContained' /\ NewestFile'
  BY <1>1, <1>2 DEF FilesInv, SelfContained, NewestFile
<1> QED BY <1>1, <1>2, <1>3, <1>4, <1>5 DEF FilesInv

\* A batch, the part of it that a crash let through, or the frame of a failed
\* write goes to the end of the writer's file.
LEMMA FilesAppended ==
    ASSUME TypeOK, FilesInv, HandedInv, WriterInv, pc = "idle", NEW n \in Nat,
           wal' = [wal EXCEPT ![active] = @ \cup Batch(n)], man' = man
    PROVE  /\ FilesInv'
           /\ Unsealed' = Unsealed \cup (next .. next + n - 1)
           /\ active \in Files /\ Files' = Files
           /\ \A b \in Files :
                 On(b)' = IF b = active THEN On(b) \cup (next .. next + n - 1) ELSE On(b)
<1> USE ConstantsAssumption
<1>1. PICK S, w, new : S = man.sealed /\ w = active /\ new = next .. next + n - 1
  OBVIOUS
<1>2. /\ S \in Int /\ -1 <= S /\ S < next /\ next \in Nat
      /\ Pending \subseteq Unsealed /\ \A o \in Unsealed : o <= next
      /\ \A b \in Files : b \in Nat /\ On(b) \subseteq Nat
      /\ \A o : o \in Unsealed <=> S < o /\ \E b \in Files : o \in On(b)
  BY <1>1, UnsealedFacts DEF TypeOK, HandedInv
<1>3. /\ w \in Files
      /\ \/ S + 1 .. next - 1 \subseteq On(w)
         \/ /\ w = S + 1
            /\ S + SegMax .. next - 1 \subseteq On(w)
  BY <1>1 DEF WriterInv, Running, Pending
<1>4. /\ Files' = Files /\ wal'[w] = wal[w] \cup Batch(n)
      /\ \A b \in Files : b # w => wal'[b] = wal[b]
  BY <1>1, <1>3 DEF Files
<1>5. On(w)' = On(w) \cup new
  <2>1. Offs(Batch(n)) = new
    BY <1>1, <1>2, BatchOffs
  <2>2. Offs(wal'[w]) = Offs(wal[w]) \cup Offs(Batch(n))
    BY <1>4, OffsOfUnion
  <2> QED BY <2>1, <2>2 DEF On
<1>6. \A b \in Files : b # w => On(b)' = On(b)
  BY <1>4 DEF On
<1>7. Unsealed' = Unsealed \cup new
  <2>1. \A o : o \in Unsealed' <=> S < o /\ \E b \in Files : o \in On(b)'
    BY <1>1, <1>4 DEF Unsealed
  <2>2. \A o \in new : S < o
    BY <1>1, <1>2
  <2> QED BY <1>2, <1>3, <1>5, <1>6, <2>1, <2>2
<1>8. NamesBounded'
  BY <1>4 DEF FilesInv, NamesBounded
<1>9. Dense'
  <2> SUFFICES ASSUME NEW o \in Unsealed', NEW p \in S + 1 .. o PROVE p \in Unsealed'
    BY <1>1 DEF Dense
  <2>1. CASE o \in Unsealed
    BY <1>1, <1>7, <2>1 DEF FilesInv, Dense
  <2>2. CASE o \in new
    <3>1. p \in Pending \/ p \in new
      BY <1>1, <1>2, <2>2 DEF Pending
    <3> QED BY <1>2, <1>7, <3>1
  <2> QED BY <1>7, <2>1, <2>2
<1>10. ASSUME NEW a \in Int, a .. next - 1 \subseteq On(w), NEW o \in new, NEW p \in a .. o
       PROVE  p \in On(w)'
  <2>1. p \in a .. next - 1 \/ p \in new
    BY <1>1, <1>2, <1>10
  <2> QED BY <1>5, <1>10, <2>1
<1>11. SelfContained'
  <2> SUFFICES ASSUME NEW b \in Files, b <= S, NEW o \in On(b)', NEW p \in S + 1 .. o
               PROVE  p \in On(b)'
    BY <1>1, <1>4 DEF SelfContained
  <2>1. CASE o \in On(b)
    BY <1>1, <1>5, <1>6, <2>1 DEF FilesInv, SelfContained
  <2>2. CASE o \notin On(b)
    <3>1. b = w /\ o \in new
      BY <1>5, <1>6, <2>2
    <3>2. S + 1 .. next - 1 \subseteq On(w) /\ S + 1 \in Int
      BY <1>2, <1>3, <3>1
    <3> QED BY <1>10, <3>1, <3>2
  <2> QED BY <2>1, <2>2
<1>12. NewestFile'
  <2> SUFFICES ASSUME NEW b \in Files, b = S + 1, NEW o \in On(b)', NEW p \in S + SegMax .. o
               PROVE  p \in On(b)'
    BY <1>1, <1>4 DEF NewestFile
  <2>1. CASE o \in On(b)
    BY <1>1, <1>5, <1>6, <2>1 DEF FilesInv, NewestFile
  <2>2. CASE o \notin On(b)
    <3>1. b = w /\ o \in new
      BY <1>5, <1>6, <2>2
    <3>2. S + SegMax .. next - 1 \subseteq On(w) /\ S + SegMax \in Int
      BY <1>2, <1>3
    <3> QED BY <1>10, <3>1, <3>2
  <2> QED BY <2>1, <2>2
<1> QED BY <1>1, <1>3, <1>4, <1>5, <1>6, <1>7, <1>8, <1>9, <1>11, <1>12 DEF FilesInv

\* What is handed out stays so while neither the files' unsealed offsets nor
\* the offset to hand out next change.
LEMMA HandedKept ==
    ASSUME HandedInv, pc # "down",
           pc' \in {"compact", "cleanup"} => pc \in {"compact", "cleanup"},
           Unsealed' = Unsealed, man'.sealed = man.sealed, next' = next, acked' = acked
    PROVE  HandedInv'
BY DEF HandedInv, Pending
-----------------------------------------------------------------------------
(***************************************************************************)
(* The identities of records: an invariant of every step.                  *)
(***************************************************************************)

\* A step keeps some of the records that there are, or adds the frames of a
\* batch to them.
Shrunk == Known' \subseteq Known /\ acked' = acked /\ born' = born

Grown(n) ==
    /\ pc = "idle"
    /\ born' = born + n
    /\ Known' \subseteq Known \cup Batch(n)
    /\ acked \subseteq acked' /\ acked' \subseteq acked \cup Batch(n)

LEMMA AppendedKnown ==
    ASSUME IndInv, pc = "idle", NEW n \in Nat,
           wal' = [wal EXCEPT ![active] = @ \cup Batch(n)], dirs' = dirs,
           open' \subseteq open \cup Batch(n), born' = born + n,
           acked \subseteq acked', acked' \subseteq acked \cup Batch(n)
    PROVE  Grown(n)
<1>1. \A b \in Files' : b \in Files /\ wal'[b] \subseteq wal[b] \cup Batch(n)
  BY DEF Files
<1>2. Frames' \subseteq Frames \cup Batch(n)
  BY <1>1 DEF Frames
<1> QED BY <1>2 DEF Grown, Known

LEMMA NextKnown ==
    ASSUME IndInv, [Next]_vars
    PROVE  Shrunk \/ \E n \in Nat : Grown(n)
<1> USE ConstantsAssumption
<1>1. ASSUME NEW n \in 1 .. MaxBatch, Ingest(n) PROVE Grown(n)
  <2>1. /\ pc = "idle" /\ n \in Nat /\ born' = born + n /\ dirs' = dirs
        /\ wal' = [wal EXCEPT ![active] = @ \cup Batch(n)]
        /\ open' = open \cup Batch(n) /\ acked' = acked \cup Batch(n)
    BY <1>1 DEF Ingest
  <2> QED BY <2>1, AppendedKnown
<1>2. CASE IngestFails
  <2>1. open' = open
    BY <1>2 DEF IngestFails, memory
  <2> QED BY <1>2, <2>1, AppendedKnown DEF IngestFails
<1>3. ASSUME NEW n \in 1 .. MaxBatch, NEW k \in 0 .. n, CrashInIngest(n, k) PROVE Grown(k)
  <2>1. pc = "idle" /\ k \in Nat /\ open' = {}
    BY <1>3 DEF CrashInIngest, Die
  <2> QED BY <1>3, <2>1, AppendedKnown DEF CrashInIngest
<1>4. ASSUME SealAll \/ CollectDone \/ UNCHANGED vars PROVE Shrunk
  BY <1>4 DEF Shrunk, SealAll, CollectDone, vars, disk, memory, Known, Frames, Files
<1>5. ASSUME WriteSegment PROVE Shrunk
  <2>1. /\ UNCHANGED <<wal, open, acked, born>>
        /\ \A f \in DOMAIN dirs' :
              dirs'[f] \subseteq open \/ (f \in DOMAIN dirs /\ dirs'[f] = dirs[f])
    BY <1>5 DEF WriteSegment, With
  <2>2. Known' \subseteq Known
    BY <2>1 DEF Known, Frames, Files
  <2> QED BY <2>1, <2>2 DEF Shrunk
<1>6. ASSUME Publish PROVE Shrunk
  BY <1>6 DEF Shrunk, Publish, Known, Frames, Files
<1>7. ASSUME Rotate PROVE Shrunk
  <2>1. /\ UNCHANGED <<dirs, acked, born>> /\ open' \subseteq open
        /\ \A b \in Files' : wal'[b] = {} \/ (b \in Files /\ wal'[b] = wal[b])
    BY <1>7 DEF Rotate, Rest, With, Files
  <2>2. Known' \subseteq Known
    BY <2>1 DEF Known, Frames
  <2> QED BY <2>1, <2>2 DEF Shrunk
<1>8. ASSUME NEW b, CollectFile(b) \/ CleanupFile(b) PROVE Shrunk
  <2>1. /\ UNCHANGED <<dirs, acked, born, open>>
        /\ \A c \in Files' : c \in Files /\ wal'[c] = wal[c]
    BY <1>8 DEF CollectFile, CleanupFile, memory, Without, Files
  <2>2. Known' \subseteq Known
    BY <2>1 DEF Known, Frames
  <2> QED BY <2>1, <2>2 DEF Shrunk
<1>9. ASSUME NEW s, Quarantine(s) PROVE Shrunk
  BY <1>9 DEF Shrunk, Quarantine, Known, Frames, Files
<1>10. ASSUME NEW s, Repair(s) PROVE Shrunk
  <2>1. /\ UNCHANGED <<wal, open, acked, born>>
        /\ \A f \in DOMAIN dirs' :
              dirs'[f] \subseteq Frames \/ (f \in DOMAIN dirs /\ dirs'[f] = dirs[f])
    BY <1>10 DEF Repair, With, Gathered
  <2>2. Known' \subseteq Known
    BY <2>1 DEF Known, Frames, Files
  <2> QED BY <2>1, <2>2 DEF Shrunk
<1>11. ASSUME Crash PROVE Shrunk
  <2>1. UNCHANGED <<wal, dirs, acked, born>> /\ open' = {}
    BY <1>11 DEF Crash, Die, disk
  <2>2. Known' \subseteq Known
    BY <2>1 DEF Known, Frames, Files
  <2> QED BY <2>1, <2>2 DEF Shrunk
<1>12. ASSUME RecoverScan PROVE Shrunk
  <2>1. /\ UNCHANGED <<acked, born>> /\ open' = Live
        /\ \A b \in Files' : b \in Files /\ wal'[b] = wal[b]
        /\ \A f \in DOMAIN dirs' : f \in DOMAIN dirs /\ dirs'[f] = dirs[f]
    BY <1>12 DEF RecoverScan, Without, Files
  <2>2. Live \subseteq Frames
    BY DEF Live
  <2>3. Known' \subseteq Known
    BY <2>1, <2>2 DEF Known, Frames
  <2> QED BY <2>1, <2>3 DEF Shrunk
<1>13. ASSUME CompactWrite PROVE Shrunk
  <2>1. Merged \subseteq Frames
    BY <1>13 DEF CompactWrite, Merged, Frames, IndInv, TypeOK
  <2>2. \A b \in Files' : wal'[b] \subseteq Frames
    BY <1>13, <2>1 DEF CompactWrite, With, Files, Frames
  <2>3. UNCHANGED <<dirs, open, acked, born>>
    BY <1>13 DEF CompactWrite
  <2>4. Known' \subseteq Known
    <3>1. Frames' \subseteq Frames
      BY <2>2 DEF Frames
    <3> QED BY <2>3, <3>1 DEF Known
  <2> QED BY <2>3, <2>4 DEF Shrunk
<1>14. ASSUME OpenWriter PROVE Shrunk
  <2>1. /\ UNCHANGED <<dirs, acked, born, open>>
        /\ \A b \in Files' : wal'[b] = {} \/ (b \in Files /\ wal'[b] = wal[b])
    BY <1>14 DEF OpenWriter, memory, With, Files
  <2>2. Known' \subseteq Known
    BY <2>1 DEF Known, Frames
  <2> QED BY <2>1, <2>2 DEF Shrunk
<1> QED
  BY <1>1, <1>2, <1>3, <1>4, <1>5, <1>6, <1>7, <1>8, <1>9, <1>10, <1>11, <1>12, <1>13,
     <1>14
  DEF Next, Requests, SealSteps, CollectSteps, RecoverySteps, Crashes

LEMMA KnownType == IndInv => Known \subseteq Record
<1> SUFFICES ASSUME IndInv PROVE Known \subseteq Record
  OBVIOUS
<1>1. Frames \subseteq Record /\ UNION {dirs[f] : f \in DOMAIN dirs} \subseteq Record
  BY DEF IndInv, TypeOK, Frames, Files
<1>2. open \subseteq Record /\ acked \subseteq Record
  BY DEF IndInv, TypeOK
<1> QED BY <1>1, <1>2 DEF Known

\* The frames of a batch are newer than every record, and their offsets are
\* not acknowledged.
LEMMA IdsGrow ==
    ASSUME IndInv, NEW n \in Nat, Grown(n)
    PROVE  IdsInv'
<1>1. /\ IdsInv /\ born \in Nat /\ next \in Nat
      /\ \A r \in acked : r \in Record /\ r.off < next
      /\ \A r \in Known : r \in Record
      /\ born' = born + n /\ Known' \subseteq Known \cup Batch(n)
      /\ acked' \subseteq acked \cup Batch(n)
  <2>1. Known \subseteq Record /\ acked \subseteq Known
    BY KnownType DEF Known
  <2> QED BY <2>1 DEF IndInv, TypeOK, HandedInv, Grown
<1>2. \A r \in Batch(n) : \E i \in 0 .. n - 1 : r.off = next + i /\ r.id = born + i
  BY DEF Batch
<1>3. \A r \in Known' : r.id < born'
  <2> SUFFICES ASSUME NEW r \in Known' PROVE r.id < born'
    OBVIOUS
  <2>1. CASE r \in Known
    BY <1>1, <2>1 DEF IdsInv, Record
  <2>2. CASE r \in Batch(n)
    BY <1>1, <1>2, <2>2
  <2> QED BY <1>1, <2>1, <2>2
<1>4. \A r \in acked', q \in Known' : q.off = r.off => q.id <= r.id
  <2> SUFFICES ASSUME NEW r \in acked', NEW q \in Known', q.off = r.off PROVE q.id <= r.id
    OBVIOUS
  <2>1. CASE r \in acked /\ q \in Known
    BY <1>1, <2>1 DEF IdsInv
  <2>2. CASE r \in acked /\ q \in Batch(n)
    BY <1>1, <1>2, <2>2 DEF Record
  <2>3. CASE r \in Batch(n) /\ q \in Known
    <3>1. PICK i \in 0 .. n - 1 : r.off = next + i /\ r.id = born + i
      BY <1>2, <2>3
    <3>2. q.id < born /\ q.id \in Nat
      BY <1>1, <2>3 DEF IdsInv, Record
    <3> QED BY <1>1, <3>1, <3>2
  <2>4. CASE r \in Batch(n) /\ q \in Batch(n)
    <3>1. PICK i \in 0 .. n - 1 : r.off = next + i /\ r.id = born + i
      BY <1>2, <2>4
    <3>2. PICK j \in 0 .. n - 1 : q.off = next + j /\ q.id = born + j
      BY <1>2, <2>4
    <3> QED BY <1>1, <3>1, <3>2
  <2> QED BY <1>1, <2>1, <2>2, <2>3, <2>4
<1> QED BY <1>3, <1>4 DEF IdsInv

LEMMA NextIds == IndInv /\ [Next]_vars => IdsInv'
<1> SUFFICES ASSUME IndInv, [Next]_vars PROVE IdsInv'
  OBVIOUS
<1>1. CASE Shrunk
  BY <1>1 DEF Shrunk, IndInv, IdsInv
<1> QED BY <1>1, NextKnown, IdsGrow
-----------------------------------------------------------------------------
(***************************************************************************)
(* The inductive step, one lemma per action.                               *)
(***************************************************************************)

\* No segment starts twice, so the manifest has the ranges of itself.
LEMMA RangesReflexive ==
    ASSUME TypeOK, SegmentsInv
    PROVE  SameRanges(man.segs, man.segs)
BY DEF TypeOK, Manifest, Segment, SegmentsInv, Tiled, SameRanges

LEMMA RangesOfMarked ==
    ASSUME NEW A \in SUBSET Segment, NEW B \in SUBSET Segment, SameRanges(A, B),
           NEW Q, NEW st
    PROVE  SameRanges(Marked(A, Q, st), B)
<1> DEFINE m(s) == IF s \in Q THEN [s EXCEPT !.status = st] ELSE s
<1>1. \A s \in A : m(s).first = s.first /\ m(s).last = s.last
  BY DEF Segment
<1>2. \A u \in Marked(A, Q, st) : \E s \in A : u = m(s)
  BY DEF Marked
<1>3. \A s \in A : m(s) \in Marked(A, Q, st)
  BY DEF Marked
<1> HIDE DEF m
<1>4. \A u \in Marked(A, Q, st) : \E t \in B : u.first = t.first /\ u.last = t.last
  BY <1>1, <1>2 DEF SameRanges
<1>5. \A t \in B : \E u \in Marked(A, Q, st) : u.first = t.first /\ u.last = t.last
  BY <1>1, <1>3 DEF SameRanges
<1>6. \A u, v \in Marked(A, Q, st) : u.first = v.first => u = v
  <2> TAKE u, v \in Marked(A, Q, st)
  <2>1. PICK s \in A, t \in A : u = m(s) /\ v = m(t)
    BY <1>2
  <2> QED BY <1>1, <2>1 DEF SameRanges
<1> QED BY <1>4, <1>5, <1>6 DEF SameRanges

LEMMA TiledBySameRanges ==
    ASSUME NEW A \in SUBSET Segment, NEW B \in SUBSET Segment, NEW d, NEW k \in Int,
           SameRanges(A, B), Tiled(B, k, d)
    PROVE  Tiled(A, k, d)
<1>1. \A s \in A : \E t \in B : s.first = t.first /\ s.last = t.last
  BY DEF SameRanges
<1>2. \A s, t \in A : s # t => s.last < t.first \/ t.last < s.first
  <2> SUFFICES ASSUME NEW s \in A, NEW t \in A, s # t
               PROVE  s.last < t.first \/ t.last < s.first
    OBVIOUS
  <2>1. s.first # t.first
    BY DEF SameRanges
  <2>2. PICK u \in B, v \in B : /\ s.first = u.first /\ s.last = u.last
                                /\ t.first = v.first /\ t.last = v.last
    BY <1>1
  <2> QED BY <2>1, <2>2 DEF Tiled
<1>3. \A o \in 0 .. k : \E s \in A : s.first <= o /\ o <= s.last
  BY DEF Tiled, SameRanges
<1>4. \A s \in A : /\ s.first <= s.last /\ s.last <= k
                   /\ s.first \in DOMAIN d /\ Offs(d[s.first]) = s.first .. s.last
  BY <1>1 DEF Tiled
<1> QED BY <1>2, <1>3, <1>4 DEF Tiled

LEMMA InitInv == Init => IndInv
<1> SUFFICES ASSUME Init PROVE IndInv
  OBVIOUS
<1> USE ConstantsAssumption DEF Init
<1>1. TypeOK /\ TornInv
  BY InitType DEF TornInv
<1>2. Files = {0} /\ On(0) = {} /\ Unsealed = {} /\ Pending = {} /\ Offs(open) = {}
  BY DEF Files, On, Offs, Unsealed, Pending
<1>3. IdsInv
  BY DEF IdsInv, Known, Frames, Files
<1>4. FilesInv
  BY <1>2 DEF FilesInv, NamesBounded, Dense, SelfContained, NewestFile
<1>5. HandedInv /\ WriterInv /\ OpenInv
  BY <1>2 DEF HandedInv, WriterInv, OpenInv, OneEach
<1>6. SegmentsInv /\ MemInv
  BY DEF SegmentsInv, Tiled, MemInv, SameRanges
<1>7. SealInv /\ CompactInv
  BY DEF SealInv, CompactInv
<1> QED BY <1>1, <1>3, <1>4, <1>5, <1>6, <1>7 DEF IndInv

LEMMA IngestKeeps ==
    ASSUME IndInv, TypeOK', TornInv', IdsInv', NEW n \in 1 .. MaxBatch, Ingest(n)
    PROVE  IndInv'
<1> USE ConstantsAssumption
<1> DEFINE new == next .. next + n - 1
<1>1. /\ TypeOK /\ FilesInv /\ HandedInv /\ WriterInv /\ OpenInv /\ SegmentsInv /\ MemInv
      /\ pc = "idle" /\ Offs(open) = Pending
      /\ n \in Nat /\ n >= 1 /\ next \in Nat /\ man.sealed \in Int /\ man.sealed < next
      /\ Pending \subseteq Unsealed /\ \A o \in Unsealed : o <= next
      /\ \A r \in acked : (r.off <= man.sealed \/ r.off \in Unsealed) /\ r.off < next
      /\ \A r \in acked : r.off \in Nat
  BY DEF IndInv, Ingest, OpenInv, HandedInv, TypeOK, Manifest, Record
<1>2. /\ FilesInv' /\ Unsealed' = Unsealed \cup new
      /\ active \in Files /\ Files' = Files
      /\ \A b \in Files : On(b)' = IF b = active THEN On(b) \cup new ELSE On(b)
  BY <1>1, FilesAppended DEF Ingest
<1>3. Offs(Batch(n)) = new
  BY <1>1, BatchOffs
<1>4. /\ next' = next + n /\ man' = man /\ active' = active
      /\ open' = open \cup Batch(n) /\ acked' = acked \cup Batch(n)
      /\ pc' \in {"idle", "write"} /\ (pc' = "write" => mode' = "ingest")
      /\ UNCHANGED <<dirs, mem, contrib>>
  BY <1>1 DEF Ingest
<1>5. /\ Pending' = Pending \cup new /\ Unsealed \subseteq Unsealed'
      /\ \A o \in new : o < next' /\ man.sealed < o
  BY <1>1, <1>2, <1>4 DEF Pending
<1>6. HandedInv'
  <2>1. \A r \in Batch(n) : r.off \in new
    BY <1>3 DEF Offs
  <2>2. Pending' \subseteq Unsealed' /\ \A o \in Unsealed' : o <= next'
    <3>1. \A o \in Unsealed : o \in Nat
      BY <1>1, UnsealedFacts
    <3> QED BY <1>1, <1>2, <1>4, <1>5, <3>1
  <2>3. \A r \in acked' : (r.off <= man.sealed \/ r.off \in Unsealed') /\ r.off < next'
    BY <1>1, <1>2, <1>4, <1>5, <2>1
  <2>4. man.sealed < next'
    BY <1>1, <1>4
  <2> QED BY <1>4, <2>2, <2>3, <2>4 DEF HandedInv
<1>7. WriterInv'
  <2>1. PICK w : w = active
    OBVIOUS
  <2>2. w \in Files' /\ active' = w /\ On(w)' = On(w) \cup new
    BY <1>2, <1>4, <2>1
  <2>3. CASE Pending \subseteq On(w) /\ (w <= man.sealed => Pending # {})
    <3>1. Pending' \subseteq On(w)' /\ (w <= man.sealed => Pending' # {})
      BY <1>5, <2>2, <2>3
    <3> QED BY <1>4, <2>2, <3>1 DEF WriterInv
  <2>4. CASE w = man.sealed + 1 /\ man.sealed + SegMax .. next - 1 \subseteq On(w)
    <3>1. man.sealed + SegMax .. next' - 1 \subseteq On(w)'
      <4>1. \A o \in man.sealed + SegMax .. next' - 1 :
               o \in man.sealed + SegMax .. next - 1 \/ o \in new
        BY <1>1, <1>4
      <4> QED BY <2>2, <2>4, <4>1
    <3> QED BY <1>4, <2>2, <2>4, <3>1 DEF WriterInv
  <2> QED BY <1>1, <2>1, <2>3, <2>4 DEF WriterInv, Running
<1>8. OpenInv'
  <2>1. Offs(open') = Pending'
    BY <1>1, <1>3, <1>4, <1>5, OffsOfUnion
  <2>2. OneEach(open')
    <3>1. \A p, q \in Batch(n) : p.off = q.off => p = q
      BY <1>1 DEF Batch, TypeOK
    <3>2. \A p \in open : p.off < next
      <4>1. \A p \in open : p.off \in Pending
        BY <1>1 DEF Offs
      <4> QED BY <1>1, <4>1 DEF Pending
    <3>3. \A p \in Batch(n) : p.off >= next
      BY <1>1, <1>3 DEF Offs
    <3>4. \A p \in open, q \in Batch(n) : p.off # q.off
      BY <1>1, <3>2, <3>3 DEF TypeOK, Record, Batch
    <3> QED BY <1>1, <1>4, <3>1, <3>4 DEF OpenInv, OneEach
  <2> QED BY <1>4, <2>1, <2>2 DEF OpenInv
<1>9. SealInv' /\ SegmentsInv' /\ MemInv' /\ CompactInv'
  BY <1>1, <1>4 DEF SealInv, SegmentsInv, MemInv, CompactInv
<1> QED BY <1>2, <1>6, <1>7, <1>8, <1>9 DEF IndInv

\* The frame of a failed write is at the next offset, and nobody waits for it.
LEMMA IngestFailsKeeps ==
    ASSUME IndInv, TypeOK', TornInv', IdsInv', IngestFails
    PROVE  IndInv'
<1> USE ConstantsAssumption
<1>1. /\ TypeOK /\ FilesInv /\ HandedInv /\ WriterInv /\ OpenInv /\ SegmentsInv /\ MemInv
      /\ pc = "idle" /\ next \in Nat /\ next .. next + 1 - 1 = {next}
  BY DEF IndInv, IngestFails, TypeOK
<1>2. /\ UNCHANGED <<dirs, man, mem, open, next, active, cut, contrib, pc, mode, acked>>
      /\ wal' = [wal EXCEPT ![active] = @ \cup Batch(1)]
  BY DEF IngestFails, memory
<1>3. /\ FilesInv' /\ Unsealed' = Unsealed \cup {next}
      /\ active \in Files /\ Files' = Files
      /\ \A b \in Files : On(b) \subseteq On(b)'
  BY <1>1, <1>2, FilesAppended
<1>4. HandedInv'
  BY <1>1, <1>2, <1>3 DEF HandedInv, Pending
<1>5. WriterInv'
  <2>1. PICK w : w = active
    OBVIOUS
  <2>2. w \in Files' /\ active' = w /\ On(w) \subseteq On(w)'
    BY <1>2, <1>3, <2>1
  <2>3. \/ Pending \subseteq On(w) /\ (w <= man.sealed => Pending # {})
        \/ w = man.sealed + 1 /\ man.sealed + SegMax .. next - 1 \subseteq On(w)
    BY <1>1, <2>1 DEF WriterInv, Running
  <2>4. \/ Pending' \subseteq On(w)' /\ (w <= man.sealed => Pending' # {})
        \/ w = man.sealed + 1 /\ man.sealed + SegMax .. next - 1 \subseteq On(w)'
    BY <1>2, <2>2, <2>3 DEF Pending
  <2> QED BY <1>2, <2>2, <2>4 DEF WriterInv
<1>6. OpenInv' /\ SealInv' /\ SegmentsInv' /\ MemInv' /\ CompactInv'
  BY <1>1, <1>2 DEF IndInv, OpenInv, Pending, SealInv, SegmentsInv, MemInv, CompactInv
<1> QED BY <1>3, <1>4, <1>5, <1>6 DEF IndInv

LEMMA DownIsInductive ==
    ASSUME TypeOK, SegmentsInv, TypeOK', TornInv', IdsInv', FilesInv', SegmentsInv', Die,
           \A r \in acked' : r.off <= man.sealed \/ r.off \in Unsealed',
           UNCHANGED man
    PROVE  IndInv'
<1>1. SameRanges(man.segs, man.segs)
  BY RangesReflexive
<1>2. WriterInv' /\ OpenInv' /\ SealInv' /\ CompactInv' /\ HandedInv'
  BY DEF Die, WriterInv, Running, OpenInv, OneEach, SealInv, CompactInv, HandedInv
<1>3. MemInv'
  BY <1>1 DEF Die, MemInv
<1> QED BY <1>2, <1>3 DEF IndInv

LEMMA CrashKeeps ==
    ASSUME IndInv, TypeOK', TornInv', IdsInv', Crash
    PROVE  IndInv'
<1>1. FilesInv' /\ Unsealed' = Unsealed
  BY FilesUnchanged DEF Crash, disk, IndInv
<1>2. SegmentsInv'
  BY DEF IndInv, SegmentsInv, Crash, disk
<1>3. \A r \in acked' : r.off <= man.sealed \/ r.off \in Unsealed'
  BY <1>1 DEF Crash, IndInv, HandedInv
<1> QED BY <1>1, <1>2, <1>3, DownIsInductive DEF Crash, disk, IndInv

LEMMA CrashInIngestKeeps ==
    ASSUME IndInv, TypeOK', TornInv', IdsInv',
           NEW n \in 1 .. MaxBatch, NEW k \in 0 .. n, CrashInIngest(n, k)
    PROVE  IndInv'
<1> USE ConstantsAssumption
<1>1. /\ TypeOK /\ FilesInv /\ HandedInv /\ WriterInv /\ pc = "idle" /\ k \in Nat
  BY DEF IndInv, CrashInIngest
<1>2. FilesInv' /\ Unsealed \subseteq Unsealed'
  BY <1>1, FilesAppended DEF CrashInIngest
<1>3. SegmentsInv'
  BY DEF IndInv, SegmentsInv, CrashInIngest
<1>4. \A r \in acked' : r.off <= man.sealed \/ r.off \in Unsealed'
  BY <1>1, <1>2 DEF CrashInIngest, HandedInv
<1> QED BY <1>2, <1>3, <1>4, DownIsInductive DEF CrashInIngest, IndInv

LEMMA SealAllKeeps ==
    ASSUME IndInv, TypeOK', TornInv', IdsInv', SealAll
    PROVE  IndInv'
<1>1. /\ pc = "idle" /\ pc' = "write" /\ mode' = "all"
      /\ UNCHANGED <<wal, dirs, man, mem, open, next, active, cut, contrib, acked>>
  BY DEF SealAll, disk, memory
<1>2. FilesInv' /\ Unsealed' = Unsealed
  BY <1>1, FilesUnchanged DEF IndInv
<1>3. HandedInv'
  BY <1>1, <1>2, HandedKept DEF IndInv
<1>4. WriterInv' /\ OpenInv'
  BY <1>1 DEF IndInv, WriterInv, OpenInv, Running, Files, On, Pending
<1>5. SealInv' /\ SegmentsInv' /\ MemInv' /\ CompactInv'
  BY <1>1 DEF IndInv, SealInv, SegmentsInv, MemInv, CompactInv
<1> QED BY <1>2, <1>3, <1>4, <1>5 DEF IndInv

\* The first offset of the open buffer is the one after the sealed mark.
LEMMA OpenStartsAt ==
    ASSUME NEW R, NEW a \in Int, NEW b \in Int, Offs(R) = a .. b, NEW first \in Offs(R),
           \A r \in R : first <= r.off
    PROVE  first = a /\ a <= b
<1>1. first \in a .. b /\ a \in Offs(R)
  OBVIOUS
<1>2. PICK r \in R : r.off = a
  BY <1>1 DEF Offs
<1> QED BY <1>1, <1>2

LEMMA WriteSegmentKeeps ==
    ASSUME IndInv, TypeOK', TornInv', IdsInv', WriteSegment
    PROVE  IndInv'
<1> USE ConstantsAssumption
<1>1. PICK S : S = man.sealed
  OBVIOUS
<1>2. /\ TypeOK /\ FilesInv /\ HandedInv /\ SegmentsInv /\ pc = "write"
      /\ Offs(open) = S + 1 .. next - 1 /\ OneEach(open)
      /\ next \in Nat /\ S \in Int /\ -1 <= S /\ S < next
      /\ mode \in {"ingest", "all"}
  BY <1>1 DEF IndInv, HandedInv, OpenInv, Pending, SealInv, WriteSegment, TypeOK, Manifest
<1>3. PICK first \in Offs(open), last \in Offs(open) :
         /\ \A r \in open : first <= r.off
         /\ \/ mode = "ingest" /\ Cardinality({r \in open : r.off <= last}) = SegMax
            \/ mode = "all" /\ {r \in open : r.off <= last} = open
         /\ dirs' = With(dirs, first, {r \in open : r.off <= last})
         /\ cut' = last
  BY DEF WriteSegment
<1>4. PICK records : records = {r \in open : r.off <= last}
  OBVIOUS
<1>5. first = S + 1 /\ S + 1 <= next - 1
  <2>1. S + 1 \in Int /\ next - 1 \in Int
    BY <1>2
  <2> QED BY <1>2, <1>3, <2>1, OpenStartsAt
<1>6. last \in S + 1 .. next - 1
  BY <1>2, <1>3
<1>7. Offs(records) = S + 1 .. last /\ OneEach(records)
  <2>1. \A o \in Offs(records) : o \in S + 1 .. last
    <3> TAKE o \in Offs(records)
    <3>1. PICK r \in open : r.off = o /\ o <= last
      BY <1>4 DEF Offs
    <3>2. o \in Offs(open)
      BY <3>1 DEF Offs
    <3> QED BY <1>2, <1>6, <3>1, <3>2
  <2>2. \A o \in S + 1 .. last : o \in Offs(records)
    <3> TAKE o \in S + 1 .. last
    <3>1. o \in Offs(open) /\ o <= last
      BY <1>2, <1>6
    <3>2. PICK r \in open : r.off = o
      BY <3>1 DEF Offs
    <3>3. r \in records
      BY <1>4, <3>1, <3>2
    <3> QED BY <3>2, <3>3 DEF Offs
  <2> QED BY <1>2, <1>4, <2>1, <2>2 DEF OneEach
<1>8. mode = "ingest" => last = S + SegMax
  <2>1. S + 1 \in Int /\ last \in Int /\ ~(S + 1 > last) /\ last - (S + 1) + 1 = last - S
    BY <1>2, <1>6
  <2>2. Cardinality(records) = last - S
    BY <1>7, <2>1, OffsCardinality
  <2>3. mode = "ingest" => last - S = SegMax
    BY <1>3, <1>4, <2>2
  <2> QED BY <1>2, <2>1, <2>3
<1>9. mode = "all" => last = next - 1
  <2> SUFFICES ASSUME mode = "all" PROVE last = next - 1
    OBVIOUS
  <2>1. S + 1 .. last = S + 1 .. next - 1
    BY <1>2, <1>3, <1>4, <1>7
  <2>2. next - 1 \in S + 1 .. last
    BY <1>2, <1>5, <2>1
  <2> QED BY <1>2, <1>6, <2>2
<1>10. /\ dirs' = With(dirs, S + 1, records) /\ cut' = last
       /\ pc' = "publish"
       /\ UNCHANGED <<wal, man, mem, open, next, active, contrib, mode, acked>>
  BY <1>3, <1>4, <1>5 DEF WriteSegment
<1>11. SegmentsInv'
  <2>1. \A s \in man.segs : s.first # S + 1
    <3>1. \A s \in man.segs : s.first <= s.last /\ s.last <= S
      BY <1>1, <1>2 DEF SegmentsInv, Tiled
    <3>2. \A s \in man.segs : s.first \in Nat /\ s.last \in Nat
      BY <1>2 DEF TypeOK, Manifest, Segment
    <3> QED BY <1>2, <3>1, <3>2
  <2>2. \A f \in DOMAIN dirs : f \in DOMAIN dirs' /\ (f # S + 1 => dirs'[f] = dirs[f])
    BY <1>10 DEF With
  <2> QED BY <1>2, <1>10, <2>1, <2>2 DEF SegmentsInv, Tiled
<1>12. FilesInv' /\ Unsealed' = Unsealed
  BY <1>2, <1>10, FilesUnchanged
<1>13. HandedInv'
  BY <1>2, <1>10, <1>12, HandedKept
<1>14. WriterInv' /\ OpenInv'
  BY <1>2, <1>10 DEF IndInv, WriterInv, OpenInv, Running, Files, On, Pending
<1>15. SealInv'
  <2>1. S + 1 \in DOMAIN dirs' /\ dirs'[S + 1] = records
    BY <1>10 DEF With
  <2>2. S < cut' /\ cut' < next
    BY <1>2, <1>6, <1>10
  <2> QED BY <1>1, <1>2, <1>7, <1>8, <1>9, <1>10, <2>1, <2>2 DEF SealInv
<1>16. MemInv' /\ CompactInv'
  BY <1>2, <1>10 DEF IndInv, MemInv, CompactInv
<1> QED BY <1>11, <1>12, <1>13, <1>14, <1>15, <1>16 DEF IndInv

LEMMA PublishKeeps ==
    ASSUME IndInv, TypeOK', TornInv', IdsInv', Publish
    PROVE  IndInv'
<1> USE ConstantsAssumption
<1>1. PICK S : S = man.sealed
  OBVIOUS
<1>2. /\ TypeOK /\ FilesInv /\ HandedInv /\ SegmentsInv /\ pc = "publish" /\ mem = man
      /\ Offs(open) = S + 1 .. next - 1 /\ OneEach(open)
      /\ next \in Nat /\ cut \in Int /\ S \in Int /\ -1 <= S /\ S < cut /\ cut < next
      /\ mode \in {"ingest", "all"}
      /\ S + 1 \in DOMAIN dirs /\ Offs(dirs[S + 1]) = S + 1 .. cut
      /\ mode = "ingest" => cut = S + SegMax
      /\ mode = "all" => cut = next - 1
  BY <1>1 DEF IndInv, OpenInv, Pending, SealInv, MemInv, Publish, TypeOK, Manifest
<1>3. /\ pc' = "rotate"
      /\ UNCHANGED <<wal, dirs, open, next, active, cut, contrib, mode, acked>>
  BY DEF Publish
<1> DEFINE new == [first |-> S + 1, last |-> cut, status |-> "sealed"]
<1>4. man' = [segs |-> man.segs \cup {new}, sealed |-> cut] /\ mem' = man'
  <2>1. PICK first \in Offs(open) :
           /\ \A r \in open : first <= r.off
           /\ mem' = [segs |-> mem.segs \cup
                         {[first |-> first, last |-> cut, status |-> "sealed"]},
                     sealed |-> cut]
    BY DEF Publish, SealedMark
  <2>2. S + 1 \in Int /\ next - 1 \in Int
    BY <1>2
  <2>3. first = S + 1
    BY <1>2, <2>1, <2>2, OpenStartsAt
  <2> QED BY <1>2, <2>1, <2>3 DEF Publish
<1>5. man'.sealed = cut
  BY <1>4
<1>6. /\ \A b \in Files : b \in Nat /\ b <= S + 1 /\ b <= cut /\ On(b) \subseteq Nat
      /\ \A o : o \in Unsealed <=> S < o /\ \E b \in Files : o \in On(b)
      /\ \A o \in Unsealed : o \in Nat /\ o <= next
  <2>1. \A b \in Files : b \in Nat /\ b <= S + 1
    BY <1>1, <1>2, UnsealedFacts DEF FilesInv, NamesBounded
  <2>2. \A b \in Files : b <= cut
    BY <1>2, <2>1
  <2> QED BY <1>1, <1>2, <2>1, <2>2, UnsealedFacts DEF HandedInv
<1>7. Files' = Files /\ \A b \in Files : On(b)' = On(b)
  BY <1>3 DEF Files, On
<1>8. \A o : o \in Unsealed' <=> o \in Unsealed /\ cut < o
  <2>1. \A o : o \in Unsealed' <=> cut < o /\ \E b \in Files : o \in On(b)
    BY <1>5, <1>7 DEF Unsealed
  <2> QED BY <1>2, <1>6, <2>1
<1>9. FilesInv'
  <2>1. NamesBounded'
    BY <1>2, <1>5, <1>6, <1>7 DEF NamesBounded
  <2>2. Dense'
    <3> SUFFICES ASSUME NEW o \in Unsealed', NEW p \in cut + 1 .. o PROVE p \in Unsealed'
      BY <1>5 DEF Dense
    <3>1. o \in Unsealed /\ p \in S + 1 .. o /\ cut < p
      BY <1>2, <1>6, <1>8
    <3> QED BY <1>1, <1>2, <1>8, <3>1 DEF FilesInv, Dense
  <2>3. SelfContained'
    <3> SUFFICES ASSUME NEW b \in Files, NEW o \in On(b), NEW p \in cut + 1 .. o
                 PROVE  p \in On(b)
      BY <1>5, <1>7 DEF SelfContained
    <3>1. CASE b <= S
      <4>1. S + 1 .. o \subseteq On(b) /\ p \in S + 1 .. o
        BY <1>1, <1>2, <1>6, <3>1 DEF FilesInv, SelfContained
      <4> QED BY <4>1
    <3>2. CASE b = S + 1 /\ mode = "ingest"
      <4>1. S + SegMax .. o \subseteq On(b) /\ p \in S + SegMax .. o
        BY <1>1, <1>2, <1>6, <3>2 DEF FilesInv, NewestFile
      <4> QED BY <4>1
    <3>3. CASE mode = "all"
      <4>1. o \in Unsealed
        BY <1>2, <1>6
      <4>2. p = o
        BY <1>2, <1>6, <3>3, <4>1
      <4> QED BY <4>2
    <3> QED BY <1>2, <1>6, <3>1, <3>2, <3>3
  <2>4. NewestFile'
    BY <1>2, <1>5, <1>6, <1>7 DEF NewestFile
  <2> QED BY <2>1, <2>2, <2>3, <2>4 DEF FilesInv
<1>10. HandedInv'
  <2>1. \A r \in acked : r.off <= cut \/ r.off \in Unsealed'
    <3> TAKE r \in acked
    <3>1. r.off \in Nat /\ (r.off <= S \/ r.off \in Unsealed)
      BY <1>1, <1>2 DEF HandedInv, TypeOK, Record
    <3> QED BY <1>2, <1>8, <3>1
  <2>2. \A o \in cut + 1 .. next - 1 : o \in Unsealed'
    BY <1>1, <1>2, <1>8 DEF HandedInv, Pending
  <2> QED BY <1>2, <1>3, <1>5, <1>6, <1>8, <2>1, <2>2 DEF HandedInv, Pending
<1>11. WriterInv'
  BY <1>2, <1>3 DEF IndInv, WriterInv, Running, Files
<1>12. OpenInv'
  <2>1. S + 1 \in 0 .. cut
    BY <1>2
  <2> QED BY <1>2, <1>3, <1>5, <1>6, <1>7, <2>1 DEF OpenInv
<1>13. SealInv'
  BY <1>2, <1>3, <1>5 DEF SealInv
<1>14. SegmentsInv'
  <2>1. \A s \in man.segs : /\ s.first \in Nat /\ s.last \in Nat
                            /\ s.first <= s.last /\ s.last <= S
                            /\ s.first \in DOMAIN dirs
                            /\ Offs(dirs[s.first]) = s.first .. s.last
    BY <1>1, <1>2 DEF SegmentsInv, Tiled, TypeOK, Manifest, Segment
  <2>2. \A s, t \in man.segs : s # t => s.last < t.first \/ t.last < s.first
    BY <1>2 DEF SegmentsInv, Tiled
  <2>3. \A o \in 0 .. cut : \E s \in man.segs \cup {new} : s.first <= o /\ o <= s.last
    <3> TAKE o \in 0 .. cut
    <3>1. CASE o <= S
      <4>1. o \in 0 .. man.sealed
        BY <1>1, <1>2, <3>1
      <4> QED BY <1>2, <4>1 DEF SegmentsInv, Tiled
    <3>2. CASE o > S
      <4>1. new \in man.segs \cup {new} /\ new.first <= o /\ o <= new.last
        BY <1>2, <3>2
      <4> QED BY <4>1
    <3> QED BY <1>2, <3>1, <3>2
  <2>4. new.first = S + 1 /\ new.last = cut
    OBVIOUS
  <2>5. man'.segs = man.segs \cup {new}
    BY <1>4
  <2> HIDE DEF new
  <2>6. \A s, t \in man.segs \cup {new} : s # t => s.last < t.first \/ t.last < s.first
    BY <1>2, <2>1, <2>2, <2>4
  <2>7. \A s \in man.segs \cup {new} :
           /\ s.first <= s.last /\ s.last <= cut
           /\ s.first \in DOMAIN dirs /\ Offs(dirs[s.first]) = s.first .. s.last
    BY <1>2, <2>1, <2>4
  <2> QED BY <1>3, <1>5, <2>3, <2>5, <2>6, <2>7 DEF SegmentsInv, Tiled
<1>15. MemInv' /\ CompactInv'
  <2>1. \A s, t \in man'.segs : s.first = t.first => s = t
    BY <1>14 DEF SegmentsInv, Tiled, TypeOK, Manifest, Segment
  <2> QED BY <1>3, <1>4, <2>1 DEF MemInv, SameRanges, CompactInv
<1> QED BY <1>9, <1>10, <1>11, <1>12, <1>13, <1>14, <1>15 DEF IndInv

LEMMA RotateKeeps ==
    ASSUME IndInv, TypeOK', TornInv', IdsInv', Rotate
    PROVE  IndInv'
<1> USE ConstantsAssumption
<1>1. PICK S : S = man.sealed
  OBVIOUS
<1>2. /\ TypeOK /\ FilesInv /\ HandedInv /\ pc = "rotate" /\ cut = S /\ mem = man
      /\ S \in Int /\ -1 <= S /\ S < next /\ next \in Nat /\ OneEach(open)
      /\ \A b \in Files : b <= S
      /\ mode \in {"ingest", "all"} /\ (mode = "all" => S = next - 1)
  BY <1>1 DEF IndInv, HandedInv, OpenInv, SealInv, MemInv, Rotate, TypeOK, Manifest
<1>3. S + 1 \notin Files
  BY <1>2
<1>4. /\ active' = S + 1 /\ wal' = With(wal, S + 1, {}) /\ pc' = "collect"
      /\ open' = {r \in open : r.off > S}
      /\ UNCHANGED <<dirs, man, mem, next, cut, contrib, mode, acked>>
  BY <1>1, <1>2, <1>3 DEF Rotate, Rest, NextFile
<1>5. /\ FilesInv' /\ Unsealed' = Unsealed
      /\ Files' = Files \cup {S + 1} /\ wal'[S + 1] = {}
  BY <1>1, <1>2, <1>3, <1>4, FilesOpened
<1>6. HandedInv'
  BY <1>2, <1>4, <1>5, HandedKept
<1>7. WriterInv'
  <2>1. CASE mode = "ingest"
    BY <1>1, <1>4, <1>5, <2>1 DEF WriterInv
  <2>2. CASE mode = "all"
    <3>1. Pending' = {} /\ ~(S + 1 <= S)
      BY <1>1, <1>2, <1>4, <2>2 DEF Pending
    <3> QED BY <1>1, <1>4, <1>5, <3>1 DEF WriterInv
  <2> QED BY <1>2, <2>1, <2>2
<1>8. OpenInv'
  <2>1. PICK f \in 0 .. S : Offs(open) = f .. next - 1
    BY <1>2 DEF IndInv, OpenInv
  <2>2. \A o \in Offs(open') : o \in S + 1 .. next - 1
    <3> TAKE o \in Offs(open')
    <3>1. PICK r \in open : r.off = o /\ o > S
      BY <1>4 DEF Offs
    <3>2. o \in Offs(open)
      BY <3>1 DEF Offs
    <3> QED BY <1>2, <2>1, <3>1, <3>2
  <2>3. \A o \in S + 1 .. next - 1 : o \in Offs(open')
    <3> TAKE o \in S + 1 .. next - 1
    <3>1. o \in Offs(open) /\ o > S
      BY <1>2, <2>1
    <3>2. PICK r \in open : r.off = o
      BY <3>1 DEF Offs
    <3>3. r \in open'
      BY <1>4, <3>1, <3>2
    <3> QED BY <3>2, <3>3 DEF Offs
  <2>4. Offs(open') = Pending'
    BY <1>1, <1>4, <2>2, <2>3 DEF Pending
  <2> QED BY <1>2, <1>4, <2>4 DEF OpenInv, OneEach
<1>9. SealInv' /\ SegmentsInv' /\ MemInv' /\ CompactInv'
  BY <1>1, <1>2, <1>4 DEF IndInv, SealInv, SegmentsInv, MemInv, CompactInv
<1> QED BY <1>5, <1>6, <1>7, <1>8, <1>9 DEF IndInv

LEMMA CollectFileKeeps ==
    ASSUME IndInv, TypeOK', TornInv', IdsInv', NEW b \in Files, CollectFile(b)
    PROVE  IndInv'
<1> USE ConstantsAssumption
<1>1. PICK S, w : S = man.sealed /\ w = active
  OBVIOUS
<1>2. /\ TypeOK /\ FilesInv /\ HandedInv /\ SegmentsInv /\ MemInv /\ pc = "collect"
      /\ S \in Int /\ -1 <= S /\ b \in Nat /\ On(b) \subseteq Nat
      /\ next \in Nat
      /\ \A o : o \in Unsealed <=> S < o /\ \E c \in Files : o \in On(c)
  BY <1>1, UnsealedFacts DEF IndInv, CollectFile, TypeOK
<1>3. b <= S /\ \A o \in On(b) : o <= S
  <2>1. ~Retained(b, mem.segs) /\ \A o \in On(b) : ~Retained(o, mem.segs)
    BY DEF CollectFile, Collectable, On, Offs
  <2> QED BY <1>1, <1>2, <2>1, UnsealedRetained
<1>4. wal' = Without(wal, {b}) /\ UNCHANGED <<torn, dirs, man, mem, open, next, active,
                                              cut, contrib, pc, mode, acked>>
  BY DEF CollectFile, memory
<1>5. \A o \in Unsealed : \E c \in Files \ {b} : o \in On(c)
  <2> TAKE o \in Unsealed
  <2>1. PICK c \in Files : o \in On(c)
    BY <1>2
  <2>2. c # b
    BY <1>2, <1>3, <2>1
  <2> QED BY <2>1, <2>2
<1>6. /\ FilesInv' /\ Unsealed' = Unsealed
      /\ Files' = Files \ {b} /\ \A c \in Files' : On(c)' = On(c)
  BY <1>2, <1>4, <1>5, FilesDeleted
<1>7. HandedInv'
  BY <1>2, <1>4, <1>6, HandedKept
<1>8. WriterInv'
  <2>1. w # b
    <3> SUFFICES ASSUME w = b PROVE FALSE
      OBVIOUS
    <3>1. Pending \subseteq On(b) /\ Pending # {}
      BY <1>1, <1>2, <1>3 DEF IndInv, WriterInv, Running
    <3>2. PICK o \in Pending : TRUE
      BY <3>1
    <3>3. o \in On(b) /\ S < o /\ o \in Int
      BY <1>1, <1>2, <3>1 DEF Pending
    <3> QED BY <1>2, <1>3, <3>3
  <2>2. w \in Files
    BY <1>1, <1>2 DEF IndInv, WriterInv, Running
  <2>3. w \in Files' /\ On(w)' = On(w) /\ wal'[w] = wal[w] /\ active' = w
    BY <1>1, <1>4, <1>6, <2>1, <2>2 DEF Without, Files
  <2>4. \/ Pending \subseteq On(w) /\ (w <= S => Pending # {})
        \/ w = S + 1 /\ S + SegMax .. next - 1 \subseteq On(w)
        \/ w = S + 1 /\ mode = "ingest" /\ wal[w] = {}
    BY <1>1, <1>2 DEF IndInv, WriterInv, Running
  <2>5. Pending' = Pending
    BY <1>4 DEF Pending
  <2> QED BY <1>1, <1>2, <1>4, <2>3, <2>4, <2>5 DEF WriterInv
<1>9. OpenInv' /\ SealInv' /\ SegmentsInv' /\ MemInv' /\ CompactInv'
  BY <1>2, <1>4 DEF IndInv, OpenInv, Pending, SealInv, SegmentsInv, MemInv, CompactInv
<1> QED BY <1>6, <1>7, <1>8, <1>9 DEF IndInv

LEMMA CollectDoneKeeps ==
    ASSUME IndInv, TypeOK', TornInv', IdsInv', CollectDone
    PROVE  IndInv'
<1> USE ConstantsAssumption
<1>1. PICK S : S = man.sealed
  OBVIOUS
<1>2. /\ TypeOK /\ FilesInv /\ HandedInv /\ pc = "collect"
      /\ Offs(open) = S + 1 .. next - 1 /\ OneEach(open)
      /\ S \in Int /\ S < next /\ next \in Nat
  BY <1>1 DEF IndInv, HandedInv, CollectDone, TypeOK, Manifest, OpenInv, Pending
<1>3. UNCHANGED <<wal, torn, dirs, man, mem, open, next, active, cut, contrib, acked>>
  BY DEF CollectDone, disk, memory
<1>4. FilesInv' /\ Unsealed' = Unsealed
  BY <1>2, <1>3, FilesUnchanged
<1>5. \/ /\ mode = "ingest" /\ Cardinality(open) >= SegMax
         /\ pc' = "write" /\ mode' = mode
      \/ /\ mode = "ingest" => ~(Cardinality(open) >= SegMax)
         /\ pc' = "idle" /\ mode' = "none"
  BY DEF CollectDone
<1>6. HandedInv'
  BY <1>2, <1>3, <1>4, <1>5, HandedKept
<1>7. OpenInv' /\ SealInv' /\ SegmentsInv' /\ MemInv' /\ CompactInv'
  BY <1>2, <1>3, <1>5
  DEF IndInv, OpenInv, Pending, SealInv, SegmentsInv, MemInv, CompactInv
<1>8. WriterInv'
  <2>1. CASE (pc' = "write" /\ mode' = mode) \/ mode # "ingest"
    BY <1>2, <1>3, <1>5, <2>1 DEF IndInv, WriterInv, Running, Files, On, Pending
  <2>2. CASE mode = "ingest" /\ ~(Cardinality(open) >= SegMax)
    <3>1. S + 1 \in Int /\ next - 1 \in Int
      BY <1>2
    <3>2. Cardinality(open) = IF S + 1 > next - 1 THEN 0 ELSE (next - 1) - (S + 1) + 1
      BY <1>2, <3>1, OffsCardinality
    <3>3. next - 1 < S + SegMax
      BY <1>2, <2>2, <3>2
    <3>4. S + SegMax .. next - 1 = {}
      BY <1>2, <3>3
    <3>5. active \in Files /\ (active = S + 1 \/ Pending \subseteq On(active))
      BY <1>1, <1>2 DEF IndInv, WriterInv, Running
    <3> QED BY <1>1, <1>2, <1>3, <1>5, <2>2, <3>4, <3>5
            DEF IndInv, WriterInv, Running, Files, On, Pending
  <2> QED BY <1>5, <2>1, <2>2
<1> QED BY <1>4, <1>6, <1>7, <1>8 DEF IndInv

\* Quarantine and repair change the status of segments, and at most which
\* record of an offset a directory holds.
LEMMA MarkingKeeps ==
    ASSUME IndInv, TypeOK', TornInv', IdsInv', pc = "idle", NEW s, NEW st,
           mem' = [mem EXCEPT !.segs = Marked(@, {s}, st)], man' = mem',
           DOMAIN dirs' = DOMAIN dirs, \A f \in DOMAIN dirs : Offs(dirs'[f]) = Offs(dirs[f]),
           UNCHANGED <<wal, open, next, active, cut, contrib, pc, mode, acked>>
    PROVE  IndInv'
<1>1. /\ TypeOK /\ FilesInv /\ HandedInv /\ SegmentsInv /\ mem = man
      /\ man.segs \in SUBSET Segment /\ man'.segs \in SUBSET Segment /\ man.sealed \in Int
  BY DEF IndInv, MemInv, TypeOK, Manifest
<1>2. man'.segs = Marked(man.segs, {s}, st) /\ man'.sealed = man.sealed
  BY <1>1 DEF TypeOK, Manifest
<1>3. SameRanges(man'.segs, man.segs)
  BY <1>1, <1>2, RangesReflexive, RangesOfMarked
<1>4. Tiled(man'.segs, man.sealed, dirs)
  BY <1>1, <1>3, TiledBySameRanges DEF SegmentsInv
<1>5. SegmentsInv'
  BY <1>2, <1>4 DEF SegmentsInv, Tiled
<1>6. FilesInv' /\ Unsealed' = Unsealed
  BY <1>1, <1>2, FilesUnchanged
<1>7. HandedInv'
  BY <1>1, <1>2, <1>6, HandedKept
<1>8. WriterInv' /\ OpenInv' /\ SealInv' /\ CompactInv'
  BY <1>2 DEF IndInv, WriterInv, OpenInv, SealInv, CompactInv, Running, Files, On, Pending
<1>9. MemInv'
  <2>1. \A u \in man'.segs : \E v \in man'.segs : u.first = v.first /\ u.last = v.last
    OBVIOUS
  <2>2. \A u, v \in man'.segs : u.first = v.first => u = v
    BY <1>3 DEF SameRanges
  <2> QED BY <2>1, <2>2 DEF MemInv, SameRanges
<1> QED BY <1>5, <1>6, <1>7, <1>8, <1>9 DEF IndInv

\* A repair finds in the log every offset of the segment.
LEMMA RepairKeeps ==
    ASSUME IndInv, TypeOK', TornInv', IdsInv', NEW s \in mem.segs, Repair(s)
    PROVE  IndInv'
<1>1. /\ TypeOK /\ SegmentsInv /\ pc = "idle" /\ mem = man /\ s \in man.segs
      /\ s.first \in DOMAIN dirs /\ Offs(dirs[s.first]) = s.first .. s.last
  BY DEF IndInv, MemInv, Repair, SegmentsInv, Tiled
<1>2. Offs(Gathered(s)) = s.first .. s.last
  <2>1. s.first .. s.last \subseteq Offs(Gathered(s))
    BY DEF Repair, Rebuildable
  <2>2. Offs(Gathered(s)) \subseteq s.first .. s.last
    BY DEF Gathered, Offs
  <2> QED BY <2>1, <2>2
<1>3. /\ DOMAIN dirs' = DOMAIN dirs
      /\ \A f \in DOMAIN dirs : Offs(dirs'[f]) = Offs(dirs[f])
  <2>1. dirs' = With(dirs, s.first, Gathered(s))
    BY DEF Repair
  <2>2. \A f \in DOMAIN dirs' : dirs'[f] = IF f = s.first THEN Gathered(s) ELSE dirs[f]
    BY <2>1 DEF With
  <2>3. DOMAIN dirs' = DOMAIN dirs
    BY <1>1, <2>1 DEF With
  <2> QED BY <1>1, <1>2, <2>2, <2>3
<1> QED BY <1>1, <1>3, MarkingKeeps DEF Repair

\* A recovery that sets no record aside renames empty files only.
LEMMA EmptySetAside ==
    ASSUME TypeOK, FilesInv, RecoverScan, aside' = {}
    PROVE  /\ \A b \in Corrupt : wal[b] = {}
           /\ FilesInv' /\ Unsealed' = Unsealed
           /\ Files' = Files \ Corrupt /\ \A b \in Files' : On(b)' = On(b)
<1>1. \A b \in Corrupt : wal[b] = {}
  <2>1. UNION {wal[b] : b \in Corrupt} = {}
    BY DEF RecoverScan, SetAside
  <2> QED BY <2>1
<1>2. \A b \in Corrupt : On(b) = {}
  BY <1>1 DEF On, Offs
<1>3. \A o \in Unsealed : \E b \in Files \ Corrupt : o \in On(b)
  BY <1>2, UnsealedFacts
<1>4. wal' = Without(wal, Corrupt) /\ man' = man
  BY DEF RecoverScan
<1> QED BY <1>1, <1>3, <1>4, FilesDeleted

\* A recovery that sets no record aside.
LEMMA RecoverScanKeeps ==
    ASSUME IndInv, TypeOK', TornInv', IdsInv', RecoverScan, aside' = {}
    PROVE  IndInv'
<1> USE ConstantsAssumption
<1>1. PICK S, N : S = man.sealed /\ N = next'
  OBVIOUS
<1>2. /\ TypeOK /\ FilesInv /\ HandedInv /\ SegmentsInv
      /\ man.segs \in SUBSET Segment /\ man \in Manifest /\ mode = "open"
      /\ S \in Int /\ -1 <= S
      /\ Offs(Live) = Unsealed /\ OneEach(Live)
      /\ \A o : o \in Unsealed <=> S < o /\ \E b \in Files : o \in On(b)
      /\ \A o \in Unsealed : o \in Nat
  BY <1>1, UnsealedFacts, LiveIsUnsealed DEF IndInv, SealInv, RecoverScan, TypeOK, Manifest
<1>3. PICK Q : mem' = [man EXCEPT !.segs = Marked(@, Q, "quarantined")]
  BY DEF RecoverScan
<1>4. mem'.segs = Marked(man.segs, Q, "quarantined") /\ mem'.sealed = S
  BY <1>1, <1>2, <1>3 DEF Manifest
<1>5. \A b \in Corrupt : wal[b] = {}
  BY <1>2, EmptySetAside
<1>6. /\ wal' = Without(wal, Corrupt)
      /\ contrib' = {b \in Files : \E r \in wal[b] : Kept(b, r)}
      /\ open' = Live /\ pc' = "compact"
      /\ UNCHANGED <<man, mode, acked>>
  BY <1>5 DEF RecoverScan, Contributing
<1>7. /\ FilesInv' /\ Unsealed' = Unsealed
      /\ Files' = Files \ Corrupt /\ \A b \in Files' : On(b)' = On(b)
  BY <1>2, EmptySetAside
<1>8. S < N /\ N \in Int /\ Unsealed = S + 1 .. N - 1
  <2>1. IsEnd(N, Live, S)
    BY <1>1 DEF RecoverScan
  <2>2. CASE Live = {} /\ N = S + 1
    <3>1. Unsealed = {}
      BY <1>2, <2>2 DEF Offs
    <3> QED BY <1>2, <2>2, <3>1
  <2>3. ASSUME NEW r \in Live, N = r.off + 1, \A q \in Live : q.off <= r.off
        PROVE  S < N /\ N \in Int /\ Unsealed = S + 1 .. N - 1
    <3>1. r.off \in Unsealed /\ r.off \in Nat /\ S < r.off
      BY <1>2 DEF Offs
    <3>2. \A o \in Unsealed : o <= r.off
      <4>1. \A o \in Offs(Live) : o <= r.off
        BY <2>3 DEF Offs
      <4> QED BY <1>2, <4>1
    <3>3. S + 1 .. r.off \subseteq Unsealed
      BY <1>1, <1>2, <3>1 DEF FilesInv, Dense
    <3>4. \A o \in Unsealed : o \in S + 1 .. r.off
      BY <1>2, <3>1, <3>2
    <3>5. Unsealed = S + 1 .. r.off
      BY <3>3, <3>4
    <3> QED BY <1>2, <2>3, <3>1, <3>5
  <2> QED BY <2>1, <2>2, <2>3 DEF IsEnd
<1>9. HandedInv'
  <2>1. Pending' = Unsealed'
    BY <1>1, <1>6, <1>7, <1>8 DEF Pending
  <2>2. \A o \in Unsealed' : o < N /\ o <= N
    <3>1. \A o \in S + 1 .. N - 1 : o < N /\ o <= N
      BY <1>2, <1>8
    <3> QED BY <1>7, <1>8, <3>1
  <2>3. \A r \in acked : (r.off <= S \/ r.off \in Unsealed) /\ r.off < N
    <3> TAKE r \in acked
    <3>1. r.off \in Nat /\ (r.off <= S \/ r.off \in Unsealed)
      BY <1>1, <1>2 DEF HandedInv, TypeOK, Record
    <3> QED BY <1>2, <1>8, <3>1
  <2> QED BY <1>1, <1>6, <1>7, <1>8, <2>1, <2>2, <2>3 DEF HandedInv
<1>10. SegmentsInv'
  <2>1. \A s \in man.segs :
           s.first \in DOMAIN dirs => s.first \in DOMAIN dirs' /\ dirs'[s.first] = dirs[s.first]
    BY DEF RecoverScan, Without
  <2> QED BY <1>2, <1>6, <2>1 DEF SegmentsInv, Tiled
<1>11. MemInv'
  <2>1. SameRanges(mem'.segs, man.segs)
    BY <1>2, <1>4, RangesReflexive, RangesOfMarked
  <2> QED BY <1>1, <1>4, <1>6, <2>1 DEF MemInv
<1>12. CompactInv'
  <2>1. \A o \in Unsealed : \E b \in contrib' : o \in On(b)
    BY <1>2, <1>6, UnsealedKept DEF Kept, On, Offs
  <2>2. \A b \in contrib' : \E o \in Unsealed : o \in On(b)
    BY <1>1, <1>2, <1>6 DEF Kept, On, Offs
  <2>3. contrib' \subseteq Files'
    BY <1>5, <1>6, <1>7
  <2> QED BY <1>6, <1>7, <2>1, <2>2, <2>3 DEF CompactInv
<1>13. OpenInv'
  <2>1. Offs(open') = Pending'
    BY <1>1, <1>2, <1>6, <1>8 DEF Pending
  <2> QED BY <1>2, <1>6, <2>1 DEF OpenInv
<1>14. WriterInv' /\ SealInv'
  BY <1>2, <1>6 DEF WriterInv, Running, SealInv
<1> QED BY <1>7, <1>9, <1>10, <1>11, <1>12, <1>13, <1>14 DEF IndInv

\* The merged file holds each retained offset of the files it is made of: the
\* newest frame in the greatest of them wins.
LEMMA InMerged ==
    ASSUME IndInv, pc = "compact", NEW b \in contrib, NEW o \in On(b),
           Retained(o, mem.segs)
    PROVE  o \in Offs(Merged)
<1>1. /\ contrib \subseteq Files
      /\ \A c \in Files : c \in Nat /\ wal[c] \subseteq Record /\ c <= man.sealed + 1
      /\ \A c \in Files : \A r \in wal[c] : r.id < born
      /\ man.sealed \in Int /\ -1 <= man.sealed /\ born \in Nat
  <2>1. TypeOK /\ FilesInv /\ IdsInv /\ CompactInv
    BY DEF IndInv
  <2>2. \A c \in Files : \A r \in wal[c] : r \in Known
    BY DEF Known, Frames
  <2> QED BY <2>1, <2>2 DEF TypeOK, Manifest, FilesInv, NamesBounded, IdsInv, CompactInv, Files
<1> DEFINE holders == {c \in contrib : o \in On(c)}
<1>2. PICK c \in holders : \A d \in holders : d <= c
  <2>1. holders \in SUBSET Nat /\ holders # {} /\ \A d \in holders : d <= man.sealed + 1
    BY <1>1
  <2>2. man.sealed + 1 \in Nat
    BY <1>1
  <2> HIDE DEF holders
  <2> QED BY <2>1, <2>2, GreatestNat
<1> DEFINE ids == {r.id : r \in {q \in wal[c] : q.off = o}}
<1>3. PICK i \in ids : \A j \in ids : j <= i
  <2>1. ids \in SUBSET Nat /\ \A j \in ids : j <= born
    BY <1>1 DEF Record
  <2>2. ids # {}
    BY DEF On, Offs
  <2>3. born \in Nat
    BY <1>1
  <2> HIDE DEF ids
  <2> QED BY <2>1, <2>2, <2>3, GreatestNat
<1>4. PICK r \in wal[c] : r.off = o /\ r.id = i
  OBVIOUS
<1>5. ASSUME NEW d \in contrib, NEW q \in wal[d], q.off = r.off, q # r
      PROVE  d < c \/ (d = c /\ q.id < r.id)
  <2>1. d \in holders
    BY <1>4, <1>5 DEF On, Offs
  <2>2. d <= c /\ d \in Nat /\ c \in Nat /\ q \in Record /\ r \in Record
    BY <1>1, <1>2, <2>1
  <2>3. d = c => q.id <= r.id
    BY <1>3, <1>4, <1>5
  <2>4. q.id # r.id
    BY <1>5, <2>2 DEF Record
  <2> QED BY <2>2, <2>3, <2>4 DEF Record
<1>6. r \in Merged
  BY <1>4, <1>5 DEF Merged
<1> QED BY <1>4, <1>6 DEF Offs

LEMMA MergedHoldsUnsealed ==
    ASSUME IndInv, pc = "compact"
    PROVE  /\ Unsealed \subseteq Offs(Merged)
           /\ Offs(Merged) \subseteq UNION {On(b) : b \in Files}
<1>1. /\ TypeOK /\ SegmentsInv /\ MemInv /\ contrib \subseteq Files
      /\ \A o \in Unsealed : \E b \in contrib : o \in On(b)
      /\ \A o \in Unsealed : o \in Int /\ man.sealed < o
  BY UnsealedFacts DEF IndInv, CompactInv
<1>2. \A o \in Unsealed : o \in Offs(Merged)
  BY <1>1, UnsealedRetained, InMerged
<1>3. \A r \in Merged : \E b \in Files : r.off \in On(b)
  BY <1>1 DEF Merged, On, Offs
<1> QED BY <1>2, <1>3 DEF Offs

LEMMA CompactWriteKeeps ==
    ASSUME IndInv, TypeOK', TornInv', IdsInv', CompactWrite
    PROVE  IndInv'
<1> USE ConstantsAssumption
<1>1. PICK S, U : S = man.sealed /\ U = Unsealed
  OBVIOUS
<1>2. /\ TypeOK /\ FilesInv /\ HandedInv /\ CompactInv /\ pc = "compact"
      /\ S \in Int /\ -1 <= S /\ S < next /\ next \in Nat
      /\ U \subseteq Offs(Merged) /\ Offs(Merged) \subseteq UNION {On(b) : b \in Files}
      /\ \A o : o \in U <=> S < o /\ \E b \in Files : o \in On(b)
      /\ U \subseteq Nat /\ \A o \in U : o < next
      /\ \A b \in Files : On(b) \subseteq Nat
      /\ S + 1 .. next - 1 \subseteq U
  BY <1>1, MergedHoldsUnsealed, UnsealedFacts
  DEF IndInv, HandedInv, CompactWrite, TypeOK, Manifest, Pending
<1>3. /\ pc' = "cleanup"
      /\ UNCHANGED <<torn, dirs, man, mem, open, next, cut, mode, acked>>
  BY DEF CompactWrite
<1>4. WriterInv' /\ OpenInv' /\ SealInv' /\ SegmentsInv' /\ MemInv'
  BY <1>2, <1>3
  DEF IndInv, WriterInv, Running, OpenInv, Pending, SealInv, SegmentsInv, MemInv
<1>5. ASSUME Merged = {}, active' = next, UNCHANGED <<wal, contrib>>
      PROVE  FilesInv' /\ Unsealed' = U /\ CompactInv'
  <2>1. U = {} /\ next = S + 1
    <3>1. U = {}
      BY <1>2, <1>5 DEF Offs
    <3> QED BY <1>2, <3>1
  <2>2. contrib = {}
    BY <1>1, <1>2, <2>1 DEF CompactInv
  <2>3. FilesInv' /\ Unsealed' = U
    BY <1>1, <1>2, <1>3, <1>5, FilesUnchanged
  <2>4. active' = S + 1 /\ ~(S + 1 <= S)
    BY <1>2, <1>5, <2>1
  <2> QED BY <1>1, <1>3, <1>5, <2>1, <2>2, <2>3, <2>4 DEF CompactInv
<1>6. ASSUME NEW base \in Offs(Merged), \A r \in Merged : base <= r.off,
             wal' = With(wal, base, Merged), contrib' = contrib \ {base}, active' = base
      PROVE  FilesInv' /\ Unsealed' = U /\ CompactInv'
  <2>1. U # {}
    <3> SUFFICES ASSUME U = {} PROVE FALSE
      OBVIOUS
    <3>1. contrib = {}
      BY <1>1, <1>2 DEF CompactInv
    <3> QED BY <1>6, <3>1 DEF Merged, Offs
  <2>2. S + 1 \in U
    <3>1. PICK o \in U : TRUE
      BY <2>1
    <3>2. S + 1 \in S + 1 .. o /\ S + 1 .. o \subseteq U
      BY <1>1, <1>2, <3>1 DEF FilesInv, Dense
    <3> QED BY <3>2
  <2>3. base \in Nat /\ base <= S + 1
    <3>1. PICK r \in Merged : r.off = S + 1
      BY <1>2, <2>2 DEF Offs
    <3> QED BY <1>2, <1>6, <3>1
  <2>4. /\ Files' = Files \cup {base} /\ wal'[base] = Merged
        /\ \A b \in Files : b # base => wal'[b] = wal[b]
    BY <1>6 DEF Files, With
  <2>5. On(base)' = Offs(Merged) /\ \A b \in Files : b # base => On(b)' = On(b)
    BY <2>4 DEF On
  <2>6. Unsealed' = U
    <3>1. \A o : o \in Unsealed' <=> S < o /\ \E b \in Files' : o \in On(b)'
      BY <1>1, <1>3 DEF Unsealed
    <3>2. \A o \in U : S < o /\ o \in On(base)'
      BY <1>2, <2>5
    <3>3. \A o : S < o /\ (\E b \in Files' : o \in On(b)') => o \in U
      BY <1>2, <2>4, <2>5
    <3> QED BY <2>4, <3>1, <3>2, <3>3
  <2>7. ASSUME NEW a \in Int, S < a, NEW o \in Offs(Merged), NEW p \in a .. o
        PROVE  p \in Offs(Merged)
    <3>1. o \in Nat /\ p \in S + 1 .. o /\ S < o
      BY <1>2, <2>7
    <3>2. o \in U
      BY <1>2, <3>1
    <3>3. p \in U
      BY <1>1, <1>2, <3>1, <3>2 DEF FilesInv, Dense
    <3> QED BY <1>2, <3>3
  <2>8. NamesBounded'
    BY <1>1, <1>2, <1>3, <2>3, <2>4 DEF FilesInv, NamesBounded
  <2>9. Dense'
    BY <1>1, <1>2, <1>3, <2>6 DEF FilesInv, Dense
  <2>10. SelfContained'
    <3> SUFFICES ASSUME NEW b \in Files', b <= S, NEW o \in On(b)', NEW p \in S + 1 .. o
                 PROVE  p \in On(b)'
      BY <1>1, <1>3 DEF SelfContained
    <3>1. CASE b = base
      <4>1. S + 1 \in Int /\ S < S + 1
        BY <1>2
      <4> QED BY <2>5, <2>7, <3>1, <4>1
    <3>2. CASE b # base
      BY <1>1, <1>2, <2>4, <2>5, <3>2 DEF FilesInv, SelfContained
    <3> QED BY <3>1, <3>2
  <2>11. NewestFile'
    <3> SUFFICES ASSUME NEW b \in Files', b = S + 1, NEW o \in On(b)',
                        NEW p \in S + SegMax .. o
                 PROVE  p \in On(b)'
      BY <1>1, <1>3 DEF NewestFile
    <3>1. CASE b = base
      <4>1. S + SegMax \in Int /\ S < S + SegMax
        BY <1>2
      <4> QED BY <2>5, <2>7, <3>1, <4>1
    <3>2. CASE b # base
      BY <1>1, <1>2, <2>4, <2>5, <3>2 DEF FilesInv, NewestFile
    <3> QED BY <3>1, <3>2
  <2>12. CompactInv'
    <3>1. Pending' # {}
      <4>1. S + 1 \in S + 1 .. next - 1
        BY <1>2, <2>2
      <4> QED BY <1>1, <1>3, <4>1 DEF Pending
    <3>2. \A o \in U : o \in On(base)'
      BY <1>2, <2>5
    <3> QED BY <1>1, <1>3, <1>6, <2>3, <2>4, <2>6, <3>1, <3>2 DEF CompactInv
  <2> QED BY <2>6, <2>8, <2>9, <2>10, <2>11, <2>12 DEF FilesInv
<1>7. FilesInv' /\ Unsealed' = U /\ CompactInv'
  BY <1>5, <1>6 DEF CompactWrite, Obsolete
<1>8. HandedInv'
  BY <1>1, <1>2, <1>3, <1>7, HandedKept
<1> QED BY <1>4, <1>7, <1>8 DEF IndInv

LEMMA CleanupFileKeeps ==
    ASSUME IndInv, TypeOK', TornInv', IdsInv', NEW b \in contrib, CleanupFile(b)
    PROVE  IndInv'
<1>1. PICK w : w = active
  OBVIOUS
<1>2. /\ FilesInv /\ HandedInv /\ pc = "cleanup" /\ w # b
      /\ \A o \in Unsealed : w \in Files /\ o \in On(w)
  BY <1>1 DEF IndInv, CompactInv, CleanupFile
<1>3. /\ wal' = Without(wal, {b}) /\ contrib' = contrib \ {b}
      /\ UNCHANGED <<torn, dirs, man, mem, open, next, active, cut, pc, mode, acked>>
  BY DEF CleanupFile
<1>4. /\ FilesInv' /\ Unsealed' = Unsealed
      /\ Files' = Files \ {b} /\ \A c \in Files' : On(c)' = On(c)
  BY <1>2, <1>3, FilesDeleted
<1>5. HandedInv'
  BY <1>2, <1>3, <1>4, HandedKept
<1>6. CompactInv'
  <2>1. active' = w /\ Pending' = Pending
    BY <1>1, <1>3 DEF Pending
  <2>2. \A o \in Unsealed' : w \in Files' /\ o \in On(w)'
    BY <1>2, <1>4
  <2>3. /\ w \notin contrib /\ w <= man.sealed + 1
        /\ w <= man.sealed => Pending # {}
    BY <1>1, <1>2 DEF IndInv, CompactInv
  <2> QED BY <1>2, <1>3, <2>1, <2>2, <2>3 DEF CompactInv
<1>7. WriterInv' /\ OpenInv' /\ SealInv' /\ SegmentsInv' /\ MemInv'
  BY <1>2, <1>3
  DEF IndInv, WriterInv, Running, OpenInv, Pending, SealInv, SegmentsInv, MemInv
<1> QED BY <1>4, <1>5, <1>6, <1>7 DEF IndInv

LEMMA OpenWriterKeeps ==
    ASSUME IndInv, TypeOK', TornInv', IdsInv', OpenWriter
    PROVE  IndInv'
<1> USE ConstantsAssumption
<1>1. PICK S, w : S = man.sealed /\ w = active
  OBVIOUS
<1>2. /\ TypeOK /\ FilesInv /\ HandedInv /\ pc = "cleanup" /\ MemInv /\ SegmentsInv
      /\ S \in Int /\ mem.segs \in SUBSET Segment /\ man.segs \in SUBSET Segment
      /\ w <= S + 1 /\ (w <= S => Pending # {})
      /\ \A o \in Unsealed : w \in Files /\ o \in On(w)
      /\ Pending \subseteq Unsealed
  BY <1>1 DEF IndInv, HandedInv, CompactInv, OpenWriter, TypeOK, Manifest
<1>3. /\ man' = mem /\ mem' = mem /\ man'.sealed = S
      /\ UNCHANGED <<torn, dirs, open, next, active, cut, contrib, mode, acked>>
      /\ pc' = "collect"
  BY <1>1, <1>2 DEF OpenWriter, memory, MemInv
<1>4. SegmentsInv'
  <2>1. Tiled(mem.segs, S, dirs)
    BY <1>1, <1>2, TiledBySameRanges DEF SegmentsInv, MemInv
  <2> QED BY <1>3, <2>1 DEF SegmentsInv
<1>5. MemInv'
  <2>1. SameRanges(mem.segs, mem.segs)
    BY <1>2 DEF MemInv, SameRanges
  <2> QED BY <1>3, <2>1 DEF MemInv
<1>6. FilesInv' /\ Unsealed' = Unsealed /\ w \in Files' /\ Pending \subseteq On(w)'
  <2>1. CASE w \in Files
    <3>1. wal' = wal
      BY <1>1, <2>1 DEF OpenWriter
    <3>2. w \in Files' /\ On(w)' = On(w)
      BY <2>1, <3>1 DEF On, Files
    <3> QED BY <1>1, <1>2, <1>3, <3>1, <3>2, FilesUnchanged
  <2>2. CASE w \notin Files
    <3>1. wal' = With(wal, w, {})
      BY <1>1, <2>2 DEF OpenWriter
    <3>2. Pending = {}
      BY <1>2, <2>2
    <3> QED BY <1>1, <1>2, <1>3, <2>2, <3>1, <3>2, FilesOpened
  <2> QED BY <2>1, <2>2
<1>7. HandedInv'
  BY <1>1, <1>2, <1>3, <1>6, HandedKept
<1>8. WriterInv'
  <2>1. active' = w /\ Pending' = Pending
    BY <1>1, <1>3 DEF Pending
  <2> QED BY <1>1, <1>2, <1>3, <1>6, <2>1 DEF WriterInv
<1>9. OpenInv' /\ SealInv' /\ CompactInv'
  BY <1>1, <1>2, <1>3 DEF IndInv, OpenInv, Pending, SealInv, CompactInv
<1> QED BY <1>4, <1>5, <1>6, <1>7, <1>8, <1>9 DEF IndInv

LEMMA StutterKeeps ==
    ASSUME IndInv, UNCHANGED vars
    PROVE  IndInv'
<1>1. UNCHANGED <<wal, torn, aside, dirs, man, mem, open, next, active, cut, contrib, pc, mode,
                  born, acked, crashes, faults>>
  BY DEF vars, disk, memory, counts
<1>2. TypeOK' /\ TornInv' /\ IdsInv'
  BY <1>1 DEF IndInv, TypeOK, TornInv, IdsInv, Known, Frames, Files
<1>3. FilesInv' /\ HandedInv'
  BY <1>1 DEF IndInv, FilesInv, NamesBounded, Dense, SelfContained, NewestFile, HandedInv,
              Unsealed, On, Files, Pending
<1>4. WriterInv' /\ OpenInv' /\ CompactInv'
  BY <1>1 DEF IndInv, WriterInv, Running, OpenInv, CompactInv, Unsealed, On, Files, Pending
<1>5. SealInv' /\ SegmentsInv' /\ MemInv'
  BY <1>1 DEF IndInv, SealInv, SegmentsInv, MemInv
<1> QED BY <1>2, <1>3, <1>4, <1>5 DEF IndInv

LEMMA NextTorn == TornInv /\ [Next]_vars => TornInv'
<1> SUFFICES ASSUME TornInv, [Next]_vars PROVE TornInv'
  OBVIOUS
<1>1. ASSUME NEW n, NEW k, NEW s,
             \/ Ingest(n) \/ IngestFails \/ SealAll \/ Quarantine(s) \/ Repair(s)
             \/ WriteSegment \/ Publish \/ Rotate \/ CollectFile(k) \/ CollectDone
             \/ CompactWrite \/ CleanupFile(k) \/ OpenWriter \/ UNCHANGED vars
      PROVE  TornInv'
  BY <1>1
  DEF TornInv, Ingest, IngestFails, SealAll, Quarantine, Repair, WriteSegment, Publish, Rotate,
      CollectFile, CollectDone, CompactWrite, CleanupFile, OpenWriter, vars, disk
<1>2. ASSUME NEW n, NEW k, Crash \/ CrashInIngest(n, k) \/ RecoverScan
      PROVE  TornInv'
  BY <1>2 DEF TornInv, Crash, CrashInIngest, Die, RecoverScan
<1> QED BY <1>1, <1>2 DEF Next, Requests, SealSteps, CollectSteps, RecoverySteps, Crashes

LEMMA NextKeeps == IndInv /\ [Next]_vars /\ aside' = {} => IndInv'
<1> SUFFICES ASSUME IndInv, [Next]_vars, aside' = {} PROVE IndInv'
  OBVIOUS
<1>1. TypeOK' /\ TornInv' /\ IdsInv'
  BY NextType, NextTorn, NextIds DEF IndInv
<1>2. CASE Requests
  <2>1. ASSUME NEW n \in 1 .. MaxBatch, Ingest(n) PROVE IndInv'
    BY <1>1, <2>1, IngestKeeps
  <2>2. CASE IngestFails
    BY <1>1, <2>2, IngestFailsKeeps
  <2>3. CASE SealAll
    BY <1>1, <2>3, SealAllKeeps
  <2>4. ASSUME NEW s \in mem.segs, Quarantine(s) PROVE IndInv'
    BY <1>1, <2>4, MarkingKeeps DEF Quarantine
  <2>5. ASSUME NEW s \in mem.segs, Repair(s) PROVE IndInv'
    BY <1>1, <2>5, RepairKeeps
  <2> QED BY <1>2, <2>1, <2>2, <2>3, <2>4, <2>5 DEF Requests
<1>3. CASE SealSteps
  BY <1>1, <1>3, WriteSegmentKeeps, PublishKeeps, RotateKeeps DEF SealSteps
<1>4. CASE CollectSteps
  BY <1>1, <1>4, CollectDoneKeeps, CollectFileKeeps DEF CollectSteps
<1>5. CASE RecoverySteps
  BY <1>1, <1>5, RecoverScanKeeps, CompactWriteKeeps, CleanupFileKeeps, OpenWriterKeeps
  DEF RecoverySteps
<1>6. CASE Crashes
  BY <1>1, <1>6, CrashKeeps, CrashInIngestKeeps DEF Crashes
<1>7. CASE UNCHANGED vars
  BY <1>7, StutterKeeps
<1> QED BY <1>2, <1>3, <1>4, <1>5, <1>6, <1>7 DEF Next

\* What is set aside stays there, and without torn frames nothing is.
LEMMA NextAside ==
    ASSUME [Next]_vars
    PROVE  /\ aside \subseteq aside'
           /\ ~TornWrites /\ torn = {} /\ aside = {} => torn' = {} /\ aside' = {}
<1>1. ASSUME NEW n, NEW k, NEW s,
             \/ Ingest(n) \/ IngestFails \/ SealAll \/ Quarantine(s) \/ Repair(s)
             \/ WriteSegment \/ Publish \/ Rotate \/ CollectFile(k) \/ CollectDone
             \/ CompactWrite \/ CleanupFile(k) \/ OpenWriter \/ Crash \/ UNCHANGED vars
      PROVE  UNCHANGED <<torn, aside>>
  BY <1>1
  DEF Ingest, IngestFails, SealAll, Quarantine, Repair, WriteSegment, Publish, Rotate,
      CollectFile, CollectDone, CompactWrite, CleanupFile, OpenWriter, Crash, vars, disk
<1>2. ASSUME NEW n, NEW k, CrashInIngest(n, k)
      PROVE  aside' = aside /\ (~TornWrites => torn' = torn)
  BY <1>2 DEF CrashInIngest
<1>3. CASE RecoverScan
  <2>1. aside' = aside \cup SetAside /\ torn' = {}
    BY <1>3 DEF RecoverScan
  <2>2. torn = {} => SetAside = {}
    BY DEF SetAside, Corrupt
  <2> QED BY <2>1, <2>2
<1> QED
  BY <1>1, <1>2, <1>3 DEF Next, Requests, SealSteps, CollectSteps, RecoverySteps, Crashes
-----------------------------------------------------------------------------
(***************************************************************************)
(* The theorems about any fault that the model has.  The invariant holds   *)
(* until a recovery sets records aside, and no torn frame, no such         *)
(* recovery.                                                               *)
(***************************************************************************)

LogUntilAside == aside = {} => IndInv
NoneTorn      == torn = {} /\ aside = {}

\* Up to the first recovery that sets aside a file with records the invariant
\* holds of every reachable state, whatever frames are torn and writes fail.
THEOREM UntilSetAside == Spec => []LogUntilAside
<1>1. Init => LogUntilAside
  BY InitInv DEF LogUntilAside
<1>2. LogUntilAside /\ [Next]_vars => LogUntilAside'
  <2> SUFFICES ASSUME LogUntilAside, [Next]_vars, aside' = {} PROVE IndInv'
    BY DEF LogUntilAside
  <2>1. aside = {}
    BY NextAside
  <2> QED BY <2>1, NextKeeps DEF LogUntilAside
<1> QED BY <1>1, <1>2, PTL DEF Spec

LEMMA NothingSetAside ==
    ASSUME ~TornWrites
    PROVE  Spec => []NoneTorn
<1>1. Init => NoneTorn
  BY DEF Init, NoneTorn
<1>2. NoneTorn /\ [Next]_vars => NoneTorn'
  BY NextAside DEF NoneTorn
<1> QED BY <1>1, <1>2, PTL DEF Spec

\* Without torn frames it holds of every reachable state.
THEOREM Invariance ==
    ASSUME ~TornWrites
    PROVE  Spec => []IndInv
<1>1. NoneTorn /\ LogUntilAside => IndInv
  BY DEF NoneTorn, LogUntilAside
<1> QED BY <1>1, UntilSetAside, NothingSetAside, PTL

\* The published segments cut the sealed offsets, and their directories hold
\* them, whatever writes fail.
THEOREM SegmentsCutTheLog ==
    ASSUME ~TornWrites
    PROVE  Spec => []SegmentsTile
<1>1. IndInv => SegmentsTile
  <2> SUFFICES ASSUME IndInv PROVE SegmentsTile
    OBVIOUS
  <2>1. SegmentsInv /\ man.segs \in SUBSET Segment /\ man.sealed \in Int
    BY DEF IndInv, TypeOK, Manifest
  <2>2. \A o \in 0 .. man.sealed : \E s \in man.segs : o \in s.first .. s.last
    BY <2>1 DEF SegmentsInv, Tiled, Segment
  <2> QED BY <2>1, <2>2 DEF SegmentsInv, Tiled, SegmentsTile
<1> QED BY <1>1, Invariance, PTL

\* The newest frame of an acknowledged offset is the acknowledged one.
LEMMA FoundIn ==
    ASSUME IndInv, NEW R, R \subseteq Known, NEW r \in acked, r.off \in Offs(R)
    PROVE  Found(r, R)
<1>1. PICK q \in R : q.off = r.off
  BY DEF Offs
<1>2. r \in Record /\ q \in Record
  <2>1. r \in Known /\ q \in Known
    BY DEF Known
  <2> QED BY <2>1, KnownType
<1>3. q.id <= r.id /\ (q \in acked => r.id <= q.id)
  BY <1>1, <1>2 DEF IndInv, IdsInv, Known
<1>4. q.id = r.id => q = r
  BY <1>1, <1>2 DEF Record
<1>5. CASE q = r
  BY <1>5 DEF Found
<1>6. CASE q # r
  <2>1. q.id < r.id /\ q \notin acked
    BY <1>2, <1>3, <1>4, <1>6 DEF Record
  <2> QED BY <1>1, <2>1 DEF Found
<1> QED BY <1>5, <1>6

\* Disk and service in terms of offsets.
LEMMA StoredAndServed ==
    ASSUME IndInv
    PROVE  /\ Stored \subseteq Known /\ Served \subseteq Known
           /\ Offs(Stored) = 0 .. man.sealed \cup Unsealed
           /\ pc = "idle" => Offs(Served) = 0 .. next - 1
           /\ \A r \in acked : /\ r.off \in Offs(Stored)
                               /\ pc = "idle" => r.off \in Offs(Served)
<1>1. /\ TypeOK /\ FilesInv /\ HandedInv /\ SegmentsInv
      /\ man.sealed \in Int /\ -1 <= man.sealed /\ next \in Nat
      /\ pc = "idle" => Offs(open) = Pending /\ man.sealed < next
      /\ \A r \in acked : r.off \in Nat
  BY DEF IndInv, TypeOK, Manifest, HandedInv, OpenInv, Record
<1>2. Offs(Published) = 0 .. man.sealed /\ Offs(Live) = Unsealed
  BY <1>1, PublishedIsSealed, LiveIsUnsealed
<1>3. Published \subseteq Known /\ Live \subseteq Known /\ open \subseteq Known
  BY <1>1 DEF Published, Known, Live, SegmentsInv, Tiled
<1>4. Offs(Stored) = 0 .. man.sealed \cup Unsealed
  BY <1>2, OffsOfUnion DEF Stored
<1>5. pc = "idle" => Offs(Served) = 0 .. next - 1
  <2> SUFFICES ASSUME pc = "idle" PROVE Offs(Served) = 0 .. next - 1
    OBVIOUS
  <2>1. Offs(Served) = 0 .. man.sealed \cup (man.sealed + 1 .. next - 1)
    BY <1>1, <1>2, OffsOfUnion DEF Served, Pending
  <2> QED BY <1>1, <2>1
<1>6. \A r \in acked : r.off \in Offs(Stored) /\ (pc = "idle" => r.off \in Offs(Served))
  <2> TAKE r \in acked
  <2>1. /\ r.off <= man.sealed \/ r.off \in Unsealed
        /\ pc = "idle" => r.off < next
    BY <1>1 DEF HandedInv
  <2> QED BY <1>1, <1>4, <1>5, <2>1
<1> QED BY <1>3, <1>4, <1>5, <1>6 DEF Stored, Served

\* Torn frames and failed writes together: as long as no recovery has set
\* records aside, a restart at any moment finds every acknowledged record and
\* a node that accepts requests serves it, but for one whose offset a failed
\* write had left an older frame for, and then it is that frame.
THEOREM LossExplained == Spec => []LossIsExplained
<1>1. LogUntilAside => LossIsExplained
  <2> SUFFICES ASSUME IndInv, NEW r \in acked
               PROVE  Found(r, Stored) /\ (pc = "idle" => Found(r, Served))
    BY DEF LogUntilAside, LossIsExplained
  <2> QED BY StoredAndServed, FoundIn
<1> QED BY <1>1, UntilSetAside, PTL
-----------------------------------------------------------------------------
(***************************************************************************)
(* When no write fails an offset has one frame.  The record found is then  *)
(* the acknowledged one.                                                   *)
(***************************************************************************)

LEMMA InitRepeats == Init => NoRepeats
BY DEF Init, NoRepeats, Known, Frames, Files

LEMMA RecordsRepeat ==
    ASSUME IndInv, NoRepeats, [Next]_vars
    PROVE  \A r \in Known' : r.id = r.off
<1>1. CASE Shrunk
  BY <1>1 DEF Shrunk, NoRepeats
<1>2. ASSUME NEW n \in Nat, Grown(n) PROVE \A r \in Known' : r.id = r.off
  <2>1. next = born
    BY <1>2 DEF Grown, NoRepeats
  <2>2. \A r \in Batch(n) : r.id = r.off
    BY <2>1 DEF Batch
  <2> QED BY <1>2, <2>2 DEF Grown, NoRepeats
<1> QED BY <1>1, <1>2, NextKnown

LEMMA RepeatsKept ==
    ASSUME ~WriteErrors, IndInv, IndInv', NoRepeats, [Next]_vars, aside' = {}
    PROVE  NoRepeats'
<1> USE ConstantsAssumption
<1>1. PICK S, U : S = man.sealed /\ U = Unsealed
  OBVIOUS
<1>2. /\ TypeOK /\ FilesInv /\ HandedInv /\ WriterInv
      /\ S \in Int /\ born \in Nat /\ next \in Nat /\ U \subseteq Nat
      /\ pc # "down" => S < next /\ S + 1 .. next - 1 \subseteq U /\ next = born
      /\ pc = "down" => S < born /\ S + 1 .. born - 1 \subseteq U
  BY <1>1, UnsealedFacts DEF IndInv, TypeOK, Manifest, HandedInv, Pending, NoRepeats
<1>3. ASSUME pc' # "down", next' = born' PROVE NoRepeats'
  BY <1>3, RecordsRepeat DEF NoRepeats
<1>4. ASSUME NEW n \in 1 .. MaxBatch, Ingest(n) PROVE NoRepeats'
  BY <1>2, <1>3, <1>4 DEF Ingest
<1>5. ASSUME IngestFails PROVE FALSE
  BY <1>5 DEF IngestFails
<1>6. ASSUME NEW b, NEW s, \/ SealAll \/ Quarantine(s) \/ Repair(s) \/ WriteSegment
                           \/ Publish \/ Rotate \/ CollectFile(b) \/ CollectDone
                           \/ CompactWrite \/ CleanupFile(b) \/ OpenWriter
      PROVE  NoRepeats'
  <2>1. pc # "down" /\ pc' # "down" /\ UNCHANGED <<next, born>>
    BY <1>6
    DEF SealAll, Quarantine, Repair, WriteSegment, Publish, Rotate, CollectFile, CollectDone,
        CompactWrite, CleanupFile, OpenWriter, memory
  <2> QED BY <1>2, <1>3, <2>1
<1>7. CASE Crash
  <2>1. pc # "down" /\ pc' = "down" /\ UNCHANGED <<wal, man, born>>
    BY <1>7 DEF Crash, Die, disk
  <2>2. Unsealed' = U
    BY <1>1, <1>2, <2>1, FilesUnchanged
  <2> QED BY <1>1, <1>2, <2>1, <2>2, RecordsRepeat DEF NoRepeats
<1>8. ASSUME NEW n \in 1 .. MaxBatch, NEW k \in 0 .. n, CrashInIngest(n, k)
      PROVE  NoRepeats'
  <2>1. pc = "idle" /\ pc' = "down" /\ k \in Nat /\ born' = born + k /\ man' = man
    BY <1>8 DEF CrashInIngest, Die
  <2>2. Unsealed' = U \cup (next .. next + k - 1)
    BY <1>1, <1>2, <1>8, <2>1, FilesAppended DEF CrashInIngest
  <2>3. S < born' /\ S + 1 .. born' - 1 \subseteq Unsealed'
    BY <1>2, <2>1, <2>2
  <2> QED BY <1>1, <2>1, <2>3, RecordsRepeat DEF NoRepeats
<1>9. CASE RecoverScan
  <2>1. pc = "down" /\ pc' = "compact" /\ man' = man /\ born' = born
    BY <1>9 DEF RecoverScan
  <2>2. Unsealed' = U
    BY <1>1, <1>2, <1>9, EmptySetAside
  <2>3. PICK N : N = next'
    OBVIOUS
  <2>4. /\ S < N /\ N \in Nat /\ S + 1 .. N - 1 \subseteq U
        /\ \A o \in U : o < N
    BY <1>1, <2>1, <2>2, <2>3 DEF IndInv, HandedInv, TypeOK, Pending
  <2>5. \A o \in U : o < born
    <3> TAKE o \in U
    <3>1. PICK r \in Frames : r.off = o
      BY <1>1 DEF Unsealed, On, Offs, Frames
    <3>2. r \in Known
      BY <3>1 DEF Known
    <3> QED BY <3>1, <3>2 DEF IndInv, IdsInv, NoRepeats
  <2>6. N = born
    <3>1. ~(N < born)
      <4> SUFFICES ASSUME N < born PROVE FALSE
        OBVIOUS
      <4>1. N \in S + 1 .. born - 1
        BY <1>2, <2>4
      <4>2. N \in U
        BY <1>2, <2>1, <4>1
      <4> QED BY <2>4, <4>2
    <3>2. ~(born < N)
      <4> SUFFICES ASSUME born < N PROVE FALSE
        OBVIOUS
      <4>1. born \in S + 1 .. N - 1
        BY <1>2, <2>1, <2>4
      <4>2. born \in U
        BY <2>4, <4>1
      <4> QED BY <1>2, <2>5, <4>2
    <3> QED BY <1>2, <2>4, <3>1, <3>2
  <2> QED BY <1>3, <2>1, <2>3, <2>6
<1>10. CASE UNCHANGED vars
  BY <1>10 DEF vars, disk, memory, NoRepeats, Known, Frames, Files, Unsealed, On
<1> QED
  BY <1>4, <1>5, <1>6, <1>7, <1>8, <1>9, <1>10
  DEF Next, Requests, SealSteps, CollectSteps, RecoverySteps, Crashes

PlainUntilAside == aside = {} => IndInv /\ NoRepeats

LEMMA PlainInvariance ==
    ASSUME ~WriteErrors
    PROVE  Spec => []PlainUntilAside
<1>1. Init => PlainUntilAside
  BY InitInv, InitRepeats DEF PlainUntilAside
<1>2. PlainUntilAside /\ [Next]_vars => PlainUntilAside'
  <2> SUFFICES ASSUME PlainUntilAside, [Next]_vars, aside' = {} PROVE IndInv' /\ NoRepeats'
    BY DEF PlainUntilAside
  <2>1. aside = {}
    BY NextAside
  <2>2. IndInv'
    BY <2>1, NextKeeps DEF PlainUntilAside
  <2> QED BY <2>1, <2>2, RepeatsKept DEF PlainUntilAside
<1> QED BY <1>1, <1>2, PTL DEF Spec

\* Disk, service and acknowledgements in terms of what was ever written.
LogIsFull ==
    /\ born \in Nat
    /\ Offs(Stored) = 0 .. born - 1
    /\ \A r \in Stored : r \in Record /\ r.id = r.off
    /\ AckedDurable /\ AckedServed

\* With one frame to an offset the record found is the acknowledged one.
LEMMA SameOffSameRecord ==
    ASSUME IndInv, NoRepeats, NEW p \in Known, NEW q \in Known, p.off = q.off
    PROVE  p = q
<1>1. p \in Record /\ q \in Record
  BY KnownType
<1> QED BY <1>1 DEF NoRepeats, Record

LEMMA UnsealedIsRest ==
    ASSUME IndInv, NoRepeats
    PROVE  /\ man.sealed < born /\ Unsealed = man.sealed + 1 .. born - 1
           /\ pc # "down" => next = born
<1>1. PICK S : S = man.sealed
  OBVIOUS
<1>2. /\ S \in Int /\ born \in Nat /\ Unsealed \subseteq Nat /\ \A o \in Unsealed : S < o
      /\ S < born /\ S + 1 .. born - 1 \subseteq Unsealed
      /\ pc # "down" => next = born
  BY <1>1, UnsealedFacts DEF IndInv, TypeOK, Manifest, HandedInv, Pending, NoRepeats
<1>3. \A o \in Unsealed : o < born
  <2> TAKE o \in Unsealed
  <2>1. PICK r \in Frames : r.off = o
    BY DEF Unsealed, On, Offs, Frames
  <2>2. r \in Known
    BY <2>1 DEF Known
  <2> QED BY <2>1, <2>2 DEF IndInv, IdsInv, NoRepeats
<1>4. \A o \in Unsealed : o \in S + 1 .. born - 1
  BY <1>2, <1>3
<1> QED BY <1>1, <1>2, <1>4

LEMMA LogFull ==
    ASSUME IndInv, NoRepeats
    PROVE  LogIsFull
<1>1. /\ born \in Nat /\ man.sealed \in Int /\ -1 <= man.sealed
      /\ man.sealed < born /\ Unsealed = man.sealed + 1 .. born - 1
  BY UnsealedIsRest DEF IndInv, TypeOK, Manifest
<1>2. /\ Stored \subseteq Known /\ Served \subseteq Known /\ acked \subseteq Known
      /\ Offs(Stored) = 0 .. man.sealed \cup Unsealed
      /\ \A r \in acked : r.off \in Offs(Stored) /\ (pc = "idle" => r.off \in Offs(Served))
  BY StoredAndServed DEF Known
<1>3. Offs(Stored) = 0 .. born - 1
  BY <1>1, <1>2
<1>4. \A r \in Stored : r \in Record /\ r.id = r.off
  BY <1>2, KnownType DEF NoRepeats
<1>5. ASSUME NEW R, R \subseteq Known, NEW r \in acked, r.off \in Offs(R) PROVE r \in R
  <2>1. PICK q \in R : q.off = r.off
    BY <1>5 DEF Offs
  <2>2. q = r
    BY <1>2, <1>5, <2>1, SameOffSameRecord
  <2> QED BY <2>1, <2>2
<1>6. AckedDurable /\ AckedServed
  BY <1>2, <1>5 DEF AckedDurable, AckedServed
<1> QED BY <1>1, <1>3, <1>4, <1>6 DEF LogIsFull

LossNeedsSetAside == aside = {} => AckedDurable /\ AckedServed

\* Torn frames alone cost an acknowledged record only after a recovery has set
\* a file with records aside: nothing else explains a loss.
THEOREM TornFramesAlone ==
    ASSUME ~WriteErrors
    PROVE  Spec => []LossNeedsSetAside
<1>1. PlainUntilAside => LossNeedsSetAside
  BY LogFull DEF PlainUntilAside, LogIsFull, LossNeedsSetAside
<1> QED BY <1>1, PlainInvariance, PTL

PlainLog == IndInv /\ NoRepeats

LEMMA PlainLogInvariance ==
    ASSUME ~TornWrites, ~WriteErrors
    PROVE  Spec => []PlainLog
<1>1. NoneTorn /\ PlainUntilAside => PlainLog
  BY DEF NoneTorn, PlainUntilAside, PlainLog
<1> QED BY <1>1, PlainInvariance, NothingSetAside, PTL

\* An acknowledged record survives a crash at any point of a seal, of the
\* collection of log files, and of a recovery, however often it crashes.
THEOREM AckedRecordsSurvive ==
    ASSUME ~TornWrites, ~WriteErrors
    PROVE  Spec => []AckedDurable
<1>1. PlainLog => AckedDurable
  BY LogFull DEF PlainLog, LogIsFull
<1> QED BY <1>1, PlainLogInvariance, PTL

\* A node that accepts requests serves every acknowledged record.
THEOREM AckedRecordsServed ==
    ASSUME ~TornWrites, ~WriteErrors
    PROVE  Spec => []AckedServed
<1>1. PlainLog => AckedServed
  BY LogFull DEF PlainLog, LogIsFull
<1> QED BY <1>1, PlainLogInvariance, PTL

\* Between requests, memory and disk agree on what a restart would compute.
THEOREM RestartChangesNothing ==
    ASSUME ~TornWrites, ~WriteErrors
    PROVE  Spec => []RestartIsTransparent
<1>1. PlainLog => RestartIsTransparent
  <2> SUFFICES ASSUME IndInv, NoRepeats, pc = "idle"
               PROVE  open = Live /\ IsEnd(next, Live, man.sealed)
    BY DEF PlainLog, RestartIsTransparent
  <2>1. PICK S : S = man.sealed
    OBVIOUS
  <2>2. /\ S \in Int /\ next \in Nat /\ S < next
        /\ Offs(open) = S + 1 .. next - 1 /\ Offs(Live) = S + 1 .. next - 1
    BY <2>1, UnsealedIsRest, LiveIsUnsealed
    DEF IndInv, TypeOK, Manifest, OpenInv, Pending
  <2>3. open \subseteq Known /\ Live \subseteq Known
    BY DEF Known, Live
  <2>4. open = Live
    <3>1. ASSUME NEW A, A \subseteq Known, NEW B, B \subseteq Known, Offs(A) = Offs(B)
          PROVE  A \subseteq B
      <4> SUFFICES ASSUME NEW r \in A PROVE r \in B
        OBVIOUS
      <4>1. PICK q \in B : q.off = r.off
        BY <3>1 DEF Offs
      <4>2. q = r
        BY <3>1, <4>1, SameOffSameRecord
      <4> QED BY <4>1, <4>2
    <3>2. open \subseteq Live
      BY <2>2, <2>3, <3>1
    <3>3. Live \subseteq open
      BY <2>2, <2>3, <3>1
    <3> QED BY <3>2, <3>3
  <2>5. CASE S + 1 = next
    <3>1. Offs(Live) = {}
      BY <2>2, <2>5
    <3>2. Live = {}
      BY <3>1 DEF Offs
    <3> QED BY <2>1, <2>4, <2>5, <3>2 DEF IsEnd
  <2>6. CASE S + 1 # next
    <3>1. next - 1 \in Offs(Live) /\ next = (next - 1) + 1
      BY <2>2, <2>6
    <3>2. PICK r \in Live : r.off = next - 1
      BY <3>1 DEF Offs
    <3>3. \A q \in Live : q.off <= r.off
      <4> TAKE q \in Live
      <4>1. q.off \in S + 1 .. next - 1
        BY <2>2 DEF Offs
      <4> QED BY <2>2, <3>2, <4>1
    <3> QED BY <2>4, <3>1, <3>2, <3>3 DEF IsEnd
  <2> QED BY <2>5, <2>6
<1> QED BY <1>1, PlainLogInvariance, PTL

\* The archive implements AckedLog: whatever steps it takes, what a restart
\* would find is a dense log that grows at its end and holds what was
\* acknowledged.
THEOREM Refinement ==
    ASSUME ~TornWrites, ~WriteErrors
    PROVE  Spec => ImplementsAckedLog
<1>1. Init => Abs!LogInit
  <2> SUFFICES ASSUME Init PROVE Abs!LogInit
    OBVIOUS
  <2>1. LogIsFull /\ born = 0
    BY InitInv, InitRepeats, LogFull DEF Init
  <2>2. Offs(Stored) = {}
    BY <2>1 DEF LogIsFull
  <2>3. Stored = {}
    BY <2>2 DEF Offs
  <2> QED BY <2>3 DEF Init, Abs!LogInit
<1>2. PlainLog => LogIsFull
  BY LogFull DEF PlainLog
<1>3. PlainLog' => LogIsFull'
  BY <1>2, PTL
<1>4. PlainLog /\ PlainLog' /\ [Next]_vars => [Abs!Append]_(Abs!logVars)
  <2> SUFFICES ASSUME PlainLog, PlainLog', [Next]_vars PROVE Abs!Append
    OBVIOUS
  <2>1. PICK b, c, A, B : b = born /\ c = born' /\ A = Stored /\ B = Stored'
    OBVIOUS
  <2>2. /\ b \in Nat /\ Offs(A) = 0 .. b - 1 /\ \A r \in A : r \in Record /\ r.id = r.off
        /\ c \in Nat /\ Offs(B) = 0 .. c - 1 /\ \A r \in B : r \in Record /\ r.id = r.off
        /\ acked' \subseteq B
    BY <1>2, <1>3, <2>1 DEF LogIsFull, AckedDurable, Offs
  <2>3. b <= c /\ acked \subseteq acked'
    <3>1. CASE Shrunk
      BY <2>1, <2>2, <3>1 DEF Shrunk
    <3>2. ASSUME NEW n \in Nat, Grown(n) PROVE b <= c /\ acked \subseteq acked'
      BY <2>1, <2>2, <3>2 DEF Grown
    <3> QED BY <3>1, <3>2, NextKnown DEF PlainLog
  <2>4. \A r \in A : r.off \in 0 .. b - 1
    BY <2>2 DEF Offs
  <2>5. \A r \in B : r.off \in 0 .. c - 1
    BY <2>2 DEF Offs
  <2>6. \A o \in 0 .. c - 1 : \E q \in B : q.off = o
    BY <2>2 DEF Offs
  <2>7. \A r \in Record, q \in Record : r.off = q.off /\ r.id = r.off /\ q.id = q.off => r = q
    BY DEF Record
  <2>8. A \subseteq B
    <3> SUFFICES ASSUME NEW r \in A PROVE r \in B
      OBVIOUS
    <3>1. PICK q \in B : q.off = r.off
      BY <2>2, <2>3, <2>4, <2>6
    <3> QED BY <2>2, <2>7, <3>1
  <2>9. \A r \in B \ A, q \in A : q.off < r.off
    <3> TAKE r \in B \ A, q \in A
    <3>1. r.off \notin 0 .. b - 1
      <4> SUFFICES ASSUME r.off \in 0 .. b - 1 PROVE FALSE
        OBVIOUS
      <4>1. PICK p \in A : p.off = r.off
        BY <2>2 DEF Offs
      <4> QED BY <2>2, <2>7, <4>1
    <3> QED BY <2>2, <2>3, <2>4, <2>5, <3>1
  <2>10. Abs!DenseLog(B)
    <3>1. \A r \in B : \A o \in 0 .. r.off : \E q \in B : q.off = o
      BY <2>2, <2>5, <2>6
    <3>2. \A r, q \in B : r.off = q.off => r = q
      BY <2>2, <2>7
    <3> QED BY <3>1, <3>2 DEF Abs!DenseLog
  <2> QED BY <2>1, <2>2, <2>3, <2>8, <2>9, <2>10 DEF Abs!Append
<1> QED BY <1>1, <1>4, PlainLogInvariance, PTL DEF Spec, ImplementsAckedLog, Abs!LogSpec

=============================================================================
