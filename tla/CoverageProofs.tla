--------------------------- MODULE CoverageProofs ---------------------------
(***************************************************************************)
(* A segment that the retained log can rebuild stays rebuildable: the      *)
(* action property CoverageKept of ArchiveLog, for every value of its      *)
(* constants.  The argument is about the WAL files that compaction and     *)
(* collection delete, and about the offsets in them; its invariant is      *)
(* CoverageInv of ArchiveLogInv.                                           *)
(***************************************************************************)
EXTENDS ArchiveLogProofs

(***************************************************************************)
(* Facts about the files, retention and what a repair gathers.             *)
(***************************************************************************)

FileFacts ==
    /\ man.sealed \in Int /\ -1 <= man.sealed /\ next \in Nat /\ active \in Nat
    /\ \A b \in Files : b \in Nat /\ b <= man.sealed + 1 /\ On(b) \subseteq Nat

LEMMA FilesAreNamed == IndInv => FileFacts
<1> SUFFICES ASSUME IndInv PROVE FileFacts
  OBVIOUS
<1>1. TypeOK /\ FilesInv
  BY DEF IndInv
<1>2. next \in Nat /\ active \in Nat
  BY <1>1 DEF TypeOK
<1> QED BY <1>1, <1>2, UnsealedFacts DEF FileFacts, FilesInv, NamesBounded

\* The files hold what was handed out, and at most one offset more.
LEMMA FilesEnd ==
    ASSUME IndInv, pc # "down", NEW b \in Files, NEW o \in On(b)
    PROVE  /\ man.sealed < next /\ o \in Nat /\ o <= next
           /\ pc \in {"compact", "cleanup"} => o < next
<1>1. FileFacts /\ TypeOK /\ HandedInv
  BY FilesAreNamed DEF IndInv
<1>2. man.sealed < next /\ man.sealed \in Int /\ next \in Nat /\ o \in Nat
  BY <1>1 DEF FileFacts, HandedInv
<1>3. CASE man.sealed < o
  <2>1. o \in Unsealed
    BY <1>1, <1>3, UnsealedFacts
  <2> QED BY <1>1, <1>2, <2>1 DEF HandedInv
<1>4. CASE o <= man.sealed
  BY <1>2, <1>4
<1> QED BY <1>2, <1>3, <1>4

\* The offsets above a retained one are retained.
LEMMA RetainedAbove ==
    ASSUME NEW segs \in SUBSET Segment, NEW o \in Int, NEW p \in Int, o <= p,
           Retained(o, segs)
    PROVE  Retained(p, segs)
BY DEF Retained, SealedIn, Segment

\* The log holds every offset of s, in files named within its range.
Held(s) == \A o \in s.first .. s.last : \E b \in Files : b <= s.last /\ o \in On(b)

RebuildableIfHeld == \A s \in Segment : Rebuildable(s) <=> Held(s)

LEMMA RebuildableIsHeld == IndInv => RebuildableIfHeld
<1> SUFFICES ASSUME IndInv, NEW s \in Segment PROVE Rebuildable(s) <=> Held(s)
  BY DEF RebuildableIfHeld
<1>1. FileFacts /\ \A b \in Files : wal[b] \subseteq Record
  BY FilesAreNamed DEF IndInv, TypeOK
<1>2. s.first \in Nat /\ s.last \in Nat
  BY DEF Segment
<1>3. ASSUME Rebuildable(s), NEW o \in s.first .. s.last
      PROVE  \E b \in Files : b <= s.last /\ o \in On(b)
  <2>1. PICK r \in Gathered(s) : r.off = o
    BY <1>3 DEF Rebuildable, Offs
  <2>2. PICK b \in Files : b <= s.last /\ r \in wal[b]
    BY DEF Gathered
  <2> QED BY <2>1, <2>2 DEF On, Offs
<1>4. ASSUME Held(s), NEW o \in s.first .. s.last
      PROVE  \E r \in Gathered(s) : r.off = o
  <2>1. PICK c \in Files : c <= s.last /\ o \in On(c)
    BY <1>4 DEF Held
  <2> DEFINE T == {b \in Files : o \in On(b)}
  <2>2. PICK b \in T : \A d \in T : b <= d
    <3>1. T \in SUBSET Nat /\ T # {}
      BY <1>1, <2>1 DEF FileFacts
    <3> HIDE DEF T
    <3> QED BY <3>1, LeastNat
  <2>3. b \in Files /\ o \in On(b) /\ b <= s.last /\ b \in Nat
    BY <1>1, <1>2, <2>1, <2>2 DEF FileFacts
  <2> DEFINE ids == {r.id : r \in {q \in wal[b] : q.off = o}}
  <2>4. PICK i \in ids : \A j \in ids : i <= j
    <3>1. ids \in SUBSET Nat
      BY <1>1, <2>3 DEF Record
    <3>2. ids # {}
      BY <2>3 DEF On, Offs
    <3> HIDE DEF ids
    <3> QED BY <3>1, <3>2, LeastNat
  <2>5. PICK r \in wal[b] : r.off = o /\ r.id = i
    OBVIOUS
  <2>6. \A q \in wal[b] : q.off = r.off => r.id <= q.id
    BY <2>4, <2>5
  <2>7. \A d \in Files : d < b => r.off \notin Offs(wal[d])
    <3> SUFFICES ASSUME NEW d \in Files, d < b, o \in On(d) PROVE FALSE
      BY <2>5 DEF On
    <3>1. d \in T
      OBVIOUS
    <3> QED BY <1>1, <2>2, <2>3, <3>1 DEF FileFacts
  <2>8. r \in Frames
    BY <2>3, <2>5 DEF Frames
  <2> QED BY <2>3, <2>5, <2>6, <2>7, <2>8 DEF Gathered
<1>5. Held(s) => Rebuildable(s)
  BY <1>4 DEF Rebuildable, Offs
<1> QED BY <1>3, <1>5 DEF Held
-----------------------------------------------------------------------------
(***************************************************************************)
(* The invariant.  First what the kinds of change to the WAL files         *)
(* preserve of the parts that outlive a crash.                             *)
(***************************************************************************)

DiskInv == Intervals /\ NamesLow

LEMMA DiskUnchanged ==
    ASSUME DiskInv, UNCHANGED wal
    PROVE  DiskInv'
BY DEF DiskInv, Intervals, NamesLow, Files, On

LEMMA DiskDeleted ==
    ASSUME DiskInv, NEW D, wal' = Without(wal, D)
    PROVE  DiskInv'
<1>1. Files' = Files \ D /\ \A b \in Files' : On(b)' = On(b)
  BY DEF Files, Without, On
<1> QED BY <1>1 DEF DiskInv, Intervals, NamesLow

LEMMA DiskOpened ==
    ASSUME DiskInv, NEW k, k \notin Files, wal' = With(wal, k, {})
    PROVE  DiskInv'
<1>1. /\ Files' = Files \cup {k} /\ On(k)' = {}
      /\ \A b \in Files : On(b)' = On(b)
  BY DEF Files, With, On, Offs
<1> QED BY <1>1 DEF DiskInv, Intervals, NamesLow

LEMMA DiskAppended ==
    ASSUME IndInv, DiskInv, WriterEnds, pc = "idle", NEW n \in Nat, man' = man,
           wal' = [wal EXCEPT ![active] = @ \cup Batch(n)]
    PROVE  /\ DiskInv'
           /\ \A w : w = active => On(w)' = On(w) \cup (next .. next + n - 1)
<1> DEFINE new == next .. next + n - 1
<1>1. /\ FileFacts /\ man.sealed < next /\ active \in Files
      /\ active <= next
      /\ \A b \in Files : \A o \in On(b) : o \in Nat /\ o <= next
  <2>1. FileFacts /\ active \in Files /\ man.sealed < next
    BY FilesAreNamed DEF IndInv, WriterInv, Running, HandedInv
  <2>2. \A b \in Files : \A o \in On(b) : o \in Nat /\ o <= next
    BY FilesEnd
  <2> QED BY <2>1, <2>2 DEF FileFacts
<1>2. On(active) = {} \/ next - 1 \in On(active) \/ next \in On(active)
  BY DEF WriterEnds, Running
<1>3. /\ Files' = Files
      /\ \A b \in Files : On(b)' = IF b = active THEN On(b) \cup new ELSE On(b)
  BY FilesAppended DEF IndInv
<1>4. next \in Nat /\ active \in Nat
  BY <1>1 DEF FileFacts
<1>5. NamesLow'
  <2> SUFFICES ASSUME NEW b \in Files, NEW o \in On(b)' PROVE b <= o
    BY <1>3 DEF NamesLow
  <2>1. CASE o \in On(b)
    BY <2>1 DEF DiskInv, NamesLow
  <2>2. CASE o \notin On(b)
    <3>1. b = active /\ o \in new
      BY <1>3, <2>2
    <3> QED BY <1>1, <1>4, <3>1
  <2> QED BY <2>1, <2>2
<1>6. ASSUME NEW o \in On(active) \cup new, NEW p \in On(active) \cup new, NEW q \in o .. p
      PROVE  q \in On(active) \cup new
  <2>1. /\ o \in Nat /\ p \in Nat /\ q \in Int /\ o <= q /\ q <= p
        /\ p <= next \/ p <= next + n - 1
    BY <1>1, <1>4
  <2>2. \A x, y \in On(active) : x .. y \subseteq On(active)
    BY <1>1 DEF DiskInv, Intervals
  <2>3. CASE q < next
    <3>1. o \in On(active)
      BY <1>4, <2>1, <2>3
    <3>2. PICK e \in On(active) : e = next - 1 \/ e = next
      BY <1>2, <3>1
    <3>3. q \in o .. e
      BY <1>4, <2>1, <2>3, <3>2
    <3> QED BY <2>2, <3>1, <3>2, <3>3
  <2>4. CASE next <= q /\ q <= next + n - 1
    BY <1>4, <2>1, <2>4
  <2>5. CASE next <= q /\ ~(q <= next + n - 1)
    <3>1. p \notin new /\ p <= next
      BY <1>1, <1>4, <2>1, <2>5
    <3>2. p = q
      BY <1>4, <2>1, <2>5, <3>1
    <3> QED BY <3>1, <3>2
  <2> QED BY <1>4, <2>1, <2>3, <2>4, <2>5
<1>7. Intervals'
  <2> SUFFICES ASSUME NEW b \in Files, NEW o \in On(b)', NEW p \in On(b)'
               PROVE  o .. p \subseteq On(b)'
    BY <1>3 DEF Intervals
  <2>1. CASE b # active
    BY <1>3, <2>1 DEF DiskInv, Intervals
  <2>2. CASE b = active
    <3>1. On(b)' = On(active) \cup new
      BY <1>3, <2>2
    <3> QED BY <1>6, <3>1
  <2> QED BY <2>1, <2>2
<1>8. \A w : w = active => On(w)' = On(w) \cup new
  BY <1>1, <1>3
<1> QED BY <1>5, <1>7, <1>8 DEF DiskInv

\* A file that compaction merges holds an unsealed record, hence every
\* offset from its first one to the sealed mark.
LEMMA MergedInterval ==
    ASSUME IndInv, Intervals, pc = "compact",
           NEW p \in Offs(Merged), NEW o \in p .. next - 1
    PROVE  o \in Offs(Merged)
<1>1. /\ FileFacts /\ contrib \subseteq Files
      /\ \A b \in contrib : \E u \in Unsealed : u \in On(b)
      /\ mem.segs \in SUBSET Segment /\ Pending \subseteq Unsealed
  BY FilesAreNamed DEF IndInv, CompactInv, HandedInv, TypeOK, Manifest
<1>2. PICK b \in contrib : p \in On(b) /\ Retained(p, mem.segs)
  BY DEF Merged, Offs, On
<1>3. p \in Nat /\ o \in Int /\ p <= o /\ o < next /\ next \in Nat /\ man.sealed \in Int
  BY <1>1, <1>2 DEF FileFacts
<1>4. CASE man.sealed < o
  <2>1. o \in Pending
    BY <1>3, <1>4 DEF Pending
  <2> QED BY <1>1, <2>1, MergedHoldsUnsealed
<1>5. CASE o <= man.sealed
  <2>1. PICK u \in Unsealed : u \in On(b)
    BY <1>1
  <2>2. u \in Nat /\ man.sealed < u
    BY <1>1, <2>1 DEF FileFacts, Unsealed
  <2>3. o \in On(b)
    BY <1>1, <1>2, <1>3, <1>5, <2>1, <2>2 DEF Intervals
  <2>4. Retained(o, mem.segs)
    BY <1>1, <1>2, <1>3, RetainedAbove
  <2> QED BY <2>3, <2>4, InMerged
<1> QED BY <1>3, <1>4, <1>5

LEMMA MergedEnd ==
    ASSUME IndInv, pc = "compact", NEW o \in Offs(Merged)
    PROVE  o \in Nat /\ o < next
<1>1. PICK b \in Files : o \in On(b)
  BY MergedHoldsUnsealed
<1> QED BY <1>1, FilesEnd

LEMMA CompactWriteCovers ==
    ASSUME IndInv, CoverageInv, CompactWrite
    PROVE  CoverageInv'
<1>1. /\ pc = "compact" /\ pc' = "cleanup" /\ mem' = mem
      /\ contrib \subseteq Files /\ Intervals /\ NamesLow
  BY DEF CompactWrite, Obsolete, IndInv, CompactInv, CoverageInv
<1>2. \A b \in contrib : \A o \in On(b) : Retained(o, mem.segs) => o \in Offs(Merged)
  BY <1>1, InMerged
<1>3. WriterEnds'
  BY <1>1 DEF WriterEnds, Running
<1>4. CASE Merged = {} /\ UNCHANGED <<wal, contrib>>
  <2>1. DiskInv'
    BY <1>1, <1>4, DiskUnchanged DEF DiskInv
  <2>2. Offs(Merged) = {}
    BY <1>4 DEF Offs
  <2>3. MergedAll'
    BY <1>1, <1>2, <1>4, <2>2 DEF MergedAll, Files, On
  <2> QED BY <1>3, <2>1, <2>3 DEF CoverageInv, DiskInv
<1>5. ASSUME NEW base \in Offs(Merged), \A r \in Merged : base <= r.off,
             wal' = With(wal, base, Merged), contrib' = contrib \ {base}, active' = base
      PROVE  CoverageInv'
  <2>1. /\ Files' = Files \cup {base} /\ On(base)' = Offs(Merged)
        /\ \A b \in Files : b # base => On(b)' = On(b)
    BY <1>5 DEF Files, With, On
  <2>2. \A o \in Offs(Merged) : base <= o
    BY <1>5 DEF Offs
  <2>3. NamesLow'
    BY <1>1, <2>1, <2>2 DEF NamesLow
  <2>4. Intervals'
    <3> SUFFICES ASSUME NEW b \in Files', NEW o \in On(b)', NEW p \in On(b)',
                        NEW q \in o .. p
                 PROVE  q \in On(b)'
      BY DEF Intervals
    <3>1. CASE b # base
      BY <1>1, <2>1, <3>1 DEF Intervals
    <3>2. CASE b = base
      <4>1. o \in Offs(Merged) /\ p \in Offs(Merged)
        BY <2>1, <3>2
      <4>2. next \in Nat /\ p \in Nat /\ p < next /\ o \in Nat
        BY <1>1, <4>1, MergedEnd DEF IndInv, TypeOK
      <4>3. q \in o .. next - 1
        BY <4>2
      <4>4. q \in Offs(Merged)
        BY <1>1, <4>1, <4>3, MergedInterval
      <4> QED BY <2>1, <3>2, <4>4
    <3> QED BY <3>1, <3>2
  <2>5. base \in Files' /\ \A w : w = active' => On(w)' = Offs(Merged)
    BY <1>5, <2>1
  <2>6. MergedAll'
    <3> SUFFICES ASSUME NEW b \in contrib' \cap Files', NEW o \in On(b)',
                        Retained(o, mem.segs)
                 PROVE  o \in Offs(Merged)
      BY <1>1, <1>5, <2>1 DEF MergedAll, On
    <3>1. b \in contrib /\ b \in Files /\ b # base
      BY <1>1, <1>5, <2>1
    <3> QED BY <1>2, <2>1, <3>1
  <2> QED BY <1>3, <2>3, <2>4, <2>6 DEF CoverageInv
<1> QED BY <1>4, <1>5 DEF CompactWrite, Obsolete

LEMMA CleanupFileCovers ==
    ASSUME IndInv, CoverageInv, NEW c \in contrib, CleanupFile(c)
    PROVE  CoverageInv'
<1>1. /\ pc = "cleanup" /\ pc' = pc /\ mem' = mem /\ active' = active
      /\ contrib' = contrib \ {c} /\ wal' = Without(wal, {c}) /\ active # c
  BY DEF CleanupFile, IndInv, CompactInv
<1>2. Files' = Files \ {c} /\ \A b \in Files' : wal'[b] = wal[b]
  BY <1>1 DEF Files, Without
<1>3. DiskInv'
  BY <1>1, DiskDeleted DEF CoverageInv, DiskInv
<1>4. WriterEnds'
  BY <1>1 DEF WriterEnds, Running
<1>5. MergedAll'
  BY <1>1, <1>2 DEF CoverageInv, MergedAll, On
<1> QED BY <1>3, <1>4, <1>5 DEF CoverageInv, DiskInv

LEMMA OpenWriterCovers ==
    ASSUME IndInv, CoverageInv, OpenWriter
    PROVE  CoverageInv'
<1>1. /\ pc = "cleanup" /\ pc' = "collect" /\ UNCHANGED <<active, next>>
      /\ FileFacts /\ CompactInv /\ NamesLow
      /\ man.sealed < next /\ Pending \subseteq Unsealed /\ \A o \in Unsealed : o < next
      /\ wal' = IF active \in Files THEN wal ELSE With(wal, active, {})
  BY FilesAreNamed DEF OpenWriter, IndInv, HandedInv, CoverageInv, memory
<1>2. DiskInv'
  BY <1>1, DiskUnchanged, DiskOpened DEF CoverageInv, DiskInv
<1>3. MergedAll'
  BY <1>1 DEF MergedAll
<1>4. CASE active \notin Files
  <2>1. wal'[active'] = {}
    BY <1>1, <1>4 DEF With
  <2>2. On(active)' = {}
    BY <2>1 DEF On, Offs
  <2> QED BY <1>2, <1>3, <2>2 DEF WriterEnds, CoverageInv, DiskInv
<1>5. CASE active \in Files
  <2>1. On(active) = {} \/ next - 1 \in On(active)
    <3>1. CASE Pending = {}
      <4>1. next = man.sealed + 1 /\ active = man.sealed + 1
        BY <1>1, <3>1 DEF CompactInv, Pending, FileFacts
      <4>2. \A o \in On(active) : o \in Unsealed
        BY <1>1, <1>5, <4>1, UnsealedFacts DEF NamesLow, FileFacts, IndInv
      <4>3. \A o \in On(active) : o < next /\ active <= o /\ o \in Nat
        BY <1>1, <1>5, <4>2 DEF NamesLow, FileFacts
      <4> QED BY <4>1, <4>3
    <3>2. CASE Pending # {}
      <4>1. next - 1 \in Unsealed
        BY <1>1, <3>2 DEF Pending, FileFacts
      <4> QED BY <1>1, <4>1 DEF CompactInv
    <3> QED BY <3>1, <3>2
  <2>2. WriterEnds'
    BY <1>1, <1>5, <2>1 DEF WriterEnds, On
  <2> QED BY <1>2, <1>3, <2>2 DEF CoverageInv, DiskInv
<1> QED BY <1>4, <1>5

LEMMA RotateCovers ==
    ASSUME IndInv, CoverageInv, Rotate
    PROVE  CoverageInv'
<1>1. /\ pc = "rotate" /\ pc' = "collect" /\ mem = man /\ man.sealed \in Int
      /\ \A b \in Files : b \in Nat /\ b <= man.sealed
  BY DEF Rotate, Rest, NextFile, IndInv, MemInv, OpenInv, TypeOK, Manifest, Files
<1>2. man.sealed + 1 \notin Files
  BY <1>1
<1>3. active' = man.sealed + 1 /\ wal' = With(wal, man.sealed + 1, {})
  BY <1>1, <1>2 DEF Rotate, Rest, NextFile
<1>4. DiskInv'
  BY <1>2, <1>3, DiskOpened DEF CoverageInv, DiskInv
<1>5. WriterEnds'
  BY <1>3 DEF WriterEnds, With, On, Offs
<1>6. MergedAll'
  BY <1>1 DEF MergedAll
<1> QED BY <1>4, <1>5, <1>6 DEF CoverageInv, DiskInv

LEMMA CollectFileCovers ==
    ASSUME IndInv, IndInv', CoverageInv, NEW c \in Files, CollectFile(c)
    PROVE  CoverageInv'
<1>1. /\ pc = "collect" /\ pc' = pc /\ UNCHANGED <<active, next>>
      /\ wal' = Without(wal, {c})
  BY DEF CollectFile, memory
<1>2. active \in Files' /\ wal'[active] = wal[active]
  <2>1. active \in Files'
    BY <1>1 DEF IndInv, WriterInv, Running
  <2> QED BY <1>1, <2>1 DEF Files, Without
<1>3. DiskInv'
  BY <1>1, DiskDeleted DEF CoverageInv, DiskInv
<1>4. WriterEnds'
  BY <1>1, <1>2 DEF CoverageInv, WriterEnds, Running, On
<1>5. MergedAll'
  BY <1>1 DEF MergedAll
<1> QED BY <1>3, <1>4, <1>5 DEF CoverageInv, DiskInv

\* A batch ends with the record before `next', a failed write leaves its frame
\* at `next' itself.
LEMMA IngestCovers ==
    ASSUME IndInv, CoverageInv, NEW n \in 1 .. MaxBatch, Ingest(n)
    PROVE  CoverageInv'
<1>1. /\ pc = "idle" /\ pc' \in {"idle", "write"} /\ active' = active /\ man' = man
      /\ next' = next + n /\ next \in Nat /\ n \in Nat /\ n >= 1
      /\ wal' = [wal EXCEPT ![active] = @ \cup Batch(n)]
  BY ConstantsAssumption DEF Ingest, IndInv, TypeOK
<1>2. DiskInv' /\ On(active)' = On(active) \cup (next .. next + n - 1)
  BY <1>1, DiskAppended DEF CoverageInv, DiskInv
<1>3. next' - 1 \in On(active)'
  BY <1>1, <1>2
<1>4. WriterEnds' /\ MergedAll'
  BY <1>1, <1>3 DEF WriterEnds, MergedAll
<1> QED BY <1>2, <1>4 DEF CoverageInv, DiskInv

LEMMA IngestFailsCovers ==
    ASSUME IndInv, CoverageInv, IngestFails
    PROVE  CoverageInv'
<1>1. /\ pc = "idle" /\ pc' = "idle" /\ active' = active /\ man' = man
      /\ next' = next /\ next \in Nat
      /\ wal' = [wal EXCEPT ![active] = @ \cup Batch(1)]
  BY DEF IngestFails, IndInv, TypeOK, memory
<1>2. DiskInv' /\ On(active)' = On(active) \cup (next .. next + 1 - 1)
  BY <1>1, DiskAppended DEF CoverageInv, DiskInv
<1>3. next' \in On(active)'
  BY <1>1, <1>2
<1>4. WriterEnds' /\ MergedAll'
  BY <1>1, <1>3 DEF WriterEnds, MergedAll
<1> QED BY <1>2, <1>4 DEF CoverageInv, DiskInv

\* A crash and a recovery scan leave the parts that are about the disk.
LEMMA DownCovers ==
    ASSUME DiskInv', pc' \in {"down", "compact"}
    PROVE  CoverageInv'
BY DEF CoverageInv, DiskInv, WriterEnds, Running, MergedAll

LEMMA QuietCovers ==
    ASSUME CoverageInv, UNCHANGED <<wal, active, next>>,
           \/ pc \in {"idle", "write", "publish", "collect"} /\ pc' # "cleanup"
           \/ UNCHANGED <<pc, contrib, mem>>
    PROVE  CoverageInv'
<1>1. DiskInv'
  BY DiskUnchanged DEF CoverageInv, DiskInv
<1>2. WriterEnds'
  BY DEF CoverageInv, WriterEnds, Running, On
<1>3. MergedAll'
  BY DEF CoverageInv, MergedAll, Files, On
<1> QED BY <1>1, <1>2, <1>3 DEF CoverageInv, DiskInv

LEMMA NextCovers == IndInv /\ IndInv' /\ CoverageInv /\ [Next]_vars => CoverageInv'
<1> SUFFICES ASSUME IndInv, IndInv', CoverageInv, [Next]_vars PROVE CoverageInv'
  OBVIOUS
<1>1. CASE Requests
  <2>1. ASSUME NEW n \in 1 .. MaxBatch, Ingest(n) PROVE CoverageInv'
    BY <2>1, IngestCovers
  <2>2. CASE IngestFails
    BY <2>2, IngestFailsCovers
  <2>3. ASSUME NEW s, SealAll \/ Quarantine(s) \/ Repair(s) PROVE CoverageInv'
    <3>1. UNCHANGED <<wal, active, next>> /\ pc = "idle" /\ pc' # "cleanup"
      BY <2>3 DEF SealAll, Quarantine, Repair, disk, memory
    <3> QED BY <3>1, QuietCovers
  <2> QED BY <1>1, <2>1, <2>2, <2>3 DEF Requests
<1>2. CASE WriteSegment \/ Publish \/ CollectDone
  <2>1. /\ UNCHANGED <<wal, active, next>> /\ pc' # "cleanup"
        /\ pc \in {"write", "publish", "collect"}
    BY <1>2 DEF WriteSegment, Publish, CollectDone, disk, memory
  <2> QED BY <2>1, QuietCovers
<1>3. CASE Rotate
  BY <1>3, RotateCovers
<1>4. ASSUME NEW b \in Files, CollectFile(b) PROVE CoverageInv'
  BY <1>4, CollectFileCovers
<1>5. CASE RecoverScan
  <2>1. wal' = Without(wal, Corrupt) /\ pc' = "compact"
    BY <1>5 DEF RecoverScan
  <2> QED BY <2>1, DiskDeleted, DownCovers DEF CoverageInv, DiskInv
<1>6. CASE CompactWrite
  BY <1>6, CompactWriteCovers
<1>7. ASSUME NEW b \in contrib, CleanupFile(b) PROVE CoverageInv'
  BY <1>7, CleanupFileCovers
<1>8. CASE OpenWriter
  BY <1>8, OpenWriterCovers
<1>9. CASE Crash
  <2>1. UNCHANGED wal /\ pc' = "down"
    BY <1>9 DEF Crash, Die, disk
  <2> QED BY <2>1, DiskUnchanged, DownCovers DEF CoverageInv, DiskInv
<1>10. ASSUME NEW n \in 1 .. MaxBatch, NEW k \in 0 .. n, CrashInIngest(n, k)
       PROVE  CoverageInv'
  <2>1. /\ pc = "idle" /\ pc' = "down" /\ k \in Nat /\ man' = man
        /\ wal' = [wal EXCEPT ![active] = @ \cup Batch(k)]
    BY <1>10, ConstantsAssumption DEF CrashInIngest, Die
  <2> QED BY <2>1, DiskAppended, DownCovers DEF CoverageInv, DiskInv
<1>11. CASE UNCHANGED vars
  BY <1>11, QuietCovers DEF vars, disk, memory
<1> QED
  BY <1>1, <1>2, <1>3, <1>4, <1>5, <1>6, <1>7, <1>8, <1>9, <1>10, <1>11
  DEF Next, SealSteps, CollectSteps, RecoverySteps, Crashes

\* Up to the first recovery that sets aside a file with records, both
\* invariants hold of every reachable state, whatever frames are torn, writes
\* fail and segments are damaged.
THEOREM CoverageInvariance == Spec => []UntilAside
<1>1. Init => UntilAside
  <2>1. Init => CoverageInv
    BY DEF Init, CoverageInv, Intervals, NamesLow, WriterEnds, MergedAll, Files, On, Offs
  <2> QED BY <2>1, InitInv DEF UntilAside
<1>2. UntilAside /\ [Next]_vars => UntilAside'
  <2> SUFFICES ASSUME UntilAside, [Next]_vars, aside' = {}
               PROVE  IndInv' /\ CoverageInv'
    BY DEF UntilAside
  <2>1. IndInv /\ CoverageInv
    BY NextAside DEF UntilAside
  <2>2. IndInv'
    BY <2>1, NextKeeps
  <2> QED BY <2>1, <2>2, NextCovers
<1> QED BY <1>1, <1>2, PTL DEF Spec
-----------------------------------------------------------------------------
(***************************************************************************)
(* The action property, one lemma per way in which a step may take frames  *)
(* away.                                                                   *)
(***************************************************************************)

\* A step that deletes no frame keeps every segment covered.
LEMMA GrowingHolds ==
    ASSUME NEW s, Held(s), \A b \in Files : b \in Files' /\ On(b) \subseteq On(b)'
    PROVE  Held(s)'
BY DEF Held

LEMMA CollectFileHolds ==
    ASSUME IndInv, NEW c \in Files, CollectFile(c),
           NEW s \in Segment, Held(s), Retained(s.first, mem'.segs)
    PROVE  Held(s)'
<1>1. /\ mem' = mem /\ mem.segs \in SUBSET Segment /\ s.first \in Int /\ s.last \in Int
      /\ \A o \in On(c) : ~Retained(o, mem.segs)
  BY DEF CollectFile, Collectable, IndInv, TypeOK, Manifest, Segment, memory, On, Offs
<1>2. Files' = Files \ {c} /\ \A b \in Files' : On(b)' = On(b)
  BY DEF CollectFile, Files, Without, On
<1> SUFFICES ASSUME NEW o \in s.first .. s.last
             PROVE  \E b \in Files' : b <= s.last /\ o \in On(b)'
  BY DEF Held
<1>3. PICK b \in Files : b <= s.last /\ o \in On(b)
  BY DEF Held
<1>4. Retained(o, mem.segs)
  BY <1>1, RetainedAbove
<1>5. b # c
  BY <1>1, <1>3, <1>4
<1> QED BY <1>2, <1>3, <1>5

LEMMA CleanupFileHolds ==
    ASSUME IndInv, CoverageInv, NEW c \in contrib, CleanupFile(c),
           NEW s \in Segment, Held(s), Retained(s.first, mem'.segs)
    PROVE  Held(s)'
<1>1. /\ pc = "cleanup" /\ mem' = mem /\ mem.segs \in SUBSET Segment
      /\ s.first \in Int /\ s.last \in Int /\ active \in Nat /\ active # c
  BY DEF CleanupFile, IndInv, CompactInv, TypeOK, Manifest, Segment
<1>2. Files' = Files \ {c} /\ \A b \in Files' : On(b)' = On(b)
  BY DEF CleanupFile, Files, Without, On
<1> SUFFICES ASSUME NEW o \in s.first .. s.last
             PROVE  \E b \in Files' : b <= s.last /\ o \in On(b)'
  BY DEF Held
<1>3. PICK b \in Files : b <= s.last /\ o \in On(b)
  BY DEF Held
<1>4. Retained(o, mem.segs)
  BY <1>1, RetainedAbove
<1>5. CASE b # c
  BY <1>2, <1>3, <1>5
<1>6. CASE b = c
  <2>1. PICK w \in Files : w = active /\ o \in On(w)
    BY <1>1, <1>3, <1>4, <1>6 DEF CoverageInv, MergedAll
  <2>2. w <= o
    BY <2>1 DEF CoverageInv, NamesLow
  <2>3. w \in Files' /\ w <= s.last /\ o \in On(w)'
    BY <1>1, <1>2, <2>1, <2>2
  <2> QED BY <2>3
<1> QED BY <1>5, <1>6

\* The merged file replaces a file of its name, and holds everything from the
\* offset that names it.
LEMMA CompactWriteHolds ==
    ASSUME IndInv, CoverageInv, CompactWrite,
           NEW s \in Segment, Held(s), Retained(s.first, mem'.segs)
    PROVE  Held(s)'
<1>1. /\ pc = "compact" /\ s.first \in Int /\ s.last \in Int /\ next \in Nat
      /\ Intervals /\ NamesLow
  BY DEF CompactWrite, IndInv, CoverageInv, TypeOK, Segment
<1>2. CASE UNCHANGED wal
  BY <1>2, GrowingHolds DEF Files, On
<1>3. ASSUME NEW base \in Offs(Merged), wal' = With(wal, base, Merged)
      PROVE  Held(s)'
  <2>1. /\ Files' = Files \cup {base} /\ On(base)' = Offs(Merged)
        /\ \A b \in Files : b # base => On(b)' = On(b)
    BY <1>3 DEF Files, With, On
  <2> SUFFICES ASSUME NEW o \in s.first .. s.last
               PROVE  \E b \in Files' : b <= s.last /\ o \in On(b)'
    BY DEF Held
  <2>2. PICK b \in Files : b <= s.last /\ o \in On(b)
    BY DEF Held
  <2>3. CASE b # base
    BY <2>1, <2>2, <2>3
  <2>4. CASE b = base
    <3>1. base <= o /\ o \in Nat /\ o < next
      BY <1>1, <2>2, <2>4, FilesEnd DEF NamesLow
    <3>2. o \in base .. next - 1
      BY <1>1, <3>1, MergedEnd
    <3>3. o \in Offs(Merged)
      BY <1>1, <3>2, MergedInterval
    <3> QED BY <2>1, <2>2, <2>4, <3>3
  <2> QED BY <2>3, <2>4
<1> QED BY <1>2, <1>3 DEF CompactWrite, Obsolete

\* Nor does a recovery that renames no file but empty ones.
LEMMA RecoverScanHolds ==
    ASSUME IndInv, RecoverScan, aside' = {}, NEW s, Held(s)
    PROVE  Held(s)'
<1>1. /\ \A b \in Corrupt : On(b) = {}
      /\ Files' = Files \ Corrupt /\ \A b \in Files' : On(b)' = On(b)
  BY EmptySetAside DEF IndInv, On, Offs
<1> QED BY <1>1 DEF Held

LEMMA NextHolds ==
    ASSUME aside' = {}, IndInv, CoverageInv, [Next]_vars,
           NEW s \in Segment, Held(s), Retained(s.first, mem'.segs)
    PROVE  Held(s)'
<1> DEFINE Grows == \A b \in Files : b \in Files' /\ On(b) \subseteq On(b)'
<1>1. ASSUME Grows PROVE Held(s)'
  BY <1>1, GrowingHolds
<1>2. ASSUME UNCHANGED wal PROVE Grows
  BY <1>2 DEF Files, On
<1>3. ASSUME NEW k, wal' = IF k \in Files THEN wal ELSE With(wal, k, {}) PROVE Grows
  BY <1>3 DEF Files, With, On
<1>4. ASSUME NEW n, wal' = [wal EXCEPT ![active] = @ \cup Batch(n)] PROVE Grows
  <2>1. \A b \in Files : b \in Files' /\ wal[b] \subseteq wal'[b]
    BY <1>4 DEF Files
  <2> QED BY <2>1 DEF On, Offs
<1> HIDE DEF Grows
<1>5. CASE Requests
  <2>1. ASSUME NEW n, Ingest(n) \/ IngestFails PROVE Grows
    BY <1>4, <2>1 DEF Ingest, IngestFails
  <2>2. ASSUME NEW t, SealAll \/ Quarantine(t) \/ Repair(t) PROVE Grows
    BY <1>2, <2>2 DEF SealAll, Quarantine, Repair, disk
  <2> QED BY <1>1, <1>5, <2>1, <2>2 DEF Requests
<1>6. CASE WriteSegment \/ Publish \/ CollectDone \/ Crash \/ UNCHANGED vars
  BY <1>1, <1>2, <1>6 DEF WriteSegment, Publish, CollectDone, Crash, vars, disk
<1>7. CASE Rotate \/ OpenWriter
  BY <1>1, <1>3, <1>7 DEF Rotate, OpenWriter
<1>8. CASE RecoverScan
  BY <1>8, RecoverScanHolds
<1>9. ASSUME NEW n, NEW k, CrashInIngest(n, k) PROVE Held(s)'
  BY <1>1, <1>4, <1>9 DEF CrashInIngest
<1>10. ASSUME NEW c \in Files, CollectFile(c) PROVE Held(s)'
  BY <1>10, CollectFileHolds
<1>11. ASSUME NEW c \in contrib, CleanupFile(c) PROVE Held(s)'
  BY <1>11, CleanupFileHolds
<1>12. CASE CompactWrite
  BY <1>12, CompactWriteHolds
<1> QED
  BY <1>5, <1>6, <1>7, <1>8, <1>9, <1>10, <1>11, <1>12
  DEF Next, SealSteps, CollectSteps, RecoverySteps, Crashes

\* What CoverageKept says of a step.
Stays ==
    \A s \in man.segs :
        Rebuildable(s) /\ Retained(s.first, mem'.segs) => Rebuildable(s)'

LEMMA StepKeepsCoverage == UntilAside /\ [Next]_vars /\ aside' = {} => Stays
<1>1. IndInv => RebuildableIfHeld
  BY RebuildableIsHeld
<1>2. IndInv' => RebuildableIfHeld'
  BY <1>1, PTL
<1> SUFFICES ASSUME UntilAside, [Next]_vars, aside' = {},
                    NEW s \in man.segs, Rebuildable(s), Retained(s.first, mem'.segs)
             PROVE  Rebuildable(s)'
  BY DEF Stays
<1>3. IndInv /\ CoverageInv
  BY NextAside DEF UntilAside
<1>4. IndInv'
  BY <1>3, NextKeeps
<1>5. s \in Segment
  BY <1>3 DEF IndInv, TypeOK, Manifest
<1>6. Held(s)
  BY <1>1, <1>3, <1>5 DEF RebuildableIfHeld
<1>7. Held(s)'
  BY <1>3, <1>5, <1>6, NextHolds
<1> QED BY <1>2, <1>4, <1>5, <1>7 DEF RebuildableIfHeld

\* Seals, collection, compaction and restarts leave a segment rebuildable as
\* long as it is inside the retention window; with torn frames, each step up
\* to the recovery that sets aside a file with records does.
THEOREM CoverageUntilAside ==
    Spec => [][aside' = {} =>
                 \A s \in man.segs :
                     Rebuildable(s) /\ Retained(s.first, mem'.segs) => Rebuildable(s)']_vars
<1>1. UntilAside /\ [Next]_vars => [aside' = {} => Stays]_vars
  BY StepKeepsCoverage
<1> QED BY <1>1, CoverageInvariance, PTL DEF Spec, Stays

THEOREM CoverageStays ==
    ASSUME ~TornWrites
    PROVE  Spec => CoverageKept
<1>1. UntilAside /\ NoneTorn' /\ [Next]_vars => [Stays]_vars
  BY StepKeepsCoverage DEF NoneTorn
<1> QED BY <1>1, CoverageInvariance, NothingSetAside, PTL DEF Spec, CoverageKept, Stays
=============================================================================
