----------------------------- MODULE ArchiveLog -----------------------------
(***************************************************************************)
(* The durable log of the event archive: batches go to write-ahead-log     *)
(* files before they are acknowledged, the open buffer is sealed into      *)
(* immutable segments published by the manifest, WAL files behind the      *)
(* retention window are collected, and a restart rebuilds the node from    *)
(* what it finds on disk.                                                  *)
(*                                                                         *)
(* All of this runs under the store's one lock, so the handlers do not     *)
(* interleave with each other; they are cut into steps because the process *)
(* may die between any two writes to disk.  `pc' says which step is next,  *)
(* `mode' which handler it belongs to.                                     *)
(*                                                                         *)
(* A record is [off, id]: its offset, and an identity that stands for its  *)
(* content (records are numbered in the order their frames are written).   *)
(* A WAL file is the set of its frames, named by its base offset; the      *)
(* order of frames is the order of their ids.  A torn file ends with an    *)
(* incomplete frame.  A segment is identified by its first offset.         *)
(***************************************************************************)
EXTENDS Integers, FiniteSets

CONSTANTS
    SegMax,       \* cfg.segment_max_records
    MaxBatch,     \* cfg.max_batch
    Retain,       \* cfg.wal_retain_segments
    TornWrites,   \* may a crash leave part of a frame at the end of a file?
    WriteErrors,  \* may a WAL write or fsync fail while the process lives on?
    MaxOffset,    \* bound: no batch is offered beyond this offset
    MaxCrashes,   \* bound: crashes
    MaxFaults     \* bound: quarantined segments and failed writes

ASSUME ConstantsAssumption ==
    /\ SegMax \in Nat \ {0}
    /\ MaxBatch \in Nat \ {0}
    /\ Retain \in Nat
    /\ TornWrites \in BOOLEAN
    /\ WriteErrors \in BOOLEAN
    /\ MaxOffset \in Nat /\ MaxCrashes \in Nat /\ MaxFaults \in Nat

VARIABLES
    wal,      \* disk: base offset |-> frames, for each .wal file
    torn,     \* disk: the files that end with an incomplete frame
    aside,    \* disk: the records in files renamed *.corrupt
    dirs,     \* disk: first offset |-> records, for each directory seg-*
    man,      \* disk: manifest.json, the published segments
    mem,      \* the manifest in memory
    open,     \* _open_records
    next,     \* _next_offset
    active,   \* base offset of the file the WAL writer appends to
    cut,      \* last offset of the segment being sealed
    contrib,  \* files that compaction has still to delete
    pc, mode,
    born,     \* history: the number of frames ever written, the next id
    acked,    \* history: the records reported as stored
    crashes, faults   \* counters for the bounds

disk   == <<wal, torn, aside, dirs, man>>
memory == <<mem, open, next, active, cut, contrib>>
counts == <<crashes, faults>>
vars   == <<disk, memory, pc, mode, born, acked, counts>>

Record  == [off : Nat, id : Nat]
Segment == [first : Nat, last : Nat, status : {"sealed", "quarantined"}]
Steps   == {"idle", "write", "publish", "rotate", "collect",
            "down", "compact", "cleanup"}
Modes   == {"none", "ingest", "all", "open"}

Offs(S) == {r.off : r \in S}
Files   == DOMAIN wal
Frames  == UNION {wal[b] : b \in Files}

Without(f, D) == [x \in DOMAIN f \ D |-> f[x]]
With(f, k, v) == [x \in DOMAIN f \cup {k} |-> IF x = k THEN v ELSE f[x]]
-----------------------------------------------------------------------------
(* Retention and coverage.                                                 *)

SealedIn(segs) == {s \in segs : s.status = "sealed"}

\* Is offset o at or above the horizon of the log retention?  The horizon is
\* the start of the Retain-th newest sealed segment (of the oldest one when
\* Retain is 0: a negative index counts from the start), lowered to the
\* oldest quarantined segment, and 0 while fewer segments are sealed.  The
\* code also pins a segment with a repair job: it is quarantined, or the job
\* was requeued by a restart and has nothing to rebuild.
Retained(o, segs) ==
    \/ Cardinality(SealedIn(segs)) <= Retain
    \/ \E s \in SealedIn(segs) :
          /\ s.first <= o
          /\ \/ Retain = 0
             \/ Cardinality({t \in SealedIn(segs) : t.first >= s.first}) <= Retain
    \/ \E s \in segs : s.status = "quarantined" /\ s.first <= o

\* Variant: the name of the file decides alone.
CollectableByName(b) == ~Retained(b, mem.segs) /\ b \notin torn

\* A file may go when its base and its newest record, hence all its records,
\* are below the horizon.
Collectable(b) ==
    /\ ~Retained(b, mem.segs)
    /\ b \notin torn
    /\ \A r \in wal[b] : ~Retained(r.off, mem.segs)

\* What a repair gathers for a segment: for each offset the frame that comes
\* first, by file and in the file, in the files named within its range.
Gathered(s) ==
    {r \in Frames :
        /\ r.off \in s.first .. s.last
        /\ \E b \in Files :
              /\ b <= s.last
              /\ r \in wal[b]
              /\ \A q \in wal[b] : q.off = r.off => r.id <= q.id
              /\ \A c \in Files : c < b => r.off \notin Offs(wal[c])}

\* The log still has every offset of the segment.
Rebuildable(s) == s.first .. s.last \subseteq Offs(Gathered(s))
-----------------------------------------------------------------------------
(* What a recovery scan collects.                                          *)

\* Variants: the scan starts one offset late, or at the first offset.
KeptLate(b, r) ==
    /\ r \in wal[b]
    /\ r.off > man.sealed + 1
    /\ \A c \in Files : c < b => \A q \in wal[c] : q.off < r.off
KeptSealed(b, r) ==
    /\ r \in wal[b]
    /\ \A c \in Files : c < b => \A q \in wal[c] : q.off < r.off

\* The scan goes through the files by name and through each file by frame,
\* and keeps a record only when its offset is above every offset it has kept
\* before and above the sealed range.  Within a file the first frame written
\* for an offset wins.
Kept(b, r) ==
    /\ r \in wal[b]
    /\ r.off > man.sealed
    /\ \A q \in wal[b] : q.off = r.off => r.id <= q.id
    /\ \A c \in Files : c < b => \A q \in wal[c] : q.off < r.off

Live == {r \in Frames : \E b \in Files : Kept(b, r)}

\* The offset to hand out next: one past the newest record.
IsEnd(n, S, sealed) ==
    \/ S = {} /\ n = sealed + 1
    \/ \E r \in S : n = r.off + 1 /\ \A q \in S : q.off <= r.off

Published == UNION {dirs[s.first] : s \in man.segs}

\* What a restart would serve, and what the running node serves.
Stored == Published \cup Live
Served == Published \cup open
-----------------------------------------------------------------------------
Init ==
    /\ wal = [b \in {0} |-> {}]
    /\ torn = {}
    /\ aside = {}
    /\ dirs = [f \in {} |-> {}]
    /\ man = [segs |-> {}, sealed |-> -1]
    /\ mem = man
    /\ open = {}
    /\ next = 0
    /\ active = 0
    /\ cut = 0
    /\ contrib = {}
    /\ pc = "idle"
    /\ mode = "none"
    /\ born = 0
    /\ acked = {}
    /\ crashes = 0
    /\ faults = 0

\* The frames of a batch: offsets from `next', in writing order.
Batch(n) == {[off |-> next + i, id |-> born + i] : i \in 0 .. n - 1}

\* Accept the n new events of a batch: append, fsync, then apply and answer.
Ingest(n) ==
    /\ pc = "idle"
    /\ next + n <= MaxOffset
    /\ wal' = [wal EXCEPT ![active] = @ \cup Batch(n)]
    /\ open' = open \cup Batch(n)
    /\ next' = next + n
    /\ born' = born + n
    /\ acked' = acked \cup Batch(n)
    /\ IF Cardinality(open') >= SegMax
       THEN pc' = "write" /\ mode' = "ingest"
       ELSE UNCHANGED <<pc, mode>>
    /\ UNCHANGED <<torn, aside, dirs, man, mem, active, cut, contrib, counts>>

\* The append or its fsync fails: the writer is told of no record, and the
\* frame stays in the file while `next' does not move.  Only batches of one
\* fail here: the offsets in a file then never decrease, so that its last
\* frame is its newest record, as Collectable takes it.
IngestFails ==
    /\ WriteErrors
    /\ pc = "idle"
    /\ next < MaxOffset
    /\ faults < MaxFaults
    /\ faults' = faults + 1
    /\ wal' = [wal EXCEPT ![active] = @ \cup Batch(1)]
    /\ born' = born + 1
    /\ UNCHANGED <<torn, aside, dirs, man, memory, pc, mode, acked, crashes>>

\* A freeze, or the janitor when the open buffer is old, seals everything.
SealAll ==
    /\ pc = "idle"
    /\ open # {}
    /\ pc' = "write"
    /\ mode' = "all"
    /\ UNCHANGED <<disk, memory, born, acked, counts>>

\* Write the directory of the new segment: the oldest SegMax records of the
\* open buffer, or all of them.
WriteSegment ==
    /\ pc = "write"
    /\ \E first, last \in Offs(open) :
          LET records == {r \in open : r.off <= last} IN
          /\ \A r \in open : first <= r.off
          /\ \/ mode = "ingest" /\ Cardinality(records) = SegMax
             \/ mode = "all" /\ records = open
          /\ dirs' = With(dirs, first, records)
          /\ cut' = last
    /\ pc' = "publish"
    /\ UNCHANGED <<wal, torn, aside, man, mem, open, next, active, contrib, mode,
                   born, acked, counts>>

\* Variant: everything in the buffer counts as sealed.
SealedMarkOfBuffer == next - 1

SealedMark == cut

\* Persist the manifest that names the segment: the commit point.
Publish ==
    /\ pc = "publish"
    /\ \E first \in Offs(open) :
          /\ \A r \in open : first <= r.off
          /\ mem' = [segs |-> mem.segs \cup
                         {[first |-> first, last |-> cut, status |-> "sealed"]},
                     sealed |-> SealedMark]
    /\ man' = mem'
    /\ pc' = "rotate"
    /\ UNCHANGED <<wal, torn, aside, dirs, open, next, active, cut, contrib, mode,
                   born, acked, counts>>

\* Variants: the buffer is not trimmed; the file is named by the next offset.
RestUntrimmed == open
NextFileByOffset == next

Rest     == {r \in open : r.off > cut}
NextFile == mem.sealed + 1

\* Drop the sealed records from the buffer and open the next WAL file, named
\* by the end of the sealed range: a file of that name is appended to.
Rotate ==
    /\ pc = "rotate"
    /\ open' = Rest
    /\ active' = NextFile
    /\ wal' = IF active' \in Files THEN wal ELSE With(wal, active', {})
    /\ pc' = "collect"
    /\ UNCHANGED <<torn, aside, dirs, man, mem, next, cut, contrib, mode, born, acked,
                   counts>>

CollectFile(b) ==
    /\ pc = "collect"
    /\ Collectable(b)
    /\ wal' = Without(wal, {b})
    /\ UNCHANGED <<torn, aside, dirs, man, memory, pc, mode, born, acked, counts>>

\* Nothing left to collect: an ingest seals again while the buffer is full,
\* any other handler returns.
CollectDone ==
    /\ pc = "collect"
    /\ \A b \in Files : ~Collectable(b)
    /\ IF mode = "ingest" /\ Cardinality(open) >= SegMax
       THEN pc' = "write" /\ mode' = mode
       ELSE pc' = "idle" /\ mode' = "none"
    /\ UNCHANGED <<disk, memory, born, acked, counts>>
-----------------------------------------------------------------------------
(* Quarantine and repair, as far as they move the retention horizon.       *)

Marked(segs, Q, st) == {IF s \in Q THEN [s EXCEPT !.status = st] ELSE s : s \in segs}

\* A reader found the segment's bytes damaged, or an operator asked.
Quarantine(s) ==
    /\ pc = "idle"
    /\ s.status = "sealed"
    /\ faults < MaxFaults
    /\ faults' = faults + 1
    /\ mem' = [mem EXCEPT !.segs = Marked(@, {s}, "quarantined")]
    /\ man' = mem'
    /\ UNCHANGED <<wal, torn, aside, dirs, open, next, active, cut, contrib, pc, mode,
                   born, acked, crashes>>

\* A repair rebuilds the segment from retained log and publishes it.
Repair(s) ==
    /\ pc = "idle"
    /\ s.status = "quarantined"
    /\ Rebuildable(s)
    /\ dirs' = With(dirs, s.first, Gathered(s))
    /\ mem' = [mem EXCEPT !.segs = Marked(@, {s}, "sealed")]
    /\ man' = mem'
    /\ UNCHANGED <<wal, torn, aside, open, next, active, cut, contrib, pc, mode,
                   born, acked, counts>>
-----------------------------------------------------------------------------
(* Crash and restart.                                                      *)

\* All memory is lost.  What open() reads first is the manifest.
Die ==
    /\ crashes < MaxCrashes
    /\ crashes' = crashes + 1
    /\ mem' = man
    /\ open' = {}
    /\ next' = 0
    /\ active' = 0
    /\ cut' = 0
    /\ contrib' = {}
    /\ pc' = "down"
    /\ mode' = "open"

Crash ==
    /\ pc # "down"
    /\ Die
    /\ UNCHANGED <<disk, born, acked, faults>>

\* The crash hits the append of a batch: k of its n frames are in the file,
\* followed perhaps by a part of the next one.
CrashInIngest(n, k) ==
    /\ pc = "idle"
    /\ next + n <= MaxOffset
    /\ Die
    /\ wal' = [wal EXCEPT ![active] = @ \cup Batch(k)]
    /\ \/ torn' = torn
       \/ TornWrites /\ k < n /\ torn' = torn \cup {active}
    /\ born' = born + k
    /\ UNCHANGED <<aside, dirs, man, acked, faults>>

\* A file other than the last one by name that ends with a torn frame.
Corrupt == {b \in Files : b \in torn /\ \E c \in Files : b < c}

\* Variant: such a file is deleted instead of renamed.
DeletedInstead == {}

SetAside == UNION {wal[b] : b \in Corrupt}

\* Variant: compaction is given the renamed files too.
ContributingRenamed == {b \in Files : \E r \in wal[b] : Kept(b, r)}

\* The files compaction merges: those with a record the scan kept, which are
\* still there.
Contributing == {b \in Files : \E r \in wal[b] : Kept(b, r)} \ Corrupt

\* Verify the sealed segments (some fail), sweep directories the manifest
\* does not name, and scan the WAL.  A torn tail is cut off the last file; any
\* other file with one is renamed *.corrupt, its intact frames kept in memory.
RecoverScan ==
    /\ pc = "down"
    /\ \E Q \in SUBSET SealedIn(man.segs), k \in 0 .. MaxFaults - faults :
          /\ Cardinality(Q) = k
          /\ faults' = faults + k
          /\ mem' = [man EXCEPT !.segs = Marked(@, Q, "quarantined")]
    /\ dirs' = Without(dirs, DOMAIN dirs \ {s.first : s \in man.segs})
    /\ wal' = Without(wal, Corrupt)
    /\ aside' = aside \cup SetAside
    /\ contrib' = Contributing
    /\ torn' = {}
    /\ open' = Live
    /\ \E n \in {man.sealed + 1} \cup {r.off + 1 : r \in Live} :
          /\ IsEnd(n, Live, man.sealed)
          /\ next' = n
    /\ pc' = "compact"
    /\ UNCHANGED <<man, active, cut, mode, born, acked, crashes>>

\* Variant: retained records that are sealed are not worth keeping.
MergedUnsealed == {r \in UNION {wal[b] : b \in contrib} : r.off > man.sealed}

\* The records compaction keeps from the files that hold live ones: those in
\* the retention window, the last frame written for an offset winning.
Merged ==
    {r \in UNION {wal[b] : b \in contrib} :
        /\ Retained(r.off, mem.segs)
        /\ \E b \in contrib :
              /\ r \in wal[b]
              /\ \A c \in contrib : \A q \in wal[c] :
                    q.off = r.off /\ q # r => c < b \/ (c = b /\ q.id < r.id)}

\* Variant: the file that the merged one replaced is deleted as well.
ObsoleteAll(base) == contrib

Obsolete(base) == contrib \ {base}

\* Write the merged file, named by its first record, over any file of that
\* name; without a live record there is nothing to merge.
CompactWrite ==
    /\ pc = "compact"
    /\ \/ /\ Merged = {}
          /\ active' = next
          /\ UNCHANGED <<wal, contrib>>
       \/ \E base \in Offs(Merged) :
             /\ \A r \in Merged : base <= r.off
             /\ wal' = With(wal, base, Merged)
             /\ contrib' = Obsolete(base)
             /\ active' = base
    /\ pc' = "cleanup"
    /\ UNCHANGED <<torn, aside, dirs, man, mem, open, next, cut, mode, born, acked,
                   counts>>

CleanupFile(b) ==
    /\ pc = "cleanup"
    /\ wal' = Without(wal, {b})
    /\ contrib' = contrib \ {b}
    /\ UNCHANGED <<torn, aside, dirs, man, mem, open, next, active, cut, pc, mode, born,
                   acked, counts>>

\* Persist what the restart changed in the manifest, open the WAL writer.
OpenWriter ==
    /\ pc = "cleanup"
    /\ contrib = {}
    /\ man' = mem
    /\ wal' = IF active \in Files THEN wal ELSE With(wal, active, {})
    /\ pc' = "collect"
    /\ UNCHANGED <<torn, aside, dirs, memory, mode, born, acked, counts>>
-----------------------------------------------------------------------------
SealSteps == WriteSegment \/ Publish \/ Rotate

CollectSteps == CollectDone \/ \E b \in Files : CollectFile(b)

RecoverySteps ==
    \/ RecoverScan
    \/ CompactWrite
    \/ \E b \in contrib : CleanupFile(b)
    \/ OpenWriter

Requests ==
    \/ /\ pc = "idle"
       /\ (\E n \in 1 .. MaxBatch : Ingest(n)) \/ IngestFails
    \/ SealAll
    \/ \E s \in mem.segs : Quarantine(s) \/ Repair(s)

Crashes == Crash \/ \E n \in 1 .. MaxBatch : \E k \in 0 .. n : CrashInIngest(n, k)

Next == Requests \/ SealSteps \/ CollectSteps \/ RecoverySteps \/ Crashes

Spec == Init /\ [][Next]_vars

\* The thread inside a handler keeps running, and a dead process is started
\* again: both until the handler returns or the process dies.
FairSpec == Spec /\ WF_vars(SealSteps \/ CollectSteps \/ RecoverySteps)
-----------------------------------------------------------------------------
(* Properties.                                                             *)

Manifest == [segs : SUBSET Segment, sealed : Int]

\* Each variable has its type; the disk maps are indexed by offsets.
TypeOK ==
    /\ DOMAIN wal \subseteq Nat /\ \A b \in Files : wal[b] \subseteq Record
    /\ torn \subseteq Nat /\ aside \subseteq Record
    /\ DOMAIN dirs \subseteq Nat /\ \A f \in DOMAIN dirs : dirs[f] \subseteq Record
    /\ man \in Manifest /\ mem \in Manifest
    /\ man.sealed >= -1 /\ mem.sealed >= -1
    /\ open \subseteq Record
    /\ next \in Nat /\ active \in Nat /\ cut \in Nat
    /\ contrib \subseteq Nat /\ (pc = "compact" => contrib \subseteq Files)
    /\ pc \in Steps /\ mode \in Modes
    /\ born \in Nat
    /\ acked \subseteq Record
    /\ crashes \in Nat /\ faults \in Nat

\* At any moment, in the middle of a seal, a collection or a recovery, a
\* restart would find every record a writer was told is stored: the order of
\* "publish, then rotate, then collect" and of "write merged, then delete".
AckedDurable == acked \subseteq Stored

\* A node that accepts requests serves every acknowledged record.
AckedServed == pc = "idle" => acked \subseteq Served

\* The record itself, or the older frame of its offset that a failed write left
\* behind and that was never acknowledged.
Found(r, R) == r \in R \/ \E q \in R \ acked : q.off = r.off /\ q.id < r.id

\* How far torn frames and failed writes go.  As long as no recovery has set
\* aside a file with records, a restart at any moment finds every acknowledged
\* record, and the running node serves it, but for one that a failed write has
\* already left a frame for: then it is that frame that is found.
LossIsExplained ==
    aside = {} =>
        \A r \in acked : Found(r, Stored) /\ (pc = "idle" => Found(r, Served))

\* The published segments cut the offsets below the sealed mark into disjoint
\* ranges without holes, and each directory holds exactly its range.
SegmentsTile ==
    /\ \A s, t \in man.segs : s # t => s.last < t.first \/ t.last < s.first
    /\ \A o \in 0 .. man.sealed : \E s \in man.segs : o \in s.first .. s.last
    /\ \A s \in man.segs :
          /\ s.first \in DOMAIN dirs
          /\ Offs(dirs[s.first]) = s.first .. s.last
          /\ s.last <= man.sealed

\* The running node and the one that would replace it agree on the unsealed
\* records and on the next offset: a restart changes neither.
RestartIsTransparent ==
    pc = "idle" => open = Live /\ IsEnd(next, Live, man.sealed)

\* A segment the log can rebuild stays rebuildable as long as it is inside
\* the retention window, whatever files its records are spread over: through
\* seals, collection, compaction and restarts.
CoverageKept ==
    [][\A s \in man.segs :
          Rebuildable(s) /\ Retained(s.first, mem'.segs) => Rebuildable(s)']_vars

\* The archive implements the log its writers rely on.
Abs == INSTANCE AckedLog WITH stored <- Stored
ImplementsAckedLog == Abs!LogSpec

\* A handler that started, and a restart, come to an end.
Returns == pc # "idle" ~> pc = "idle"
=============================================================================
