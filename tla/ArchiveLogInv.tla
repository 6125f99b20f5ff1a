--------------------------- MODULE ArchiveLogInv ---------------------------
(***************************************************************************)
(* Why the log of ArchiveLog survives crashes as long as no recovery has   *)
(* set a file with records aside: the inductive invariant behind           *)
(* LossIsExplained, and behind AckedDurable when writes do not fail.       *)
(*                                                                         *)
(* A failed write leaves a frame whose offset is handed out again, so an   *)
(* offset may have several frames, and which of them a recovery, a repair  *)
(* or a compaction takes differs.  The argument is therefore about         *)
(* offsets: the unsealed ones in the files follow the sealed mark without  *)
(* a gap.  The frames of one offset are told apart at one place only, in   *)
(* IdsInv: the acknowledged one is the newest.                             *)
(*                                                                         *)
(* The heart of it is per WAL file, so that deleting a file cannot hurt    *)
(* the others: a file named at or below the sealed mark holds every        *)
(* unsealed offset up to its newest (SelfContained); the one file that may *)
(* be named above it lacks less than SegMax of them, all sealed by the     *)
(* next seal (NewestFile).                                                 *)
(***************************************************************************)
EXTENDS ArchiveLog

On(b)    == Offs(wal[b])
Unsealed == {o \in UNION {On(b) : b \in Files} : man.sealed < o}
Pending  == man.sealed + 1 .. next - 1
Running  == pc \in {"idle", "write", "publish", "rotate", "collect"}

\* Every record there is, and sets with one record for each offset.
Known      == Frames \cup open \cup acked \cup UNION {dirs[f] : f \in DOMAIN dirs}
OneEach(S) == \A p, q \in S : p.off = q.off => p = q

\* Only a crash tears a frame, and the recovery after it cuts the frame off.
TornInv == pc # "down" => torn = {}

\* The acknowledged record of an offset is its newest, and the only one
\* acknowledged: the frames of failed writes are older.
IdsInv ==
    /\ \A r \in Known : r.id < born
    /\ \A r \in acked, q \in Known : q.off = r.off => q.id <= r.id

NamesBounded == \A b \in Files : b <= man.sealed + 1

Dense == \A o \in Unsealed : man.sealed + 1 .. o \subseteq Unsealed

SelfContained ==
    \A b \in Files : b <= man.sealed =>
        \A o \in On(b) : man.sealed + 1 .. o \subseteq On(b)

NewestFile ==
    man.sealed + 1 \in Files =>
        \A o \in On(man.sealed + 1) :
            man.sealed + SegMax .. o \subseteq On(man.sealed + 1)

FilesInv == NamesBounded /\ Dense /\ SelfContained /\ NewestFile

\* What was acknowledged is sealed or in the files, and so is what was handed
\* out; a failed write may have left frames at the next offset.
HandedInv ==
    /\ \A r \in acked : r.off <= man.sealed \/ r.off \in Unsealed
    /\ pc # "down" =>
          /\ man.sealed < next
          /\ Pending \subseteq Unsealed
          /\ \A o \in Unsealed : o <= next
          /\ \A r \in acked : r.off < next
    /\ pc \in {"compact", "cleanup"} => \A o \in Unsealed : o < next

\* Between seals the writer's file holds the unsealed offsets, but for less
\* than SegMax of them when the file was opened by a rotation.  A file that
\* was opened by a compaction holds at least one.
WriterInv ==
    Running =>
        /\ active \in Files
        /\ \/ /\ Pending \subseteq On(active)
              /\ active <= man.sealed => Pending # {}
           \/ pc = "rotate"
           \/ /\ active = man.sealed + 1
              /\ man.sealed + SegMax .. next - 1 \subseteq On(active)
           \/ /\ active = man.sealed + 1
              /\ pc \in {"write", "publish", "collect"} /\ mode = "ingest"
              /\ wal[active] = {}

OpenInv ==
    /\ OneEach(open)
    /\ pc \notin {"down", "rotate"} => Offs(open) = Pending
    /\ pc = "rotate" =>
          /\ cut = man.sealed
          /\ \E f \in 0 .. cut : Offs(open) = f .. next - 1
          /\ \A b \in Files : b <= man.sealed

SealInv ==
    /\ pc \in {"write", "publish", "rotate"} => mode \in {"ingest", "all"}
    /\ pc \in {"down", "compact", "cleanup"} => mode = "open"
    /\ pc = "publish" =>
          /\ man.sealed < cut /\ cut < next
          /\ man.sealed + 1 \in DOMAIN dirs
          /\ Offs(dirs[man.sealed + 1]) = man.sealed + 1 .. cut
          /\ mode = "ingest" => cut = man.sealed + SegMax
          /\ mode = "all" => cut = next - 1
    /\ pc \in {"rotate", "collect"} /\ mode = "all" => man.sealed = next - 1

\* The ranges of `segs' cut 0 .. sealed, and their directories hold them.
Tiled(segs, sealed, d) ==
    /\ \A s \in segs :
          /\ s.first <= s.last /\ s.last <= sealed
          /\ s.first \in DOMAIN d
          /\ Offs(d[s.first]) = s.first .. s.last
    /\ \A s, t \in segs : s # t => s.last < t.first \/ t.last < s.first
    /\ \A o \in 0 .. sealed : \E s \in segs : s.first <= o /\ o <= s.last

SegmentsInv == Tiled(man.segs, man.sealed, dirs)

SameRanges(A, B) ==
    /\ \A s \in A : \E t \in B : s.first = t.first /\ s.last = t.last
    /\ \A t \in B : \E s \in A : s.first = t.first /\ s.last = t.last
    /\ \A s, t \in A : s.first = t.first => s = t

\* A segment's status is all that a restart changes in the manifest.
MemInv ==
    /\ mem.sealed = man.sealed
    /\ SameRanges(mem.segs, man.segs)
    /\ pc \notin {"compact", "cleanup"} => mem = man

\* Compaction: what it deletes is in the merged file.
CompactInv ==
    /\ pc = "compact" =>
          /\ contrib \subseteq Files
          /\ \A o \in Unsealed : \E b \in contrib : o \in On(b)
          /\ \A b \in contrib : \E o \in Unsealed : o \in On(b)
    /\ pc = "cleanup" =>
          /\ active \notin contrib
          /\ active <= man.sealed + 1
          /\ active <= man.sealed => Pending # {}
          /\ \A o \in Unsealed : active \in Files /\ o \in On(active)

\* This holds of every state up to the recovery that sets a file with records
\* aside, and each step but that recovery preserves it.
IndInv ==
    /\ TypeOK
    /\ TornInv
    /\ IdsInv
    /\ FilesInv
    /\ HandedInv
    /\ WriterInv
    /\ OpenInv
    /\ SealInv
    /\ SegmentsInv
    /\ MemInv
    /\ CompactInv
-----------------------------------------------------------------------------
(* Why compaction and collection never cost a repair its source.  Deleting *)
(* a file must not take the last retained frame of an offset with it, and  *)
(* the frame that stays must be in a file that the repair looks at, one    *)
(* named within the range of the segment.                                  *)

\* A file holds an interval of offsets.
Intervals == \A b \in Files : \A o, p \in On(b) : o .. p \subseteq On(b)

\* A file is named at or below everything in it.
NamesLow == \A b \in Files : \A o \in On(b) : b <= o

\* What the writer's file holds reaches the newest record, or a failed one.
WriterEnds ==
    Running => On(active) = {} \/ next - 1 \in On(active) \/ next \in On(active)

\* The files that compaction has still to delete hold no retained offset
\* that is not in the merged file.
MergedAll ==
    pc = "cleanup" =>
        \A b \in contrib \cap Files : \A o \in On(b) :
            Retained(o, mem.segs) => active \in Files /\ o \in On(active)

CoverageInv == Intervals /\ NamesLow /\ WriterEnds /\ MergedAll

\* As long as no recovery has set a file with records aside, segments, files,
\* buffer and compaction are in the states that the proofs count on, through
\* crashes, torn frames, failed writes and damaged segments.
UntilAside == aside = {} => IndInv /\ CoverageInv
-----------------------------------------------------------------------------
(* When no write fails an offset has one frame, and a record's id is its   *)
(* offset.                                                                 *)
NoRepeats ==
    /\ \A r \in Known : r.id = r.off
    /\ pc # "down" => next = born
    /\ pc = "down" => man.sealed + 1 .. born - 1 \subseteq Unsealed /\ man.sealed < born
=============================================================================
