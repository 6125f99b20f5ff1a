------------------------------- MODULE Repair -------------------------------
(***************************************************************************)
(* Repair of one sealed segment of the event archive: a background job     *)
(* rebuilds its directory from the retained WAL, swaps it in by two        *)
(* renames and publishes it in the manifest.                               *)
(*                                                                         *)
(* A job is gathered and staged without the store's lock; the commit holds *)
(* it, so that its steps are seen by a crash and by nobody else.  At most  *)
(* one job of a segment is not terminal, hence one worker is at work here: *)
(* `job' is the youngest.                                                  *)
(*                                                                         *)
(* What a segment is rebuilt from is what it was sealed from, and it is    *)
(* written the same way: intact directories have the same bytes and the    *)
(* same sha256.                                                            *)
(***************************************************************************)
EXTENDS Naturals

CONSTANTS
    Readers,      \* concurrent reads of the segment
    MaxAttempts,  \* repair_max_attempts
    MaxJobs,      \* bound: repairs ordered
    MaxRots,      \* bound: times the live directory is damaged
    MaxTears,     \* bound: attempts that meet a WAL file being rotated
    MaxFails,     \* bound: manifest writes of a commit that fail
    MaxCrashes    \* bound: crashes and shutdowns

ASSUME ConstantsAssumption ==
    /\ MaxAttempts \in Nat \ {0}
    /\ MaxJobs \in Nat /\ MaxRots \in Nat /\ MaxTears \in Nat
    /\ MaxFails \in Nat /\ MaxCrashes \in Nat

VARIABLES
    live, bak, stage,  \* the segment's directory, the one moved aside, the candidate
    covered,  \* does the retained WAL hold all records of the segment?
    man,      \* the segment in the manifest in memory: status and version
    disk,     \* the same in manifest.json
    job,      \* the youngest job, as in repairs.json: status and attempt
    plan,     \* the version the attempt under way was planned for
    pc,       \* the worker: "idle", "plan", "build", "commit",
              \* then under the lock "moved", "swapped", "published", "undo"; or "down"
    found,    \* the version at which each reader met damage, 0 for none
    rotted,   \* history: the live directory was damaged where it stands
    jobs, rots, tears, fails, crashes

dirs   == <<live, bak, stage>>
meta   == <<man, disk>>
work   == <<job, plan, pc>>
counts == <<jobs, rots, tears, fails, crashes>>
vars   == <<dirs, covered, meta, work, found, rotted, counts>>

Active   == job.status \in {"new", "queued", "running"}
Terminal == job.status \in {"succeeded", "failed"}

\* No commit holds the lock, nor is a job between its two journal writes.
Free == pc \in {"idle", "plan", "build", "commit"} /\ job.status # "new"

Idle    == [status |-> "none", attempt |-> 0]
Nothing == [r \in Readers |-> 0]
-----------------------------------------------------------------------------
Init ==
    /\ live = "intact" /\ bak = "none" /\ stage = "none"
    /\ covered = TRUE
    /\ man = [status |-> "sealed", version |-> 1]
    /\ disk = man
    /\ job = Idle
    /\ plan = 0
    /\ pc = "idle"
    /\ found = Nothing
    /\ rotted = FALSE
    /\ jobs = 0 /\ rots = 0 /\ tears = 0 /\ fails = 0 /\ crashes = 0

(* What happens to the segment from outside.                               *)

\* The medium damages the live directory.
Rot ==
    /\ live = "intact"
    /\ rots < MaxRots
    /\ live' = "rotten"
    /\ rotted' = TRUE
    /\ rots' = rots + 1
    /\ UNCHANGED <<bak, stage, covered, meta, work, found, jobs, tears, fails, crashes>>

\* A read planned while the segment was sealed meets the damage.
FindDamage(r) ==
    /\ Free
    /\ found[r] = 0
    /\ man.status = "sealed"
    /\ live = "rotten"
    /\ found' = [found EXCEPT ![r] = man.version]
    /\ UNCHANGED <<dirs, covered, meta, work, rotted, counts>>

Marked(m) == [status |-> "quarantined", version |-> m.version + 1]

\* The reader has the segment quarantined.  Its expected_sha is no guard, for
\* a rebuilt segment has the sha256 of the damaged one.
Quarantine(r) ==
    /\ Free
    /\ found[r] # 0
    /\ found' = [found EXCEPT ![r] = 0]
    /\ IF man.status = "sealed"
       THEN man' = Marked(man) /\ disk' = man'
       ELSE UNCHANGED meta
    /\ UNCHANGED <<dirs, covered, work, rotted, counts>>

\* Variant: only segments under repair are pinned.
PinnedByJob == Active

\* A segment in quarantine or under repair keeps its WAL files.
Pinned == man.status = "quarantined" \/ Active

\* Other segments are sealed: the manifest is saved, and the WAL files that
\* cover this one are collected once the retention has passed them.
SealOther ==
    /\ Free
    /\ disk' = man
    /\ \/ covered' = FALSE /\ ~Pinned
       \/ UNCHANGED covered
    /\ UNCHANGED <<dirs, man, work, found, rotted, counts>>
-----------------------------------------------------------------------------
(* Orders.                                                                 *)

\* A repair is ordered; one that is under way is handed back instead.  The
\* job is journaled before it is given its first status.
StartRepair ==
    /\ Free
    /\ ~Active
    /\ jobs < MaxJobs
    /\ jobs' = jobs + 1
    /\ job' = [status |-> "new", attempt |-> 0]
    /\ UNCHANGED <<dirs, covered, meta, plan, pc, found, rotted, rots, tears, fails, crashes>>

\* There is nothing to repair in a sealed segment.
Register ==
    /\ job.status = "new"
    /\ pc = "idle"
    /\ job' = [job EXCEPT !.status = IF man.status = "sealed" THEN "succeeded" ELSE "queued"]
    /\ UNCHANGED <<dirs, covered, meta, plan, pc, found, rotted, counts>>

Take ==
    /\ pc = "idle"
    /\ job.status = "queued"
    /\ job' = [job EXCEPT !.status = "running"]
    /\ pc' = "plan"
    /\ UNCHANGED <<dirs, covered, meta, plan, found, rotted, counts>>

\* A new attempt takes a snapshot of the version.
Plan ==
    /\ pc = "plan"
    /\ IF job.attempt >= MaxAttempts
       THEN /\ job' = [job EXCEPT !.status = "failed"]
            /\ pc' = "idle"
            /\ UNCHANGED plan
       ELSE /\ job' = [job EXCEPT !.attempt = @ + 1]
            /\ plan' = man.version
            /\ pc' = "build"
    /\ UNCHANGED <<dirs, covered, meta, found, rotted, counts>>

\* Variant: an attempt that failed is not counted.
Unbounded(p) ==
    /\ pc = p
    /\ stage' = "none" /\ bak' = "none"
    /\ pc' = "plan"
    /\ job' = [job EXCEPT !.attempt = 0]
    /\ UNCHANGED plan

\* Drop the directories of the attempt and begin again, or give the job up.
Retry(p) ==
    /\ pc = p
    /\ stage' = "none" /\ bak' = "none"
    /\ IF job.attempt >= MaxAttempts
       THEN job' = [job EXCEPT !.status = "failed"] /\ pc' = "idle"
       ELSE pc' = "plan" /\ UNCHANGED job
    /\ UNCHANGED plan

\* Gather the records and stage them; or find that the WAL has them no more;
\* or meet a file that is being rotated.
Build ==
    /\ pc = "build"
    /\ covered
    /\ stage' = "intact"
    /\ pc' = "commit"
    /\ UNCHANGED <<live, bak, covered, meta, job, plan, found, rotted, counts>>

GiveUp ==
    /\ pc = "build"
    /\ ~covered
    /\ job' = [job EXCEPT !.status = "failed"]
    /\ pc' = "idle"
    /\ UNCHANGED <<dirs, covered, meta, plan, found, rotted, counts>>

Tear ==
    /\ tears < MaxTears
    /\ tears' = tears + 1
    /\ Retry("build")
    /\ UNCHANGED <<live, covered, meta, found, rotted, jobs, rots, fails, crashes>>
-----------------------------------------------------------------------------
(* The commit, under the lock.                                             *)

\* The segment was quarantined again since the plan.  (That another repair
\* has sealed it cannot be, with one job at a time.)
Conflict == man.version # plan

\* The commit is refused, or the directory it is to move is not there.
CommitFails ==
    /\ Free
    /\ Conflict \/ live = "none"
    /\ Retry("commit")
    /\ UNCHANGED <<live, covered, meta, found, rotted, counts>>

MoveAside ==
    /\ Free /\ pc = "commit"
    /\ ~Conflict
    /\ live # "none"
    /\ bak' = live
    /\ live' = "none"
    /\ pc' = "moved"
    /\ UNCHANGED <<stage, covered, meta, job, plan, found, rotted, counts>>

SwapIn ==
    /\ pc = "moved"
    /\ live' = stage
    /\ stage' = "none"
    /\ rotted' = FALSE
    /\ pc' = "swapped"
    /\ UNCHANGED <<bak, covered, meta, job, plan, found, counts>>

\* Variant: the manifest is left to the next who saves it.
PublishLater ==
    /\ pc = "swapped"
    /\ man' = [status |-> "sealed", version |-> plan + 1]
    /\ pc' = "published"
    /\ UNCHANGED <<dirs, covered, disk, job, plan, found, rotted, counts>>

\* The commit point.
Publish ==
    /\ pc = "swapped"
    /\ man' = [status |-> "sealed", version |-> plan + 1]
    /\ disk' = man'
    /\ pc' = "published"
    /\ UNCHANGED <<dirs, covered, job, plan, found, rotted, counts>>

\* The manifest cannot be saved: its copy in memory stays, and the swap is
\* reversed in two steps.
PublishFails ==
    /\ pc = "swapped"
    /\ fails < MaxFails
    /\ fails' = fails + 1
    /\ man' = [status |-> "sealed", version |-> plan + 1]
    /\ live' = "none"
    /\ pc' = "undo"
    /\ UNCHANGED <<bak, stage, covered, disk, job, plan, found, rotted, jobs, rots, tears, crashes>>

Undo ==
    /\ live' = bak
    /\ Retry("undo")
    /\ UNCHANGED <<covered, meta, found, rotted, counts>>

Finish ==
    /\ pc = "published"
    /\ bak' = "none"
    /\ job' = [job EXCEPT !.status = "succeeded"]
    /\ pc' = "idle"
    /\ UNCHANGED <<live, stage, covered, meta, plan, found, rotted, counts>>
-----------------------------------------------------------------------------
(* Shutdown, crash and recovery.                                           *)

Stops ==
    /\ crashes < MaxCrashes
    /\ crashes' = crashes + 1
    /\ pc' = "down"
    /\ plan' = 0
    /\ man' = disk
    /\ found' = Nothing
    /\ UNCHANGED <<live, covered, disk, rotted, jobs, rots, tears, fails>>

\* A worker told to stop puts its job back into the queue.
Park ==
    /\ Free
    /\ pc \in {"plan", "commit"}
    /\ stage' = IF pc = "commit" THEN "none" ELSE stage
    /\ job' = [job EXCEPT !.status = "queued"]
    /\ Stops
    /\ UNCHANGED bak

Crash ==
    /\ pc # "down"
    /\ Stops
    /\ UNCHANGED <<bak, stage, job>>

\* Variant: sealed segments are taken at their word.
Trusted(m, content) == m

\* A sealed segment that does not verify is quarantined.
Verified(m, content) ==
    IF m.status = "sealed" /\ content # "intact" THEN [m EXCEPT !.status = "quarantined"] ELSE m

\* Both leftovers of an attempt are removed: what was moved aside is not found,
\* for it is looked up inside the directory it was renamed to.  Sealed segments
\* are verified.  The WAL is collected before the jobs are registered; then
\* a job that had not ended is queued again, at its first attempt.
Recover ==
    /\ pc = "down"
    /\ bak' = "none" /\ stage' = "none"
    /\ man' = Verified(disk, live)
    /\ disk' = man'
    /\ \/ covered' = FALSE /\ man'.status = "sealed"
       \/ UNCHANGED covered
    /\ job' = IF Active THEN [status |-> "queued", attempt |-> 1] ELSE job
    /\ pc' = "idle"
    /\ UNCHANGED <<live, plan, found, rotted, counts>>
-----------------------------------------------------------------------------
Commit == CommitFails \/ MoveAside \/ SwapIn \/ Publish \/ PublishFails \/ Undo \/ Finish
Worker == Register \/ Take \/ Plan \/ Build \/ GiveUp \/ Tear \/ Commit

Next ==
    \/ Rot \/ SealOther \/ StartRepair
    \/ \E r \in Readers : FindDamage(r) \/ Quarantine(r)
    \/ Worker
    \/ Park \/ Crash \/ Recover

Spec == Init /\ [][Next]_vars

\* The worker threads run, and the service is started again.
FairSpec == Spec /\ WF_vars(Worker) /\ WF_vars(Recover)
-----------------------------------------------------------------------------
(* Properties.                                                             *)

Content  == {"none", "rotten", "intact"}
Meta     == [status : {"sealed", "quarantined"}, version : Nat]
Statuses == {"none", "new", "queued", "running", "succeeded", "failed"}

\* Each variable has its type.
TypeOK ==
    /\ live \in Content /\ bak \in Content /\ stage \in Content
    /\ covered \in BOOLEAN
    /\ man \in Meta /\ disk \in Meta
    /\ job \in [status : Statuses, attempt : Nat]
    /\ plan \in Nat
    /\ pc \in {"idle", "plan", "build", "commit", "moved", "swapped", "published", "undo", "down"}
    /\ found \in [Readers -> Nat]
    /\ rotted \in BOOLEAN
    /\ jobs \in Nat /\ rots \in Nat /\ tears \in Nat /\ fails \in Nat /\ crashes \in Nat

\* Whenever the lock is free, a segment the manifest calls sealed is there and
\* is intact, unless it was damaged since it was put there: no crash between
\* the renames, no conflict and no restart leaves a sealed segment without its
\* directory or with the old one.
SealedIsWhole ==
    Free /\ man.status = "sealed" => live = "intact" \/ (live = "rotten" /\ rotted)
SealedIsIntact == fails = 0 => SealedIsWhole

\* What is called a success outlives a crash: the manifest on disk has the
\* segment sealed, and its directory is the rebuilt one.
SuccessIsDurable ==
    [][fails = 0 /\ ~Terminal /\ job'.status = "succeeded" =>
          disk'.status = "sealed" /\ (live' = "intact" \/ rotted')]_vars

\* The last way back to the records is lost when the live directory is damaged,
\* or stands damaged and nobody knows; it is not lost by a crash, a rollback, a
\* restart, or a collection of WAL files.
Recoverable == covered \/ live = "intact" \/ bak = "intact"
LossNeedsDamage ==
    [][Recoverable /\ ~Recoverable' =>
          /\ live' = "rotten"
          /\ live = "intact" \/ disk.status = "sealed" \/ fails > 0]_vars

\* "Undo ... so the segment is never missing": whenever the lock is free the
\* segment has a directory.
NeverMissing == Free => live # "none"

\* "A repair job that atomically swapped in fresh bytes wins the race against a
\* reader holding an old file handle": what a reader found before the repair
\* does not quarantine the segment after it.
StaleReadersLose ==
    [][\A r \in Readers :
          Quarantine(r) /\ man' # man => found[r] = man.version]_vars

\* Each repair ends, however often it meets a conflict, a torn file, a failed
\* write or a restart.
RepairsEnd == Active ~> Terminal
-----------------------------------------------------------------------------
(* The inductive invariant.                                                *)

\* Where the worker is tells which directories there are.
DirsInv ==
    /\ pc \in {"idle", "plan", "build"} => bak = "none" /\ stage = "none"
    /\ pc = "commit" => bak = "none" /\ stage = "intact"
    /\ pc = "moved" => bak # "none" /\ stage = "intact" /\ live = "none"
    /\ pc \in {"swapped", "published"} => bak # "none" /\ stage = "none" /\ live # "none"
    /\ pc = "undo" => bak # "none" /\ stage = "none" /\ live = "none" /\ fails > 0
    /\ live = "rotten" => rotted \/ fails > 0

\* A worker has a running job; what it builds from, and what it moved aside,
\* is covered by the WAL.
WorkInv ==
    /\ pc # "down" => (job.status = "running" <=> pc # "idle")
    /\ pc \in {"commit", "moved", "swapped", "published", "undo"} => covered
    /\ bak # "none" => covered

\* Only a quarantine makes the version pass the plan: a commit never meets a
\* segment that another repair has sealed.
VersionInv ==
    /\ pc \in {"build", "commit"} => plan <= man.version
    /\ pc \in {"build", "commit"} /\ Conflict => man.status = "quarantined"

\* With every write done the two manifests differ in no visible state; what a
\* sealed segment needs is there.
ManifestInv ==
    /\ pc \in {"idle", "plan", "build", "commit"} /\ man.status = "sealed" => live # "none"
    /\ pc # "undo" /\ fails = 0 => man = disk
    /\ pc = "published" => man = disk /\ man.status = "sealed"

IndInv == TypeOK /\ DirsInv /\ WorkInv /\ VersionInv /\ ManifestInv
=============================================================================
