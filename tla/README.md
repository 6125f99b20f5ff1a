# Verification of eventarch

`eventarch` (`src/workspace/eventarch`) archives telemetry events of many
devices.  It acknowledges a batch once it is in a write-ahead log (WAL), seals
the log into immutable segments, repairs damaged segments in the background,
reclaims old ones, and serves durable consumer groups.  This directory holds
TLA+ modules translated from that code, the TLC configurations that check them
on small instances, and theorems about them with proofs checked by TLAPS.

## 1. Inventory

The program is one process.  `ArchiveStore` (store.py) has one lock `_lock`;
every handler that changes the store's memory holds it, and three kinds of work
leave it: repair workers, GC workers, and the scans of replays, device reads and
group claims.  State that must survive is in files written by
`atomic_write_json` (write, fsync, rename: one step) or appended and fsynced.

| Component | State | Operations | What makes it correct |
|---|---|---|---|
| Durable log (store.py, wal.py) | WAL files `wal/<base>.wal`, segment directories, `manifest.json`; in memory the manifest, `_open_records`, `_next_offset`, the WAL writer | `ingest`, `_seal_open`, `_rotate_wal`, `_collect_wal`, `tick`, `_recover`, `recover_wal`, `compact_wal` | an acknowledged record survives every crash and is served afterwards; segments cut the log without holes; retention does not take a segment out of the reach of a repair; a restart changes nothing |
| Ingest classification and device index (store.py) | `_devices`: event ids, sequence numbers, newest device clock | the first half of `ingest` | a pair (device, event id) is stored once; flags say what they mean |
| Freeze, replay, device reads (store.py) | `freezes.json` | `freeze`, `replay`, `device_events`, `segment_events` | a frozen view never changes; paging covers each offset once, or reports a gap |
| Repair jobs (store.py) | `repairs.json`, queue, worker threads, `stage-*` and `bak-*` directories | `start_repair`, `_run_repair`, `_gather`, `_commit_repair`, `_rollback_attempt`, `_recover_repairs`, `quarantine` | at most one job per segment; an intact directory is never lost or overwritten; manifest and directory agree after any crash; every job ends |
| Capacity reclamation (gc.py) | plans in memory, `gc.json`, `gc_audit.log`, `holds.json`, tombstones in the manifest, `gcgrave-*` directories | `create_plan`, `apply_plan`, `_run_job`, `_evict_one`, `recover`, `create_hold`, `release_hold` | what freezes, holds, repairs and groups need is not evicted; a segment is live or a tombstone, never neither; one audit line per eviction; an accepted job ends |
| Consumer groups (groups.py) | `groups.json`, `group_gates.json` | `register`, `claim`, `renew`, `settle`, `pause`, `resume`, `delete`, `recover` | one holder at a time; the checkpoint moves once per batch and never back; an unsettled batch is redelivered; nothing unread is evicted |
| Segment files, WAL frames (segments.py, wal.py) | bytes on disk | `write_segment`, `load_index`, `verify`, `scan_records`, frame encode and decode | damage is noticed |
| HTTP API, server, configuration, models, util | none | routing, parsing, JSON and fsync helpers | - |

How they meet: the collector of the log (`_wal_keep_from`) reads segment states
and active repairs; repair and GC both rename segment directories and publish
the manifest; GC asks holds, freezes, repairs and group gates what it may evict,
once when a plan is made and once when it is applied; a freeze leaves out what
GC has accepted; a group claim plans under the lock, scans without it, and
commits under it again.

What is hard about it: the places where the process may die between two writes
to disk (seal, rotation, compaction, repair commit, eviction, settle); state
that was read under the lock and is used after it was released (claims, plans,
repair commits, readers of a directory being swapped); leases that expire; jobs
requeued by a restart; limits (retention 0, a batch larger than a segment).
`PROJECT.json` lists these hazards one by one, each at its line, with the
properties that cover it or the reason why none does.

## 2. Modules

| Part | Modules | Proofs |
|---|---|---|
| The durable log (section 3) | `ArchiveLog`; `AckedLog`, the append-only log it implements; `ArchiveLogInv`, the inductive invariants; `MCArchiveLog` | `ArchiveLogProofs`, `CoverageProofs` |
| Consumer groups (4) | `Groups`; `Subscription`, what a group promises; `GroupsInv`; `MCGroups` | `GroupsProofs` |
| Repair jobs (5) | `Repair`, `MCRepair` | `RepairProofs` |
| Capacity reclamation (6) | `Gc`, `MCGc` | `GcProofs` |
| Ingest classification, device index, freeze, replay, device reads (7) | `Reads`; `ReadsInv`, the inductive invariant; `MCReads` | `ReadsProofs`, `PagesProofs`; `FiniteOrder`, lemmas about finite total orders |
| Failed and torn writes of the log and of the groups (3, 4) | `MCFaults` composes `ArchiveLog`, twice, and `Groups` | - |

Each module takes of the others what its component can notice of them, as actions
of its own: `ArchiveLog` has a segment quarantined and repaired; `Repair` has the
WAL collected; `Groups` has segments sealed, repaired and evicted; `Gc` has
freezes, holds, quarantines and repairs; `Reads` has all of these happen to its
segments.  `Next` of each module is the union of its handlers and of these.

Several definitions are followed, or preceded, by a *variant* with a comment
`Variant: ...`: the same definition with a plausible slip.  No behaviour uses
them.  `PROJECT.json` ("mutants") says which property notices the slip when the
variant takes the definition's place.

All runs set `CHECK_DEADLOCK FALSE`, because a behaviour stops when its bounds are
used up.  The bounds are constants of the modules, and the comments beside them
call them so; the other constants are parameters of the program.

Theorems hold for all values of the constants.  Where a theorem needs more than
the assumptions of the module, the tables below say what.

What would come next, in this order: a composition of `Gc` with the files of
`ArchiveLog` (the WAL collection of the GC worker, which does not hold the lock);
a seal whose manifest write fails.

## 3. The durable log

### Modules

* `ArchiveLog.tla` - the log, its properties, and variants of some definitions
  (each with a plausible slip) that show which property notices them.
* `AckedLog.tla` - what the log promises a writer: an append-only, dense log of
  records in which every acknowledged record is stored.
* `ArchiveLogInv.tla` - the inductive invariants `IndInv` and `CoverageInv`, and
  `UntilAside`: both hold as long as no recovery has set a file with records aside.
* `ArchiveLogProofs.tla`, `CoverageProofs.tla` - the theorems.
* `MCArchiveLog.tla` - the module TLC runs; the bounds are in the `.cfg` files.

### State

| Variable | Code |
|---|---|
| `wal` | the `.wal` files: base offset in the name, and the frames in them |
| `torn` | the files whose last frame is incomplete |
| `aside` | the records in files renamed `*.corrupt` by recovery |
| `dirs` | the directories `seg-<first offset>` |
| `man`, `mem` | `manifest.json`, and `self.manifest` |
| `open`, `next`, `active` | `_open_records`, `_next_offset`, the file of `self._wal` |
| `cut`, `contrib` | locals: last offset of the segment being sealed, files compaction has still to delete |
| `pc`, `mode` | the next step, and the handler it belongs to |
| `born`, `acked` | history: number of frames written, records acknowledged |

A record is its offset and an identity; payloads, timestamps and device ids are
abstracted.  A file is the *set* of its frames: since identities grow in the order
of writing, "the first frame of an offset" (what recovery and repair take) and
"the last one" (what compaction takes) are still told apart.

### Actions

The handlers hold `_lock`, so they do not interleave with each other.  They are
cut where a crash between two writes makes a difference:

* `Ingest` (append, fsync, apply, answer); `IngestFails` (the write or fsync
  raises: the frame stays in the file, `_next_offset` does not move);
* `WriteSegment`, `Publish`, `Rotate`, `CollectFile`, `CollectDone`: the loop of
  `_seal_open`, with `SealAll` for a freeze or the janitor;
* `Quarantine`, `Repair`: as far as they move the retention horizon and rewrite
  a directory (`Repair` has the repair itself);
* `Crash`, `CrashInIngest` (part of a batch is in the file, the last frame
  perhaps torn);
* `RecoverScan`, `CompactWrite`, `CleanupFile`, `OpenWriter`: the start of the
  store, which ends in the same collection as a seal.

### Runs

The bounds are `MaxOffset` (how far the log grows), `MaxCrashes`, `MaxFaults`
(quarantines and failed writes).

| Run | SegMax / MaxBatch / Retain, offsets, crashes, faults | Shows |
|---|---|---|
| `log_safety` | 2/5/1, 6, 2, 1, fair | with whole frames and successful writes, no crash point loses an acknowledged record, leaves a hole in the segments, changes what a restart computes, or takes a retained segment out of the log's reach (`CoverageKept`); `UntilAside`; the archive implements `AckedLog`; every handler and restart comes to an end (`Returns`) |
| `faults`, first part | 2/2/1, 5, 3, 1, torn frames and failed writes | until a recovery sets a file with records aside, an acknowledged record is lost only to the older frame of its offset that a failed write left behind (`LossIsExplained`), and both invariants hold (`UntilAside`) |
| `log_torn_loss` | 3/2/1, 5, 3, 0, torn frames | the first finding below |

`faults` checks two small systems in one run, a log with both faults and a group whose
journal cannot be saved (section 4): the variable `what` of `MCFaults`
is chosen in the initial state and never changes, and each step is one of the
system it names, the other standing still.  Each of its properties speaks of one system.

Why these bounds are enough: with SegMax 2 and a batch of 5 one call seals
twice and leaves a rest, so that a WAL file holds records far above its name and
the loop of `_seal_open` runs again; two crashes put a crash inside the recovery
from another crash, with a compaction before and after; 6 offsets are three
segments, one more than the retention window; a quarantined segment lowers the
horizon and its repair raises it again.  Torn frames need three crashes:
one for a compacted file to exist beside an empty newer one, one to tear it, one
to forget what the recovery kept in memory.

Fairness (`FairSpec`) is weak fairness of the steps inside a handler and of
recovery: the thread that runs a handler keeps running, and a dead process is
started again.  Nothing is assumed of requests or crashes.  The number of crashes
is bounded, so a restart is eventually not interrupted.

### Findings

* `log_torn_loss`: recovery allows a torn tail only in the last file *by name*
  (wal.py:150).  After a compaction the writer appends to the merged file, named by
  its first record, while an empty file with a higher name from a rotation may
  exist.  A crash that tears a frame there makes the next start rename the file to
  `*.corrupt`; its intact records live in memory until the start after that.
  README.md:309 and wal.py:117 say otherwise.
* Not a run of its own: after a failed fsync the frames stay in the file but
  their offsets are given out again (store.py:397-401); recovery keeps the first
  frame of an offset (wal.py:137), the one nobody was told is stored, and drops the
  acknowledged one.  `AckedServed` is violated with `WriteErrors = TRUE`, `TornWrites
  = FALSE`, SegMax 2, MaxBatch 2, Retain 1, MaxOffset 5, MaxCrashes 2, MaxFaults 1.

* Not a run of its own: with torn frames a loss is not even confined to the files
  set aside.  When recovery has set the one file with unsealed records aside there is
  nothing to merge, and the writer opens a file named by the next offset
  (store.py:291), above the records that are now in memory only.  A seal that takes
  some of those leaves the others open and rotates to a file named by the end of the
  sealed range (store.py:485), which is *lower*.  Recovery reads the files by name
  and skips an offset that is not above the last one as "already sealed or already
  collected" (wal.py:138): once the lower file has a record, the records of the higher
  one are neither, and are skipped.  `pc = "idle" => acked \subseteq Served \cup
  aside` is violated with `TornWrites = TRUE`, `WriteErrors = FALSE`, SegMax 3,
  MaxBatch 5, Retain 1, MaxOffset 10, MaxCrashes 3, MaxFaults 0 (26 states); with
  SegMax 2 it is not.

`LossIsExplained` says how far the damage goes before a file is set aside, with both
faults at once: a restart, or the running node, finds each acknowledged record or the
frame of the failed write that has taken its offset.  With torn frames `SegmentsTile`
fails too, since the offsets of lost records leave a hole.

### Proofs

For every segment size, batch size, retention and bound:

| Theorem | Statement | Assumes |
|---|---|---|
| `TypeCorrect` | `Spec => []TypeOK` | - |
| `UntilSetAside` | `Spec => [](aside = {} => IndInv)` | - |
| `CoverageInvariance` (`CoverageProofs`) | `Spec => []UntilAside`: `aside = {} => IndInv /\ CoverageInv` | - |
| `LossExplained` | `Spec => []LossIsExplained` | - |
| `CoverageUntilAside` (`CoverageProofs`) | what `CoverageKept` says, of each step with `aside' = {}` | - |
| `Invariance` | `Spec => []IndInv` | whole frames |
| `SegmentsCutTheLog` | `Spec => []SegmentsTile` | whole frames |
| `CoverageStays` (`CoverageProofs`) | `Spec => CoverageKept` | whole frames |
| `TornFramesAlone` | `Spec => [](aside = {} => AckedDurable /\ AckedServed)` | writes succeed |
| `AckedRecordsSurvive` | `Spec => []AckedDurable` | both |
| `AckedRecordsServed` | `Spec => []AckedServed` | both |
| `RestartChangesNothing` | `Spec => []RestartIsTransparent` | both |
| `Refinement` | `Spec => ImplementsAckedLog` | both |

"Whole frames" is `~TornWrites`, "writes succeed" is `~WriteErrors`, "both" is both.  The
findings above are counterexamples without them; `CoverageKept` needs whole frames because
a file that is set aside takes frames of sealed segments with it.

The argument.  A failed write leaves a frame whose offset is given out again, so an
offset may have several frames, and a recovery, a repair and a compaction do not take
the same one.  `IndInv` therefore speaks of offsets: those above the sealed mark that
are in the files (`Unsealed`) have no gap (`Dense`) and take in all that was handed out
and is not sealed (`HandedInv`: what a failed write left is at most one offset more).
Which frame of an offset is the acknowledged one is said in one place, `IdsInv`: it is
the newest there is, anywhere.  So whoever takes a frame of an offset finds the
acknowledged record or an older, unacknowledged one, which is what `LossIsExplained`
allows.  When no write fails, identity and offset are the same (`NoRepeats`), and the
frame found is the record itself.

A torn frame at the end of the last file, or behind no whole frame, changes none of
this.  The one step that does not preserve `IndInv` is the recovery that sets a file
with records aside: afterwards there are records in memory that no file has.

`AckedDurable` alone is not inductive: it must survive the deletion of any one file in
any order.  The strengthening therefore speaks of single files: a file named at or
below the sealed mark holds *every* unsealed offset up to its newest
(`SelfContained`), so a collectable file holds no unsealed offset at all; the one file
that may be named above the mark lacks less than `SegMax` of them (`NewestFile`),
which the seal in progress is about to publish; the writer's file has the rest
(`WriterInv`); and what compaction deletes is in the merged file (`CompactInv`).
There is one lemma per action and conjunct.

`CoverageKept` is about sealed records.  Three steps take frames away.  A collection
takes only files without a retained record.  The deletions after a compaction take
files whose retained records are in the merged file (`MergedAll`), which is named at or
below each of them, so that a repair looks at it (`NamesLow`).  The merged file itself
replaces a file of its name, perhaps one that was not merged; but files hold intervals of
offsets (`Intervals`; for the writer's file because its end is where the next batch
begins, or the frame of a failed write at that offset: `WriterEnds`), and a file that is
merged reaches from its first record up to the unsealed ones, so the merged file has
everything from its name on.

`wal_retain_segments = 0` (no segment is then ever collected, store.py:504) is not
the value of any run: the theorems, which are for every retention, cover it.

Only model-checked: `Returns` (liveness).  What is lost after a file was set aside is
neither checked nor proved: the third finding shows that it has no simple bound.

### Left out of this part

* The reclamation of segments, which shrinks the manifest: `Groups` and `Gc`.
* Bit rot inside a WAL file (`FrameCorrupt`): recovery treats it like a torn frame
  of an older file, but records behind it are lost, as the code documents.
* An `OSError` of the manifest write in `_seal_open`; failures of batches larger
  than one; `close()`, which writes nothing; the order in which a start verifies
  segments (any subset may fail).
* Partial writes of a segment directory: a directory the manifest does not name is
  swept by the next start, so its contents do not matter.

## 4. Consumer groups

### Modules

* `Groups.tla` - one group name, the consumers that claim and settle under it,
  and the log and its reclamation as far as a group sees them.
* `Subscription.tla` - what a group promises a subscriber: batches begin at the
  checkpoint, one is on offer at a time, and it is settled only when all it owes
  was delivered or reported as a gap.
* `GroupsInv.tla`, `GroupsProofs.tla` - the inductive invariant and the theorems.
* `MCGroups.tla` - the module TLC runs.

### State

| Variable | Code |
|---|---|
| `group`, `journal` | the group in `self._groups`, and in `groups.json` |
| `gate`, `ledger` | its entry of `self._gates`, and of `group_gates.json`; -1 is no entry |
| `call` | per holder, the locals of a claim between its plan and its commit: the batch key of the plan (0: a new batch), the range, and what the scan found |
| `expired` | the leases whose time is over; stands for `lease_expires_at` and the clock |
| `pc` | "gate" between the two saves of a handler; "down" after a crash |
| `keys` | counts the random lease and batch keys; only their being different matters |
| `head`, `units` | `_next_offset`; the segments and tombstones of the manifest |
| `checked`, `doomed` | an order that passed the checks of `apply_plan`; the segments of accepted jobs |
| `leases`, `batches`, `told`, `settles`, `done` | history: what consumers were answered since the group was registered |

### Actions

* `Register`, `Pause`, `Resume`, `Delete`: check, change the group, save the
  journal; `MoveGate` then adapts the gate and saves the ledger.
* A claim is `ClaimPlan` (first section under the lock), a scan without the lock,
  and one of `ClaimCommit`, `ClaimReplans`, `ClaimEnds` (second section); any
  other action may come in between.  What the scan returns is chosen with the
  plan, because it reads a snapshot of the manifest and of the open buffer; a
  segment found damaged during a scan is a `Quarantine` before the plan.
  `ClaimReplans` leaves a lease it took over in memory only, as the code does, and
  the next attempt is a new claim of the same holder.  `CrashInClaim` is the
  process dying between the save and the answer.
* `Settle`, and `SettleAgain` for the answer to a repeated settle.  A consumer may
  name any lease and any batch anyone was ever given, at any time.
* `SaveAll`: `groups.json` holds all groups, so a renewal, or a handler on another
  group, also saves what this one has in memory only.
* `Expire`; `Arrive`, `Seal`, `Quarantine`, `Repair`; `CheckOrder`, `AcceptOrder`,
  `Evict` for the two sections of `apply_plan` and the worker; `Crash`, `Recover`.

Abstractions: a holder has one claim under way (two of the same name could race
each other as those of two names do); one order is between its check and its
acceptance at a time; holds, freezes and repairs only take segments out of an
order, and an order is any set of segments; an eviction is one step; the limit of
six attempts is not kept.  A declaration repeated with the same values changes
nothing and is left out.

### Runs

| Run | Holders, log, keys, crashes, faults | Shows |
|---|---|---|
| `groups_claims` | 2, 2 events, 3, 1, 0 | overlapping claims, expiry, late settles and crashes: one batch per offset, settles fenced by leases, what was settled stays, gates follow the group, the group on disk implements `Subscription` |
| `groups_reclaim` | 1, 2 events in 2 segments, 2, 1, 1 | quarantine, repair and eviction around claims: what an active group has not settled is not evicted, gaps are reported; `IndInv` |
| `faults`, second part | 1, 2 events, 2, 1, 1 | after a failed save the gate still protects the checkpoint on disk |
| `groups_slow_apply` | 1, 2 events, 2, 0, 0 | the first finding below |

Why these bounds are enough: the hazards need two holders, one of which is stale.
Three keys are a lease, a batch, and a takeover or a second batch; limits 1 and 2
let two scans of the same checkpoint end at different offsets; the end of the
static group lies inside the log, so it can finish.  In the other run two segments and
two starts put the checkpoint at the beginning of a segment, inside one, and
behind one.  Holders are interchangeable, so they are a symmetry set; the
properties of these runs are safety properties.  The runs have no fairness and no
liveness: nothing in the code makes a consumer come back.

`WriteErrors` lets `atomic_write_json` raise while the process lives on;
`SlowApply` lets a group begin between the two sections of `apply_plan`.

### Findings

* `groups_slow_apply`: between the two sections of `apply_plan` (gc.py:574, 628)
  a group may register, or resume, and find no reclamation under way; the segments
  it needs are then evicted.
* Not a run of its own: a takeover whose claim has to plan again is kept in memory
  only (groups.py:380, 387, 393); the attempt that follows finds the lease its own
  and answers with it, unsaved.  After a crash another consumer gets the same epoch.
  The fence still holds (`SettlesAreFenced`): the key of the lost lease is not known
  any more.  `EpochsDistinct` is violated with two holders, Starts {0}, Ends {3},
  Limits {1}, MaxOffset 2, MaxUnits 0, MaxKeys 3, one crash and no fault.
* Not a run of its own: the commit of a claim compares checkpoint and pending batch
  with its plan (groups.py:392), not the declaration.  If the group is deleted and
  registered again with an end during the scan, a batch beyond that end is made.
  `StaticEnd` is violated with one holder, Starts {0}, Ends {1, 3}, Limits {2},
  MaxOffset 2, MaxUnits 0, MaxKeys 2, no crash and no fault.

Read off the code, without a run: a settle whose save failed is answered with
success when it is repeated (groups.py:473-477), although groups.json lacks it and
a crash takes it back, so that `SettledStays` needs saves that succeed; and a `resume`
or `register` whose save failed leaves an active group without a gate
(groups.py:557).

`GateCoversDisk` says "after at most one failed save" because two are one too many: a
group is registered at 1; a `delete` whose save fails leaves the group in groups.json
and its gate where it was; a `register` at 0 whose save fails puts the new group in
memory only; and the next save of another group writes it, with the old gate at 1.
Without `faults <= 1` the property is violated with one holder, Starts {0, 1}, Ends
{2}, Limits {1}, MaxOffset 2, MaxUnits 0, MaxKeys 2, one crash and two faults.

### Proofs

`GroupsProofs` proves, for every number of holders, every log, declaration and bound:

| Theorem | Statement | Assumes |
|---|---|---|
| `TypeCorrect` | `Spec => []TypeOK` | - |
| `Invariance` | `Spec => []IndInv` | `~WriteErrors` |
| `EachOffsetInOneBatch` | `Spec => []OneBatchPerOffset` | same |
| `LeasesFence` | `Spec => []SettlesAreFenced` | same |
| `SettlesLast` | `Spec => []SettledStays` | same |
| `GatesFollow` | `Spec => []GatesAligned` | same |
| `ReclamationSpares` | `Spec => ActiveGroupsKeepTheirLog` | `~WriteErrors`, `~SlowApply` |
| `Refinement` | `Spec => ImplementsSubscription` | `~WriteErrors` |
| `GateCoversTheJournal` | `Spec => []GateCoversDisk` | - |

The argument.  The group in memory differs from the one on disk by at most a lease
that was not saved, and such a lease has a later epoch (`MemoryInv`); so a crash
only forgets a takeover, and what it forgets never settled anything.  A batch on
offer begins at the checkpoint, and every batch a consumer was given is either
that one or behind the checkpoint (`JournalInv`, `BatchInv`); a claim planned
before that changed is recognised by the key or the checkpoint of its plan, since
keys are new (`KeysInv`) and a scan has everything its range owes (`CallInv`).  In the
current epoch only the lease on disk has settled (`SettleInv`).  An order never
reaches the checkpoint of an active group (`OrderInv`): the boundary of a gate is
the first offset of the segment the checkpoint lies in, and while an order is under
way no group begins to rely on it.

`SlowApply = FALSE` says that no group registers or resumes between the two
sections; `groups_slow_apply` shows that the theorem is false without it.

`GateCoversTheJournal` is about failing saves, where `IndInv` does not hold, and has an
invariant of its own, `GateInv`: while every save has succeeded the gate is that of the
group, and memory and disk agree on status and checkpoint; the first save that fails
leaves the gate of one of the two, and since a checkpoint only moves forward from a
pending batch that begins at it, that gate is ahead of neither.  The invariant of that name in
`MCFaults`, which TLC checks, is the same formula for the small instance there.

## 5. Repair

`Repair` is one sealed segment, the readers that find it damaged, and the jobs
that rebuild it; `store.py` 853-1573.

### State

| Variable | Code |
|---|---|
| `live`, `bak`, `stage` | the directories `<segment>`, `bak-<job>-<n>`, `stage-<job>-<n>`: absent, damaged, or intact |
| `covered` | do the WAL files still hold every record of the segment? (`_gather_wal_records`) |
| `man`, `disk` | status and `repair_version` of the segment in `self.manifest`, and in `manifest.json` |
| `job` | the youngest job, in memory and in `repairs.json`; "new" between its two journal writes |
| `plan` | the `base_version` an attempt took |
| `pc` | the worker in `_run_repair`, then the steps of `_commit_repair`; "down" after a crash |
| `found` | readers between the damage they met and their call of `quarantine` |

A rebuilt segment has the same bytes as the one that was damaged, since it is
written from the same records; so a sha256 tells no versions apart, and the guard
`expected_sha` of `quarantine` is always passed.

### Actions

`Rot`, `FindDamage`, `Quarantine`, `SealOther` (another segment is sealed: the
manifest is saved, and the WAL may be collected); `StartRepair` and `Register`;
`Take`, `Plan`, `Build` / `GiveUp` / `Tear` (the gathering finds all records, not
all, or a file being rotated); `CommitFails`, or `MoveAside`, `SwapIn`, `Publish`,
`Finish`, with `PublishFails` and `Undo`; `Park`, `Crash`, `Recover`.  The commit
holds the lock: other actions of the store wait (`Free`), a crash does not.

`Recover` is the code's: `_recover_repairs` looks for what was moved aside inside
`bak-<job>-<n>/<segment>` (store.py:1488), where it never is, so both leftovers are
removed; segments that do not verify are quarantined; the WAL is collected before
the requeued jobs are registered.

### Runs

| Run | Readers, attempts, jobs, rots, tears, failed writes, crashes | Shows |
|---|---|---|
| `repair` | 2, 2, 2, 2, 1, 1, 2, fair | `SealedIsIntact`: a segment called sealed has its directory, and it is what was put there; `SuccessIsDurable`; `LossNeedsDamage`: only damage takes the last way back to the records; `RepairsEnd`; `IndInv` |
| `repair_missing` | 2, 2, 1, 1, 0, 0, 1 | the finding below |

Why these bounds are enough: with two readers one is late: what it found before
the repair it reports after it.  Two jobs and two rots let a segment be repaired,
damaged and repaired again; two crashes hit the recovery's outcome as well as the
commit; one torn file and one failed publication each use up an attempt, and two
attempts are one more than a requeued job has left (it starts again at attempt 1).

Fairness: the worker threads run, and a process that died is started again; so
weak fairness of `Worker` and of `Recover`.  Nothing is assumed of readers, orders,
rot and crashes.  `SealedIsIntact` and `SuccessIsDurable` are conditional on no
manifest write having failed (`fails = 0`); after one, `man` calls the segment
sealed although the old directory is back (store.py:1371-1381), until the next job
or restart, and the unconditional `SealedIsWhole` is violated.

### Findings

* `repair_missing`: a crash between the two renames of the commit leaves the
  segment without a directory.  The recovery looks for the backup in the wrong
  place, and removes it.  What follows is worse than a lost attempt: every later
  commit fails, because its first rename needs the live directory; the job fails,
  although the WAL has all records.  store.py:1354 says "so the segment is never
  missing".
* Not a run of its own: a reader that found damage before a repair quarantines the
  repaired segment; store.py:855-859 says that a repair wins the race.  `StaleReadersLose` is
  violated with the constants of `repair`.
* Read from the code: a job requeued by a restart starts at attempt 1, so that
  with `repair_max_attempts = 1` it fails without a try (store.py:1115-1127); and it is not
  asked whether its segment is sealed by now.

### Proofs

`RepairProofs`, for every number of readers, attempts, jobs and faults:

| Theorem | Statement |
|---|---|
| `TypeCorrect` | `Spec => []TypeOK` |
| `Invariance` | `Spec => []IndInv` |
| `SealedSegmentsAreIntact` | `Spec => []SealedIsIntact` |
| `SuccessesLast` | `Spec => SuccessIsDurable` |
| `OnlyDamageLoses` | `Spec => LossNeedsDamage` |

The argument.  Where the worker is tells which directories there are (`DirsInv`).
A job that is not over pins the WAL files, and a crash keeps the job; so what an
attempt has staged, and what it has moved aside, can be built again (`WorkInv`).
While no manifest write has failed, the two manifests agree except in the step
that undoes a swap (`ManifestInv`).  A version that has passed the plan of an
attempt means a quarantine, not another repair (`VersionInv`), which is why the
code's check for a segment that is "sealed already" never decides a commit.

Only model-checked: `RepairsEnd`.

Left out: renames that fail although the directory is there; several segments at
once (their jobs share the queue and the journal, nothing else); callers that wait
for a job; pruning of the journal.

## 6. Capacity reclamation

`Gc` is the archive as plans see it, the requests that apply plans, the worker,
and the recovery; gc.py.

### State

| Variable | Code |
|---|---|
| `tomb` | `manifest["tombstones"]`: the job that evicted a segment |
| `sick`, `stamp`, `repairs` | segment status, `repair_version` with the sha256, active repairs |
| `frozen`, `guard` | segments of `freezes.json`; the lowest offset of any hold or gate, as a position |
| `live`, `graves` | segment directories in place, and `gcgrave-<job>/<segment>` |
| `plans`, `calls` | `self._plans`; per request what its first section found |
| `jobs`, `pending`, `queue`, `worker` | `gc.json`, `self._pending`, the queue, the worker thread |
| `todo` | what `recover` has still to look at |
| `audit`, `tail`, `garbled` | readable lines of `gc_audit.log`; does it end in a torn line; lines appended to one |
| `late` | history: items no longer eligible when their plan was accepted |

### Actions

* `Rehearse`; an apply is `Check` (gc.py:559-626) and `Conclude` (628-696),
  with any other action in between, also of another request for the same plan.
  The stat calls on the segment files, which the code makes between the two
  without the lock, are part of `Check`.
* `Take`, `Dig`, `Swap` / `SwapFails`, `Publish`, `Audit`, `Bury`, `Finish`: one
  action per phase of `_evict_one`, since a crash may come after each.
* `Crash` forgets rehearsed plans, requests, `pending` and the queue; accepted
  plans are known again from their jobs.  It may tear the line being appended to
  the audit (`Torn`).
* `Restart`, `RecoverItem`, `Recovered`: the recovery takes each item of a job
  that is not over through the phases it has left, with `Publish`, `Audit` and
  `Bury` as the worker; a crash may come in between here, too.
* `Freeze`, `Protect` (holds and gates), `Quarantine`, `StartRepair`, `EndRepair`.

### Runs

| Run | Segments, plans, requests, changes, crashes | Shows |
|---|---|---|
| `gc` | 2, 2, 2, 1, 2, torn audit lines, fair | `NoHalfEviction`, `FrozenStay`, `SuccessIsAudited`, `AuditedOnce`, `OneJobPerPlan`, `JobsEnd`; `IndInv` |

Why these bounds are enough: two segments make a job that is interrupted between
its items as well as inside one; two plans may have an item in common, and two
requests may apply the same plan at once; one change falls between the check and
the acceptance; the second crash hits the recovery from the first.  A torn line
and the line appended to it take one crash each.

One worker: `EA_GC_WORKERS` (config.py:50) starts as many threads as it says, by
default one (config.py:24, gc.py:734).  The model, its properties and its theorems are
about one; nothing is claimed of several jobs executed at the same time.

Fairness: the worker thread runs, and the service is started again and recovers:
weak fairness of `Evicting` and `Recovering`.  Requests and changes are free.

`FrozenStay`, `AuditedOnce` and `JobsEnd` make an exception for items accepted
late (`IsLate`).  This is the same window as in `groups_slow_apply`: the second
section of an apply relies on the first.  A freeze in between is evicted all the
same (gc.py:628-645).  Two requests that check two plans with a common item make
two jobs of it: the second finds the directory gone (`SwapFails`), gives its job
back to "queued", but to no queue (gc.py:759-770), so that it ends only if there is
another restart.

Not a run of its own: `EveryLineReadable` is violated with `Torn = TRUE`: a torn
last line of the audit is not truncated, the next entry is appended to it, and
neither can be read (gc.py:906).  README.md:238 says that each successful eviction
has a line.

### Proofs

`GcProofs`, for every number of segments, plans and requests, with or without
torn lines:

| Theorem | Statement |
|---|---|
| `TypeCorrect` | `Spec => []TypeOK` |
| `Invariance` | `Spec => []IndInv` |
| `EvictionsAreWhole` | `Spec => []NoHalfEviction` |
| `FreezesProtect` | `Spec => []FrozenStay` |
| `SuccessesAreAudited` | `Spec => []SuccessIsAudited` |
| `AuditsOnce` | `Spec => []AuditedOnce` |
| `PlansApplyOnce` | `Spec => []OneJobPerPlan` |

The argument.  A directory that has gone without a tombstone is the one the worker
is at, or an item the recovery will still look at (`EvictionInv`); this survives a
crash because a job that is not over keeps all its items in the journal.  What is
done is published and has its line, or is still due (`Accounted`): the recovery
finds from manifest and audit in which phase an eviction was interrupted, and a
line names the job of the tombstone, so that it writes none twice (`AuditInv`).
An item that two jobs have, or that a freeze refers to, was no longer eligible when
one of them was accepted (`LateInv`), since `Eligible` leaves out what is frozen,
pending, or evicted.  `Accounted` contains that an item that is left is pending
while the service is up, which is what makes the next plan leave it out.

Only model-checked: `JobsEnd`.

Left out: the statistics and list views, pruning of the journal, an `OSError` in
the second and third phase, graves without a job in the journal (the intent is
journaled before the grave is made), and the expiry of holds as a clock (`Protect`
may raise the lowest protected position at any time).

## 7. Reading and writing events

`Reads` is what devices send, what is indexed of it, and one client that reads
page after page, while the archive changes under it; store.py 343-487, 542-806,
and segments.py as far as records are found in a segment.

### State

`log` has the records in the order of their offsets, with the flags they were
stored with; `segs` the segments with their status, tombstones included; `entries`,
`ids`, `seqs`, `top` are `_devices`; `frz` is a freeze: the segments it refers to, its end,
and those that a plan checked before it may still be accepted for (`late`).  `client` is a caller: the
cursor, and the snapshot of a page between its two halves; and, as history, what
was there when it began (`base`), what it was given (`got`), what it was told is
gone or damaged (`holes`), what was passed over (`lost`), and what came `twice`.
Positions in a file count records instead of bytes.

### Actions

`Ingest` classifies a batch and stores what is new; `SealFull` follows before the
lock is released, `SealAged` is the janitor; `Freeze` seals what is open first.
`Quarantine`, `Repair`, `Doom`, `Leave`, `Publish` are the steps of damage, repair
and eviction a reader can notice.  `Restart` builds the index from the segments
whose index can be read, the WAL, and the tombstones, in that order.  A device
page is `PlanDevice` and `ReadDevice`; a replay page is `PlanReplay` and one of
`ReadFull`, `ReadAll`, `ReadGone` (410), `ReadRetry`.

The second half of a page meets what happened since the first.  It may find a planned
segment damaged (`damaged`), which makes a gap of it: the quarantine that follows is a
step of its own, and does not come when the segment is about to be evicted
(store.py:867).  It may find no directory: an eviction has moved it away, or a repair
of a segment quarantined since is between its two renames (store.py:1350-1352;
`swapped` of `ReadDevice`, and the status "quarantined" in `ReadRetry`).

`Doom` is the acceptance of a plan for a segment.  The plan was checked before
(gc.py:574), when the segment was not frozen, and a freeze may have come since
(gc.py:628-645): then the frozen replay meets a tombstone, or a directory that is
being moved.

### Runs

| Run | Shows |
|---|---|
| `reads` | `StoredOnce`, `FlagsTell`, `IndexLeads` (each entry leads to its record), `PagesCover`, `PagesDisjoint`; `IndInv` |
| `reads_gone`, `reads_duplicates` | the two findings below |

`reads` checks two systems in one run, told apart by `what` as in `MCFaults`: in
one, a device sends three events out of order, one at a time, and a client reads
pages of two; in the other, two devices send batches of two with an event id in
common, and nobody reads.  Three records in segments of two put a page boundary
inside a segment, at its end and in the open buffer; one segment is damaged or
given up to eviction, the service restarts once.  The first event is fixed, and the
behaviour ends with the client: the rest of the state space differs in names, or
has nobody to read.  Clients of the head and of a device read without a freeze, which is
to them a seal and a reason for an eviction not to come.  There is no fairness: nothing obliges a client to go on.

`StoredOnce` and `FlagsTell` make an exception for what a restart could not read:
when `index.json` of a segment is damaged the index forgets its events until the
segment is repaired.  `PagesCover` names the three cases in which the code passes
over an event without a word: an entry of a device whose directory is being moved, by
an eviction or by the swap of a repair (store.py:773, 1350-1352), the events a 410 throws away, and segments a freeze leaves out
because a job is about to evict them (store.py:555).

### Findings

* `reads_gone`: a replay that meets an evicted range answers 410 and drops the
  events it had read before it (store.py:609-627); a client that follows the
  cursor never sees them.
* `reads_duplicates`: inside a batch duplicates are looked up by event id alone
  (store.py:367, 388): the event of another device with the same id is answered
  "duplicate" and stored nowhere.

### Proofs

For every set of events, batch and segment size, page limit and bound.  Sequence
numbers and clocks are assumed to be positive (`ConstantsAssumption`).  The code takes any integer,
but does nothing with them but compare them, so they may be counted from 1; 0 then
stands for a page asked for without a cursor, and for a device without a clock.

| Theorem | Statement |
|---|---|
| `WorldHolds` (`ReadsProofs`) | `Spec => []World` |
| `NothingStoredTwice` | `Spec => []StoredOnce` |
| `FlagsAreRight` | `Spec => []FlagsTell` |
| `IndexIsRight` | `Spec => []IndexLeads` |
| `PagesHold` (`PagesProofs`) | `Spec => []IndInv` |
| `NothingPassedOver` | `Spec => []PagesCover` |
| `NothingReadTwice` | `Spec => []PagesDisjoint` |
| `ReadsTypes` | `Spec => []TypeOK` |

The argument has two halves.  `World` is about the store alone.  Segments tile the
log up to the open records, so an offset is in one place; the index entry of
an offset is then a *function* of the offset (`EntryOf`), and a seal, a repair and a
restart, which compute entries in three different ways, all arrive at that
function.  What the index does not know of an offset's id, number or clock, a
restart has forgotten: `Known` and `Learnt` tie the index to the log through
`forgotten`, and `StoredOnce` and `FlagsTell` need them when the next batch is judged.

`Pages` is about the client.  `PagesCover` speaks of a client that is done and says
nothing of the pages before; what is inductive is that all that lies behind the
cursor was answered, and that nothing that lies ahead of it was given
(`DeviceCursor`, `ReplayCursor`).  Between the two halves of a page the
segments may be sealed, moved, evicted and repaired, and what the plan says must
outlast that: its entries still lead to their records, and all that is to come next
is in it, or, when there is more, behind its last entry (`DevicePlan`,
`ReplayPlan`).  That needs of `World` that segments are appended and never renumbered.
A device page is in business order, a replay page in the order of offsets;
both take the first *n* of a finite set.  `FiniteOrder` proves what that means: a
total order on a finite set has a first, a last and an *n*-th element, and those up to
the *n*-th are *n*.

The two halves have one lemma per action.  Nothing about `Reads` is left to TLC but
the two properties of the findings, which do not hold.

Left out: the acceptance of a plan whose segment was damaged after the check (`Doom`
needs a sealed segment; `Gc` has such items as late ones), the `device_id` filter of a replay, `segment_events` (a replay of one
segment), a second freeze, the "late" flag (it depends on the wall clock), field
validation (what it rejects changes nothing), counters.

## 8. What the proofs rest on

The theorems are about `Spec`, without fairness. Liveness (`Returns`, `RepairsEnd`,
`JobsEnd`) is out of the prover's reach and is checked by TLC only. Each invariant
called `IndInv` is checked by TLC as well, in the run of its component; those of the
log, `IndInv` and `CoverageInv`, as `UntilAside`, with and without faults. All steps are
checked down to their leaves by TLAPS with Z3, Zenon and LS4; nothing is assumed beyond
the named assumptions on the constants in each module, and TLC evaluates those.

## 9. Not modelled

* HTTP routing, parsing and status codes (api.py, server.py): no state of their
  own; a request is one call of the store.
* Configuration, field validation, JSON and fsync helpers (config.py, models.py,
  util.py): pure functions and I/O.  `atomic_write_json` is one step of the models;
  where it can raise while the process lives on, `WriteErrors`, `MaxFails` and
  `IngestFails` say so.
* Bytes: the frame header and CRC of the WAL, the formats of `events.log` and
  `index.json`.  A frame is present or torn, a segment intact or damaged.
* An `OSError` of the manifest write in a seal (store.py:455): the manifest in
  memory and the open buffer part, and the next seal appends the segment again.
* WAL collection by the GC worker without the lock (store.py:521, gc.py:789-806):
  two collections may race for a file.
