--------------------------------- MODULE Gc ---------------------------------
(***************************************************************************)
(* Capacity reclamation of the event archive: a plan is rehearsed, checked *)
(* again and accepted as a job; a worker evicts the plan's segments one by *)
(* one in three phases (directory swap, manifest, audit), and a restart    *)
(* finishes what a crash has interrupted.                                  *)
(*                                                                         *)
(* Segments are named by their position in the log.  What protects them    *)
(* is reduced to what the plans look at: their status, the freezes that    *)
(* refer to them, the repairs under way, and the lowest boundary of all    *)
(* reader holds and group gates.  The manifest, the journal of jobs, the   *)
(* holds and the freezes are saved by the handler that changes them, under *)
(* the lock, so that one copy stands for memory and disk.                  *)
(***************************************************************************)
EXTENDS Naturals, Sequences, FiniteSets

CONSTANTS
    N,           \* segments in the archive
    P,           \* bound: plans rehearsed
    Callers,     \* requests to apply a plan
    Torn,        \* may a crash tear the line that is appended to the audit?
    MaxChanges,  \* bound: freezes, quarantines, changes of protection
    MaxCrashes   \* bound: crashes

ASSUME ConstantsAssumption ==
    /\ N \in Nat /\ P \in Nat /\ MaxChanges \in Nat /\ MaxCrashes \in Nat
    /\ Torn \in BOOLEAN
    /\ IsFiniteSet(Callers)

Segs  == 1 .. N
Plans == 1 .. P

VARIABLES
    tomb,     \* the job whose tombstone a segment has in the manifest, 0 for none
    sick,     \* segments in quarantine
    stamp,    \* what the stamp of a segment tells apart: its version and bytes
    repairs,  \* segments with a repair job
    frozen,   \* segments freezes refer to
    guard,    \* the lowest position protected by a hold or a gate
    live,     \* segments whose directory stands in its place
    graves,   \* graveyard directories: jobs and segments
    plans,    \* rehearsed plans: items, cut, stamps, outcome
    calls,    \* per request: the plan it has checked, and the verdict
    jobs,     \* accepted jobs, as in gc.json
    pending,  \* segments a job is to evict, in memory
    queue,    \* jobs that wait for the worker, who takes the oldest first
    worker,   \* the job and segment at work, and the phase
    pc,       \* "up", "recover", "down"
    todo,     \* items the recovery has still to look at
    audit,    \* the lines of the audit that can be read: jobs and segments
    tail,     \* does the audit end in a torn line?
    garbled,  \* history: lines appended to a torn one
    late,     \* history: items that were not eligible when their job was accepted
    changes, crashes

manifest == <<tomb, sick, stamp>>
shields  == <<repairs, frozen, guard>>
dirs     == <<live, graves>>
orders   == <<plans, calls>>
work     == <<jobs, pending, queue, worker>>
book     == <<audit, tail, garbled>>
counts   == <<changes, crashes>>
vars     == <<manifest, shields, dirs, orders, work, pc, todo, book, late, counts>>

Kept   == {s \in Segs : tomb[s] = 0}
Jobs   == 1 .. Len(jobs)

Unknown == [items |-> {}, cut |-> 0, stamps |-> [s \in Segs |-> 0], outcome |-> "none"]
NoCall  == [plan |-> 0, sound |-> FALSE]
Resting == [job |-> 0, seg |-> 0, at |-> "idle"]
-----------------------------------------------------------------------------
Init ==
    /\ tomb = [s \in Segs |-> 0]
    /\ sick = {} /\ repairs = {} /\ frozen = {}
    /\ stamp = [s \in Segs |-> 1]
    /\ guard = N + 1
    /\ live = Segs /\ graves = {}
    /\ plans = [p \in Plans |-> Unknown]
    /\ calls = [c \in Callers |-> NoCall]
    /\ jobs = <<>>
    /\ pending = {} /\ queue = {}
    /\ worker = Resting
    /\ pc = "up"
    /\ todo = {}
    /\ audit = <<>>
    /\ tail = FALSE
    /\ garbled = {} /\ late = {}
    /\ changes = 0 /\ crashes = 0

(* What protects segments, and what changes them.                          *)

Change ==
    /\ pc = "up"
    /\ changes < MaxChanges
    /\ changes' = changes + 1
    /\ UNCHANGED <<tomb, dirs, orders, work, pc, todo, book, late, crashes>>

\* Variant: the freeze takes what is about to be evicted, too.
FreezableAll == Kept

\* A freeze refers to no segment that is about to be evicted.
Freezable == Kept \ pending

Freeze ==
    /\ frozen' = frozen \cup Freezable
    /\ Change
    /\ UNCHANGED <<sick, stamp, repairs, guard>>

\* A hold is set, moved or released or expires; a gate moves.
Protect(b) ==
    /\ guard # b
    /\ guard' = b
    /\ Change
    /\ UNCHANGED <<sick, stamp, repairs, frozen>>

Quarantine(s) ==
    /\ s \in Kept \ (sick \cup pending)
    /\ sick' = sick \cup {s}
    /\ stamp' = [stamp EXCEPT ![s] = @ + 1]
    /\ Change
    /\ UNCHANGED shields

StartRepair(s) ==
    /\ pc = "up"
    /\ s \in (Kept \cap sick) \ (repairs \cup pending)
    /\ repairs' = repairs \cup {s}
    /\ UNCHANGED <<manifest, frozen, guard, dirs, orders, work, pc, todo, book, late, counts>>

\* A repair ends: the segment is sealed with new bytes, or is what it was.
EndRepair(s, ok) ==
    /\ pc = "up"
    /\ s \in repairs
    /\ repairs' = repairs \ {s}
    /\ IF ok
       THEN /\ s \in Kept \cap live
            /\ sick' = sick \ {s}
            /\ stamp' = [stamp EXCEPT ![s] = @ + 1]
       ELSE UNCHANGED <<sick, stamp>>
    /\ UNCHANGED <<tomb, frozen, guard, dirs, orders, work, pc, todo, book, late, counts>>
-----------------------------------------------------------------------------
(* Plans.                                                                  *)

\* Variant: what freezes refer to is not looked at.
EligibleFrozen(cut) ==
    {s \in Kept \ (sick \cup repairs \cup pending) : s <= cut /\ s < guard}

Eligible(cut) ==
    {s \in Kept \ (sick \cup repairs \cup frozen \cup pending) : s <= cut /\ s < guard}

Rehearse(p, cut) ==
    /\ pc = "up"
    /\ plans[p] = Unknown
    /\ plans' = [plans EXCEPT ![p] =
          [items |-> Eligible(cut), cut |-> cut, stamps |-> stamp, outcome |-> "open"]]
    /\ UNCHANGED <<manifest, shields, dirs, calls, work, pc, todo, book, late, counts>>

\* Nothing has changed since the rehearsal.
Sound(p) ==
    /\ Eligible(plans[p].cut) = plans[p].items
    /\ \A s \in plans[p].items : stamp[s] = plans[p].stamps[s]

\* The first part of an apply reads the state, and then the files.
Check(c, p) ==
    /\ pc = "up"
    /\ calls[c].plan = 0
    /\ plans[p].outcome = "open"
    /\ calls' = [calls EXCEPT ![c] = [plan |-> p, sound |-> Sound(p)]]
    /\ UNCHANGED <<manifest, shields, dirs, plans, work, pc, todo, book, late, counts>>

\* Variant: the second part does not ask whether the plan was concluded.
OpenAnyway(p) == TRUE

StillOpen(p) == plans[p].outcome = "open"

\* The second part relies on the first: reject the whole plan, or accept it.
Conclude(c) ==
    LET p     == calls[c].plan
        items == plans[p].items
    IN  /\ pc = "up"
        /\ calls[c].plan # 0
        /\ calls' = [calls EXCEPT ![c] = NoCall]
        /\ \/ ~StillOpen(p) /\ UNCHANGED <<plans, jobs, pending, queue, late>>
           \/ /\ StillOpen(p) /\ ~calls[c].sound
              /\ plans' = [plans EXCEPT ![p].outcome = "refused"]
              /\ UNCHANGED <<jobs, pending, queue, late>>
           \/ /\ StillOpen(p) /\ calls[c].sound
              /\ plans' = [plans EXCEPT ![p].outcome = "accepted"]
              /\ jobs' = Append(jobs, [plan |-> p, items |-> items, done |-> {}, over |-> FALSE])
              /\ pending' = pending \cup items
              /\ queue' = queue \cup {Len(jobs')}
              /\ late' = late \cup ({Len(jobs')} \X (items \ Eligible(plans[p].cut)))
        /\ UNCHANGED <<manifest, shields, dirs, worker, pc, todo, book, counts>>
-----------------------------------------------------------------------------
(* The worker; its phases from "swapped" on are the recovery's as well.    *)

\* Variant: the worker begins with the first item again.
LeftAll(j) == jobs[j].items

Left(j) == jobs[j].items \ jobs[j].done

\* What jobs that have not ended are still to evict.
Rebuilt(js) == UNION {js[j].items \ js[j].done : j \in {k \in DOMAIN js : ~js[k].over}}

Take ==
    /\ pc = "up"
    /\ worker.at = "idle"
    /\ \E j \in queue :
          /\ \A k \in queue : j <= k
          /\ queue' = queue \ {j}
          /\ worker' = [job |-> j, seg |-> 0, at |-> "next"]
    /\ UNCHANGED <<manifest, shields, dirs, orders, jobs, pending, pc, todo, book, late, counts>>

\* The intent is journaled and the grave is dug.
Dig ==
    /\ worker.at = "next"
    /\ \E s \in Left(worker.job) :
          /\ \A t \in Left(worker.job) : s <= t
          /\ worker' = [worker EXCEPT !.seg = s, !.at = "grave"]
          /\ graves' = graves \cup {<<worker.job, s>>}
    /\ UNCHANGED <<manifest, shields, live, orders, jobs, pending, queue, pc, todo, book, late, counts>>

Swap ==
    /\ worker.at = "grave"
    /\ worker.seg \in live
    /\ live' = live \ {worker.seg}
    /\ worker' = [worker EXCEPT !.at = "swapped"]
    /\ UNCHANGED <<manifest, shields, graves, orders, jobs, pending, queue, pc, todo, book, late, counts>>

\* The directory is not there: the worker gives the job back, but to no queue.
SwapFails ==
    /\ worker.at = "grave"
    /\ worker.seg \notin live
    /\ worker' = Resting
    /\ pending' = Rebuilt(jobs)
    /\ UNCHANGED <<manifest, shields, dirs, orders, jobs, queue, pc, todo, book, late, counts>>

\* The manifest has a tombstone in place of the segment.
Publish ==
    /\ worker.at = "swapped"
    /\ tomb' = [tomb EXCEPT ![worker.seg] = worker.job]
    /\ pending' = pending \ {worker.seg}
    /\ worker' = [worker EXCEPT !.at = "published"]
    /\ UNCHANGED <<sick, stamp, shields, dirs, orders, jobs, queue, pc, todo, book, late, counts>>

\* A line for the tombstone; behind a torn line it cannot be read.
Audit ==
    LET j == tomb[worker.seg] IN
    /\ worker.at = "published"
    /\ IF tail
       THEN garbled' = garbled \cup {<<j, worker.seg>>} /\ UNCHANGED audit
       ELSE audit' = Append(audit, <<j, worker.seg>>) /\ UNCHANGED garbled
    /\ tail' = FALSE
    /\ jobs' = [jobs EXCEPT ![worker.job].done = @ \cup {worker.seg}]
    /\ worker' = [worker EXCEPT !.at = "audited"]
    /\ UNCHANGED <<manifest, shields, dirs, orders, pending, queue, pc, todo, late, counts>>

\* The bytes go; on to the next item.
Bury ==
    /\ worker.at = "audited"
    /\ graves' = graves \ {<<worker.job, worker.seg>>}
    /\ worker' = IF pc = "up" THEN [worker EXCEPT !.seg = 0, !.at = "next"] ELSE Resting
    /\ UNCHANGED <<manifest, shields, live, orders, jobs, pending, queue, pc, todo, book, late, counts>>

Finish ==
    /\ worker.at = "next"
    /\ Left(worker.job) = {}
    /\ jobs' = [jobs EXCEPT ![worker.job].over = TRUE]
    /\ pending' = Rebuilt(jobs')
    /\ worker' = Resting
    /\ UNCHANGED <<manifest, shields, dirs, orders, queue, pc, todo, book, late, counts>>
-----------------------------------------------------------------------------
(* Crash and recovery.                                                     *)

\* The plans that were accepted are known again from their jobs.
Crash ==
    /\ pc # "down"
    /\ crashes < MaxCrashes
    /\ crashes' = crashes + 1
    /\ pc' = "down"
    /\ plans' = [p \in Plans |-> IF plans[p].outcome = "accepted" THEN plans[p] ELSE Unknown]
    /\ calls' = [c \in Callers |-> NoCall]
    /\ pending' = {} /\ queue' = {}
    /\ worker' = Resting
    /\ todo' = {}
    /\ tail' \in IF Torn /\ worker.at = "published" THEN BOOLEAN ELSE {tail}
    /\ UNCHANGED <<manifest, shields, dirs, jobs, audit, garbled, late, changes>>

Restart ==
    /\ pc = "down"
    /\ pc' = "recover"
    /\ todo' = {i \in Jobs \X Segs : ~jobs[i[1]].over /\ i[2] \in jobs[i[1]].items}
    /\ UNCHANGED <<manifest, shields, dirs, orders, work, book, late, counts>>

\* Variant: an eviction that is in the manifest is taken for audited.
PhaseUnaudited(j, s) == IF tomb[s] # 0 THEN "audited" ELSE "swapped"

\* Variant: the audit is not looked at.
PhaseAgain(j, s) == IF tomb[s] # 0 THEN "published" ELSE "swapped"

\* Variant: a directory that has gone is taken for an eviction that is done.
PhaseGone(j, s) == "audited"

\* Where the eviction of an item was interrupted.
Phase(j, s) ==
    IF tomb[s] # 0
    THEN IF \E i \in DOMAIN audit : audit[i] = <<j, s>> THEN "audited" ELSE "published"
    ELSE "swapped"

\* An item that was evicted, or whose directory has gone, is taken through the
\* phases that are left; one that is in place loses its grave and waits again.
RecoverItem(j, s) ==
    /\ pc = "recover"
    /\ worker.at = "idle"
    /\ <<j, s>> \in todo
    /\ \A i \in todo : j < i[1] \/ (j = i[1] /\ s <= i[2])
    /\ todo' = todo \ {<<j, s>>}
    /\ IF tomb[s] = 0 /\ s \in live
       THEN /\ graves' = graves \ {<<j, s>>}
            /\ jobs' = [jobs EXCEPT ![j].done = @ \ {s}]
            /\ UNCHANGED worker
       ELSE /\ worker' = [job |-> j, seg |-> s, at |-> Phase(j, s)]
            /\ jobs' = [jobs EXCEPT ![j].done = @ \cup {s}]
            /\ UNCHANGED graves
    /\ UNCHANGED <<manifest, shields, live, orders, pending, queue, pc, book, late, counts>>

Queued(js) == {j \in DOMAIN js : ~js[j].over}

\* The jobs' progress is recomputed, graves that are left are removed.
Recovered ==
    /\ pc = "recover"
    /\ worker.at = "idle"
    /\ todo = {}
    /\ jobs' = [j \in Jobs |-> [jobs[j] EXCEPT !.over = Left(j) = {}]]
    /\ pending' = Rebuilt(jobs')
    /\ queue' = Queued(jobs')
    /\ graves' = {}
    /\ pc' = "up"
    /\ UNCHANGED <<manifest, shields, live, orders, worker, todo, book, late, counts>>
-----------------------------------------------------------------------------
World ==
    \/ Freeze
    \/ \E b \in 1 .. N + 1 : Protect(b)
    \/ \E s \in Segs : Quarantine(s) \/ StartRepair(s) \/ \E ok \in BOOLEAN : EndRepair(s, ok)

Requests ==
    \/ \E p \in Plans, cut \in 1 .. N : Rehearse(p, cut)
    \/ \E c \in Callers : Conclude(c) \/ \E p \in Plans : Check(c, p)

Evicting == Take \/ Dig \/ Swap \/ SwapFails \/ Publish \/ Audit \/ Bury \/ Finish

Recovering == Restart \/ (\E j \in Jobs, s \in Segs : RecoverItem(j, s)) \/ Recovered

Next == World \/ Requests \/ Evicting \/ Recovering \/ Crash

Spec == Init /\ [][Next]_vars

\* The worker thread runs, and the service is started again.
FairSpec == Spec /\ WF_vars(Evicting) /\ WF_vars(Recovering)
-----------------------------------------------------------------------------
(* Properties.                                                             *)

Plan == [items : SUBSET Segs, cut : 0 .. N, stamps : [Segs -> Nat],
         outcome : {"none", "open", "refused", "accepted"}]
Job  == [plan : Plans, items : SUBSET Segs, done : SUBSET Segs, over : BOOLEAN]

\* Each variable has its type.
TypeOK ==
    /\ tomb \in [Segs -> 0 .. Len(jobs)] /\ stamp \in [Segs -> Nat]
    /\ sick \subseteq Segs /\ repairs \subseteq Segs /\ frozen \subseteq Segs
    /\ guard \in 1 .. N + 1
    /\ live \subseteq Segs /\ graves \subseteq Jobs \X Segs
    /\ plans \in [Plans -> Plan]
    /\ calls \in [Callers -> [plan : 0 .. P, sound : BOOLEAN]]
    /\ jobs \in Seq(Job)
    /\ pending \subseteq Segs /\ queue \subseteq Jobs
    /\ worker \in [job : 0 .. Len(jobs), seg : 0 .. N,
                   at : {"idle", "next", "grave", "swapped", "published", "audited"}]
    /\ pc \in {"up", "recover", "down"}
    /\ todo \subseteq Jobs \X Segs
    /\ audit \in Seq(Jobs \X Segs) /\ tail \in BOOLEAN
    /\ garbled \subseteq Jobs \X Segs /\ late \subseteq Jobs \X Segs
    /\ changes \in Nat /\ crashes \in Nat

IsLate(s) == \E j \in Jobs : <<j, s>> \in late

\* Half an eviction is never left behind: while the service is up, a segment the
\* worker is not at has its directory and no tombstone, or a tombstone and no
\* directory, whatever crash came between the phases.
NoHalfEviction ==
    pc = "up" => \A s \in Segs : worker.seg # s => (tomb[s] = 0 <=> s \in live)

\* A segment a freeze refers to stays, unless its plan was accepted after the
\* state it was checked against had changed.
FrozenStay == \A s \in frozen : s \in live \/ IsLate(s)

\* Every item of a job that has succeeded is evicted, and the audit says so:
\* a crash may delay the line but does not lose it, unless it tore the last
\* one and took the next with it.
SuccessIsAudited ==
    \A j \in Jobs : jobs[j].over =>
        \A s \in jobs[j].items :
            /\ tomb[s] # 0 /\ s \notin live
            /\ <<tomb[s], s>> \in garbled \cup {audit[i] : i \in DOMAIN audit}

\* An eviction has one line in the audit, however often a restart went through
\* its phases again.
AuditedOnce ==
    \A i, k \in DOMAIN audit : i # k /\ audit[i][2] = audit[k][2] => IsLate(audit[i][2])

\* Whoever applies a plan, and however many at a time: it becomes one job.
OneJobPerPlan == \A j, k \in Jobs : jobs[j].plan = jobs[k].plan => j = k

\* A job whose items were eligible when it was accepted comes to its end, through
\* crashes in every phase.
Owed(j) == j \in Jobs /\ ~jobs[j].over /\ \A s \in Segs : <<j, s>> \notin late
JobsEnd == \A j \in Plans : Owed(j) ~> ~Owed(j)

\* "Every eviction that succeeded has a line" in the audit.
EveryLineReadable ==
    \A j \in Jobs : jobs[j].over =>
        \A s \in jobs[j].items : <<tomb[s], s>> \in {audit[i] : i \in DOMAIN audit}
-----------------------------------------------------------------------------
(* The inductive invariant.                                                *)

Lines == garbled \cup {audit[i] : i \in DOMAIN audit}

\* The recovery is still to look at item s of job j.
Due(j, s) ==
    /\ ~jobs[j].over
    /\ pc = "down" \/ (pc = "recover" /\ <<j, s>> \in todo)

At(j, s) == worker.job = j /\ worker.seg = s /\ worker.at \in {"swapped", "published"}

\* Nobody is at work while the service is down; the recovery begins with a
\* directory that has gone; the phase tells what there is.
WorkerInv ==
    /\ pc = "down" => worker.at = "idle"
    /\ pc = "recover" => worker.at \notin {"next", "grave"}
    /\ worker.at = "idle" => worker = Resting
    /\ worker.at = "next" => worker.job \in Jobs /\ worker.seg = 0
    /\ worker.at \in {"grave", "swapped", "published", "audited"} =>
          /\ worker.job \in Jobs /\ ~jobs[worker.job].over
          /\ worker.seg \in jobs[worker.job].items
    /\ worker.at = "swapped" => tomb[worker.seg] = 0
    /\ worker.at \in {"published", "audited"} => tomb[worker.seg] # 0
    /\ worker.at \in {"swapped", "published", "audited"} => worker.seg \notin live
    /\ \A i \in todo : i[2] \in jobs[i[1]].items /\ ~jobs[i[1]].over
    /\ pc # "recover" => todo = {}

\* A tombstone has no directory, and names a job that had the item.  A directory
\* that has gone belongs to an item of a job, and if it has no tombstone
\* somebody is about to make one.
EvictionInv ==
    \A s \in Segs :
        /\ tomb[s] # 0 => s \notin live /\ s \in jobs[tomb[s]].items
        /\ s \notin live => \E j \in Jobs : s \in jobs[j].items
        /\ s \notin live /\ tomb[s] = 0 =>
              \/ worker.at = "swapped" /\ worker.seg = s
              \/ \E j \in Jobs : s \in jobs[j].items /\ Due(j, s)

\* What is done is evicted and has its line, unless the recovery is still to
\* see to it; the others are pending; a job is over when nothing is left.
Accounted(j) ==
    /\ jobs[j].done \subseteq jobs[j].items
    /\ jobs[j].over => jobs[j].items \subseteq jobs[j].done
    /\ \A s \in jobs[j].done :
          \/ tomb[s] # 0 /\ <<tomb[s], s>> \in Lines
          \/ ~jobs[j].over /\ (Due(j, s) \/ (pc = "recover" /\ At(j, s)))
    /\ pc = "up" => \A s \in Left(j) : s \in pending \/ tomb[s] # 0
JobInv == \A j \in Jobs : Accounted(j)

\* Accepted plans are the plans of jobs, one each.
PlanInv ==
    /\ \A j \in Jobs : plans[jobs[j].plan].outcome = "accepted"
    /\ OneJobPerPlan

\* An item of two jobs, or one that a freeze refers to, was accepted late.
LateInv ==
    /\ \A j, k \in Jobs : \A s \in jobs[j].items \cap jobs[k].items : j # k => IsLate(s)
    /\ \A j \in Jobs : \A s \in jobs[j].items \cap frozen : IsLate(s)

\* A line names the job of the tombstone, and there is none yet for an eviction
\* that is about to be audited.
AuditInv ==
    /\ \A l \in Lines : tomb[l[2]] = l[1]
    /\ worker.at = "published" =>
          \/ IsLate(worker.seg)
          \/ \A i \in DOMAIN audit : audit[i][2] # worker.seg
    /\ worker.at = "audited" => <<tomb[worker.seg], worker.seg>> \in Lines
    /\ AuditedOnce

IndInv == TypeOK /\ WorkerInv /\ EvictionInv /\ JobInv /\ PlanInv /\ LateInv /\ AuditInv
=============================================================================
