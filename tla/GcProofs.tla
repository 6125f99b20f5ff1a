------------------------------ MODULE GcProofs ------------------------------
(***************************************************************************)
(* Theorems about Gc, for every value of its constants.                    *)
(***************************************************************************)
EXTENDS Gc, TLAPS

(***************************************************************************)
(* Type correctness.                                                       *)
(***************************************************************************)

\* Progress of one job changes nothing else.
LEMMA DoneUpdated ==
    ASSUME jobs \in Seq(Job), NEW w \in Jobs, NEW D \in SUBSET Segs,
           jobs' = [jobs EXCEPT ![w].done = D]
    PROVE  /\ jobs' \in Seq(Job) /\ Len(jobs') = Len(jobs) /\ Jobs' = Jobs
           /\ \A j \in Jobs :
                 /\ jobs'[j].plan = jobs[j].plan /\ jobs'[j].items = jobs[j].items
                 /\ jobs'[j].over = jobs[j].over
                 /\ jobs'[j].done = IF j = w THEN D ELSE jobs[j].done
<1>1. \A j \in Jobs : jobs[j] \in Job
  BY DEF Jobs
<1>2. jobs' = [j \in Jobs |-> IF j = w THEN [jobs[w] EXCEPT !.done = D] ELSE jobs[j]]
  <2>1. jobs = [j \in Jobs |-> jobs[j]]
    BY DEF Jobs
  <2>2. jobs' = [jobs EXCEPT ![w] = [jobs[w] EXCEPT !.done = D]]
    OBVIOUS
  <2> QED BY <2>1, <2>2
<1>3. [jobs[w] EXCEPT !.done = D] \in Job
  BY <1>1 DEF Job
<1>4. jobs' \in Seq(Job) /\ Len(jobs') = Len(jobs)
  BY <1>1, <1>2, <1>3 DEF Jobs
<1>5. jobs'[w] = [jobs[w] EXCEPT !.done = D]
  BY <1>2
<1>6. /\ jobs'[w].plan = jobs[w].plan /\ jobs'[w].items = jobs[w].items
      /\ jobs'[w].over = jobs[w].over /\ jobs'[w].done = D
  BY <1>1, <1>5 DEF Job
<1> QED BY <1>2, <1>4, <1>6 DEF Jobs

LEMMA OverUpdated ==
    ASSUME jobs \in Seq(Job), NEW f \in [Jobs -> BOOLEAN],
           jobs' = [j \in Jobs |-> [jobs[j] EXCEPT !.over = f[j]]]
    PROVE  /\ jobs' \in Seq(Job) /\ Len(jobs') = Len(jobs) /\ Jobs' = Jobs
           /\ \A j \in Jobs :
                 /\ jobs'[j].plan = jobs[j].plan /\ jobs'[j].items = jobs[j].items
                 /\ jobs'[j].over = f[j] /\ jobs'[j].done = jobs[j].done
<1>1. \A j \in Jobs : jobs[j] \in Job
  BY DEF Jobs
<1>2. \A j \in Jobs : [jobs[j] EXCEPT !.over = f[j]] \in Job
  BY <1>1 DEF Job
<1>3. jobs' \in Seq(Job) /\ Len(jobs') = Len(jobs)
  BY <1>2 DEF Jobs
<1>4. ASSUME NEW j \in Jobs
      PROVE  /\ jobs'[j].plan = jobs[j].plan /\ jobs'[j].items = jobs[j].items
             /\ jobs'[j].over = f[j] /\ jobs'[j].done = jobs[j].done
  <2>1. jobs'[j] = [jobs[j] EXCEPT !.over = f[j]]
    OBVIOUS
  <2> QED BY <1>1, <2>1 DEF Job
<1> QED BY <1>3, <1>4 DEF Jobs

\* A new job is the last one.
LEMMA JobAppended ==
    ASSUME jobs \in Seq(Job), NEW job \in Job, jobs' = Append(jobs, job)
    PROVE  /\ jobs' \in Seq(Job) /\ Len(jobs') = Len(jobs) + 1
           /\ Jobs' = Jobs \cup {Len(jobs')} /\ Len(jobs') \notin Jobs
           /\ jobs'[Len(jobs')] = job
           /\ \A j \in Jobs : jobs'[j] = jobs[j]
BY DEF Jobs

LEMMA JobsFacts ==
    ASSUME TypeOK
    PROVE  /\ Jobs = DOMAIN jobs
           /\ \A j \in Jobs : /\ jobs[j] \in Job /\ jobs[j].plan \in Plans
                              /\ jobs[j].items \subseteq Segs /\ jobs[j].done \subseteq Segs
                              /\ jobs[j].over \in BOOLEAN
           /\ \A j \in Jobs : Left(j) \subseteq Segs
           /\ Rebuilt(jobs) \subseteq Segs
<1>1. Jobs = DOMAIN jobs /\ \A j \in Jobs : jobs[j] \in Job
  BY DEF TypeOK, Jobs
<1>2. \A j \in Jobs : /\ jobs[j].plan \in Plans
                      /\ jobs[j].items \subseteq Segs /\ jobs[j].done \subseteq Segs
                      /\ jobs[j].over \in BOOLEAN
  BY <1>1 DEF Job
<1>3. Rebuilt(jobs) \subseteq Segs
  BY <1>1, <1>2 DEF Rebuilt
<1> QED BY <1>1, <1>2, <1>3 DEF Left

LEMMA RebuiltType == ASSUME NEW js \in Seq(Job) PROVE Rebuilt(js) \subseteq Segs
<1>1. \A j \in DOMAIN js : js[j].items \subseteq Segs
  <2>1. \A j \in DOMAIN js : js[j] \in Job
    OBVIOUS
  <2> QED BY <2>1 DEF Job
<1> QED BY <1>1 DEF Rebuilt

\* The worker's job is over.
LEMMA Finished ==
    ASSUME jobs \in Seq(Job), NEW w \in Jobs, jobs' = [jobs EXCEPT ![w].over = TRUE]
    PROVE  /\ jobs' \in Seq(Job) /\ Len(jobs') = Len(jobs) /\ Jobs' = Jobs
           /\ \A j \in Jobs :
                 /\ jobs'[j].plan = jobs[j].plan /\ jobs'[j].items = jobs[j].items
                 /\ jobs'[j].over = (j = w \/ jobs[j].over) /\ jobs'[j].done = jobs[j].done
<1> DEFINE f == [j \in Jobs |-> j = w \/ jobs[j].over]
<1>1. \A j \in Jobs : jobs[j] \in Job
  BY DEF Jobs
<1>2. f \in [Jobs -> BOOLEAN]
  BY <1>1 DEF Job
<1>3. \A j \in Jobs : [jobs[j] EXCEPT !.over = jobs[j].over] = jobs[j]
  BY <1>1 DEF Job
<1>4. jobs' = [j \in Jobs |-> IF j = w THEN [jobs[w] EXCEPT !.over = TRUE] ELSE jobs[j]]
  <2>1. jobs = [j \in Jobs |-> jobs[j]]
    BY DEF Jobs
  <2>2. jobs' = [jobs EXCEPT ![w] = [jobs[w] EXCEPT !.over = TRUE]]
    OBVIOUS
  <2> QED BY <2>1, <2>2
<1>5. \A j \in Jobs : jobs'[j] = [jobs[j] EXCEPT !.over = f[j]]
  <2> SUFFICES ASSUME NEW j \in Jobs PROVE jobs'[j] = [jobs[j] EXCEPT !.over = f[j]]
      OBVIOUS
  <2>1. CASE j = w
    BY <1>4, <2>1
  <2>2. CASE j # w
    <3>1. f[j] = jobs[j].over
      BY <1>1, <2>2 DEF Job
    <3> QED BY <1>3, <1>4, <2>2, <3>1
  <2> QED BY <2>1, <2>2
<1>6. jobs' = [j \in Jobs |-> [jobs[j] EXCEPT !.over = f[j]]]
  BY <1>4, <1>5
<1> HIDE DEF f
<1>7. /\ jobs' \in Seq(Job) /\ Len(jobs') = Len(jobs) /\ Jobs' = Jobs
      /\ \A j \in Jobs :
            /\ jobs'[j].plan = jobs[j].plan /\ jobs'[j].items = jobs[j].items
            /\ jobs'[j].over = f[j] /\ jobs'[j].done = jobs[j].done
  BY <1>2, <1>6, OverUpdated
<1> QED BY <1>7 DEF f

\* After a recovery the jobs with nothing left are over.
LEMMA Progressed ==
    ASSUME jobs \in Seq(Job), jobs' = [j \in Jobs |-> [jobs[j] EXCEPT !.over = Left(j) = {}]]
    PROVE  /\ jobs' \in Seq(Job) /\ Len(jobs') = Len(jobs) /\ Jobs' = Jobs
           /\ \A j \in Jobs :
                 /\ jobs'[j].plan = jobs[j].plan /\ jobs'[j].items = jobs[j].items
                 /\ jobs'[j].over = (Left(j) = {}) /\ jobs'[j].done = jobs[j].done
<1> DEFINE f == [j \in Jobs |-> Left(j) = {}]
<1>1. f \in [Jobs -> BOOLEAN]
  OBVIOUS
<1>2. jobs' = [j \in Jobs |-> [jobs[j] EXCEPT !.over = f[j]]]
  OBVIOUS
<1> HIDE DEF f
<1>3. /\ jobs' \in Seq(Job) /\ Len(jobs') = Len(jobs) /\ Jobs' = Jobs
      /\ \A j \in Jobs :
            /\ jobs'[j].plan = jobs[j].plan /\ jobs'[j].items = jobs[j].items
            /\ jobs'[j].over = f[j] /\ jobs'[j].done = jobs[j].done
  BY <1>1, <1>2, OverUpdated
<1> QED BY <1>3 DEF f

LEMMA SeqGrows ==
    ASSUME NEW S, NEW T, S \subseteq T, NEW q \in Seq(S)
    PROVE  q \in Seq(T)
<1>1. \A i \in 1 .. Len(q) : q[i] \in T
  OBVIOUS
<1> QED BY <1>1

LEMMA AppendType == ASSUME NEW S, NEW q \in Seq(S), NEW e \in S PROVE Append(q, e) \in Seq(S)
OBVIOUS

LEMMA RangeAppend ==
    ASSUME NEW S, NEW q \in Seq(S), NEW e
    PROVE  {Append(q, e)[i] : i \in DOMAIN Append(q, e)} = {q[i] : i \in DOMAIN q} \cup {e}
<1>1. DOMAIN Append(q, e) = DOMAIN q \cup {Len(q) + 1} /\ Append(q, e)[Len(q) + 1] = e
  OBVIOUS
<1>2. \A i \in DOMAIN q : Append(q, e)[i] = q[i]
  OBVIOUS
<1> QED BY <1>1, <1>2

\* What is left of a job is to be evicted still.
LEMMA RebuiltHas ==
    ASSUME TypeOK', NEW j \in Jobs', jobs'[j].over => jobs'[j].items \subseteq jobs'[j].done
    PROVE  Left(j)' \subseteq Rebuilt(jobs')
<1>1. j \in DOMAIN jobs'
  BY DEF TypeOK, Jobs
<1>2. CASE jobs'[j].over
  BY <1>2 DEF Left
<1>3. CASE ~jobs'[j].over
  BY <1>1, <1>3 DEF Left, Rebuilt
<1> QED BY <1>2, <1>3

LEMMA LinesType ==
    ASSUME TypeOK
    PROVE  \A l \in Lines : l[1] \in Jobs /\ l[2] \in Segs /\ l[1] # 0 /\ l = <<l[1], l[2]>>
<1>1. \A i \in DOMAIN audit : audit[i] \in Jobs \X Segs
  <2>1. audit \in Seq(Jobs \X Segs)
    BY DEF TypeOK
  <2> QED BY <2>1
<1>2. Lines \subseteq Jobs \X Segs
  BY <1>1 DEF Lines, TypeOK
<1>3. \A j \in Jobs : j # 0
  BY DEF Jobs
<1> QED BY <1>2, <1>3

LEMMA TombType ==
    ASSUME TypeOK PROVE \A s \in Segs : tomb[s] # 0 => tomb[s] \in Jobs
BY DEF TypeOK, Jobs

LEMMA TodoType ==
    ASSUME TypeOK PROVE \A i \in todo : i[1] \in Jobs /\ i[2] \in Segs /\ i = <<i[1], i[2]>>
BY DEF TypeOK

LEMMA EligibleType == \A cut : Eligible(cut) \subseteq Segs
BY DEF Eligible, Kept

LEMMA InitType == Init => TypeOK
<1> SUFFICES ASSUME Init PROVE TypeOK
    OBVIOUS
<1>1. N \in Nat
  BY ConstantsAssumption
<1>2. tomb \in [Segs -> 0 .. Len(jobs)] /\ stamp \in [Segs -> Nat]
  BY DEF Init
<1>3. plans \in [Plans -> Plan]
  <2>1. Unknown \in Plan
    BY <1>1 DEF Unknown, Plan
  <2> QED BY <2>1 DEF Init
<1>4. calls \in [Callers -> [plan : 0 .. P, sound : BOOLEAN]]
  BY ConstantsAssumption DEF Init, NoCall
<1>5. worker \in [job : 0 .. Len(jobs), seg : 0 .. N,
                  at : {"idle", "next", "grave", "swapped", "published", "audited"}]
  BY <1>1 DEF Init, Resting
<1>6. jobs \in Seq(Job) /\ audit \in Seq(Jobs \X Segs)
  BY DEF Init
<1>7. guard \in 1 .. N + 1
  BY <1>1 DEF Init
<1> QED BY <1>2, <1>3, <1>4, <1>5, <1>6, <1>7 DEF Init, TypeOK

\* The variables but for jobs and what names them.
Others ==
    /\ stamp \in [Segs -> Nat]
    /\ sick \subseteq Segs /\ repairs \subseteq Segs /\ frozen \subseteq Segs
    /\ guard \in 1 .. N + 1
    /\ live \subseteq Segs
    /\ plans \in [Plans -> Plan]
    /\ calls \in [Callers -> [plan : 0 .. P, sound : BOOLEAN]]
    /\ pending \subseteq Segs
    /\ pc \in {"up", "recover", "down"}
    /\ tail \in BOOLEAN
    /\ changes \in Nat /\ crashes \in Nat

WorkerType ==
    worker \in [job : 0 .. Len(jobs), seg : 0 .. N,
                at : {"idle", "next", "grave", "swapped", "published", "audited"}]

Named ==
    /\ tomb \in [Segs -> 0 .. Len(jobs)]
    /\ graves \subseteq Jobs \X Segs
    /\ jobs \in Seq(Job)
    /\ queue \subseteq Jobs
    /\ todo \subseteq Jobs \X Segs
    /\ audit \in Seq(Jobs \X Segs)
    /\ garbled \subseteq Jobs \X Segs /\ late \subseteq Jobs \X Segs

LEMMA TypeParts == Others' /\ Named' /\ WorkerType' => TypeOK'
BY DEF TypeOK, Others, Named, WorkerType, Jobs

\* Requests and what comes from outside.
LEMMA WorldType == ASSUME TypeOK, World PROVE TypeOK'
<1> USE ConstantsAssumption DEF shields, dirs, orders, work, book, counts, manifest
<1>1. Named' /\ WorkerType'
  <2>1. UNCHANGED <<tomb, graves, work, todo, book, late>>
    BY DEF World, Freeze, Protect, Quarantine, StartRepair, EndRepair, Change
  <2>2. Named /\ WorkerType
    BY DEF TypeOK, Named, WorkerType
  <2> QED BY <2>1, <2>2 DEF Named, WorkerType, Jobs
<1>2. CASE Freeze
  <2>1. Others'
    BY <1>2 DEF Freeze, Freezable, Kept, Change, TypeOK, Others
  <2> QED BY <1>1, <2>1, TypeParts
<1>3. ASSUME NEW b \in 1 .. N + 1, Protect(b) PROVE TypeOK'
  <2>1. Others'
    BY <1>3 DEF Protect, Change, TypeOK, Others
  <2> QED BY <1>1, <2>1, TypeParts
<1>4. ASSUME NEW s \in Segs, Quarantine(s) PROVE TypeOK'
  <2>1. stamp' \in [Segs -> Nat]
    BY <1>4 DEF Quarantine, TypeOK
  <2>2. sick' \subseteq Segs
    BY <1>4 DEF Quarantine, TypeOK
  <2>3. UNCHANGED <<shields, dirs, orders, pending, pc, tail, crashes>> /\ changes' = changes + 1
    BY <1>4 DEF Quarantine, Change
  <2>4. Others'
    BY <2>1, <2>2, <2>3 DEF TypeOK, Others
  <2> QED BY <1>1, <2>4, TypeParts
<1>5. ASSUME NEW s \in Segs, StartRepair(s) PROVE TypeOK'
  BY <1>1, <1>5, TypeParts DEF StartRepair, TypeOK, Others
<1>6. ASSUME NEW s \in Segs, NEW ok \in BOOLEAN, EndRepair(s, ok) PROVE TypeOK'
  <2>1. stamp' \in [Segs -> Nat] /\ sick' \subseteq Segs
    <3>1. CASE ok
      BY <1>6, <3>1 DEF EndRepair, TypeOK
    <3>2. CASE ~ok
      BY <1>6, <3>2 DEF EndRepair, TypeOK
    <3> QED BY <3>1, <3>2
  <2> QED BY <1>1, <1>6, <2>1, TypeParts DEF EndRepair, TypeOK, Others
<1> QED BY <1>2, <1>3, <1>4, <1>5, <1>6 DEF World

LEMMA RequestsType == ASSUME TypeOK, Requests PROVE TypeOK'
<1> USE ConstantsAssumption DEF shields, dirs, orders, work, book, counts, manifest
<1>1. ASSUME NEW p \in Plans, NEW cut \in 1 .. N, Rehearse(p, cut) PROVE TypeOK'
  <2>1. [items |-> Eligible(cut), cut |-> cut, stamps |-> stamp, outcome |-> "open"] \in Plan
    BY EligibleType DEF Plan, TypeOK
  <2>2. plans' \in [Plans -> Plan]
    BY <1>1, <2>1 DEF Rehearse, TypeOK
  <2> QED BY <1>1, <2>2 DEF Rehearse, TypeOK, Jobs
<1>2. ASSUME NEW c \in Callers, NEW p \in Plans, Check(c, p) PROVE TypeOK'
  <2>1. Sound(p) \in BOOLEAN
    BY DEF Sound
  <2>2. [plan |-> p, sound |-> Sound(p)] \in [plan : 0 .. P, sound : BOOLEAN]
    BY <2>1 DEF Plans
  <2>3. calls' \in [Callers -> [plan : 0 .. P, sound : BOOLEAN]]
    BY <1>2, <2>2 DEF Check, TypeOK
  <2> QED BY <1>2, <2>3 DEF Check, TypeOK, Jobs
<1>3. ASSUME NEW c \in Callers, Conclude(c) PROVE TypeOK'
  <2> DEFINE p == calls[c].plan
             new == [plan |-> p, items |-> plans[p].items, done |-> {}, over |-> FALSE]
  <2>1. p \in Plans /\ plans[p] \in Plan
    <3>1. calls[c] \in [plan : 0 .. P, sound : BOOLEAN]
      BY DEF TypeOK
    <3>2. p \in Plans
      BY <1>3, <3>1 DEF Conclude, Plans
    <3> QED BY <3>2 DEF TypeOK
  <2>2. plans[p].items \subseteq Segs /\ new \in Job
    BY <2>1 DEF Plan, Job
  <2>3. calls' \in [Callers -> [plan : 0 .. P, sound : BOOLEAN]]
    BY <1>3 DEF Conclude, TypeOK, NoCall
  <2>4. CASE UNCHANGED <<plans, jobs, pending, queue, late>>
    BY <1>3, <2>3, <2>4 DEF Conclude, TypeOK, Jobs
  <2>5. CASE /\ plans' = [plans EXCEPT ![p].outcome = "refused"]
             /\ UNCHANGED <<jobs, pending, queue, late>>
    <3>1. [plans[p] EXCEPT !.outcome = "refused"] \in Plan
      BY <2>1 DEF Plan
    <3>2. plans' \in [Plans -> Plan]
      BY <2>1, <2>5, <3>1 DEF TypeOK
    <3> QED BY <1>3, <2>3, <2>5, <3>2 DEF Conclude, TypeOK, Jobs
  <2>6. CASE /\ plans' = [plans EXCEPT ![p].outcome = "accepted"]
             /\ jobs' = Append(jobs, new)
             /\ pending' = pending \cup plans[p].items
             /\ queue' = queue \cup {Len(jobs')}
             /\ late' = late \cup ({Len(jobs')} \X (plans[p].items \ Eligible(plans[p].cut)))
    <3>1. [plans[p] EXCEPT !.outcome = "accepted"] \in Plan
      BY <2>1 DEF Plan
    <3>2. plans' \in [Plans -> Plan]
      BY <2>1, <2>6, <3>1 DEF TypeOK
    <3>3. /\ jobs' \in Seq(Job) /\ Len(jobs') = Len(jobs) + 1
          /\ Jobs' = Jobs \cup {Len(jobs')}
      BY <2>2, <2>6, JobAppended DEF TypeOK
    <3>4. tomb' \in [Segs -> 0 .. Len(jobs')]
      <4>1. tomb' = tomb /\ tomb \in [Segs -> 0 .. Len(jobs)]
        BY <1>3 DEF Conclude, TypeOK
      <4>2. 0 .. Len(jobs) \subseteq 0 .. Len(jobs')
        BY <3>3
      <4> QED BY <4>1, <4>2
    <3>5. worker' \in [job : 0 .. Len(jobs'), seg : 0 .. N,
                       at : {"idle", "next", "grave", "swapped", "published", "audited"}]
      BY <1>3, <3>3 DEF Conclude, TypeOK
    <3>6. audit' \in Seq(Jobs' \X Segs)
      BY <1>3, <3>3, SeqGrows DEF Conclude, TypeOK
    <3>7. UNCHANGED <<manifest, shields, dirs, worker, pc, todo, book, counts>>
      BY <1>3 DEF Conclude
    <3>8. Others'
      <4>1. pending' \subseteq Segs
        BY <2>2, <2>6 DEF TypeOK, Job
      <4>2. calls' \in [Callers -> [plan : 0 .. P, sound : BOOLEAN]]
        BY <2>3
      <4> QED BY <3>2, <3>7, <4>1, <4>2 DEF TypeOK, Others
    <3>9. late' \subseteq Jobs' \X Segs /\ queue' \subseteq Jobs'
      BY <2>6, <3>3, EligibleType, <2>2 DEF TypeOK, Jobs
    <3>10. Named'
      BY <3>3, <3>4, <3>6, <3>7, <3>9 DEF TypeOK, Named
    <3> QED BY <3>5, <3>8, <3>10, TypeParts DEF WorkerType
  <2> QED BY <1>3, <2>4, <2>5, <2>6 DEF Conclude
<1> QED BY <1>1, <1>2, <1>3 DEF Requests

LEMMA EvictingType == ASSUME TypeOK, WorkerInv, Evicting PROVE TypeOK'
<1> USE ConstantsAssumption DEF shields, dirs, orders, work, book, counts, manifest
<1>0. N \in Nat /\ Segs \subseteq 0 .. N
  BY DEF Segs
<1>1. CASE Take
  <2>1. PICK j \in queue : queue' = queue \ {j} /\ worker' = [job |-> j, seg |-> 0, at |-> "next"]
    BY <1>1 DEF Take
  <2>2. j \in 0 .. Len(jobs)
    BY DEF TypeOK, Jobs
  <2>3. worker' \in [job : 0 .. Len(jobs), seg : 0 .. N,
                     at : {"idle", "next", "grave", "swapped", "published", "audited"}]
    BY <1>0, <2>1, <2>2
  <2>4. queue' \subseteq Jobs
    BY <2>1 DEF TypeOK
  <2>5. UNCHANGED <<manifest, shields, dirs, orders, jobs, pending, pc, todo, book, late, counts>>
    BY <1>1 DEF Take
  <2> QED BY <2>3, <2>4, <2>5 DEF TypeOK, Jobs
<1>2. CASE Dig
  <2>1. worker.job \in Jobs
    BY <1>2 DEF Dig, WorkerInv
  <2>2. PICK s \in Left(worker.job) :
              /\ worker' = [worker EXCEPT !.seg = s, !.at = "grave"]
              /\ graves' = graves \cup {<<worker.job, s>>}
    BY <1>2 DEF Dig
  <2>3. s \in Segs
    BY <2>1, JobsFacts
  <2>4. WorkerType'
    BY <1>0, <1>2, <2>2, <2>3 DEF Dig, TypeOK, WorkerType
  <2>5. graves' \subseteq Jobs \X Segs
    BY <2>1, <2>2, <2>3 DEF TypeOK
  <2> QED BY <1>2, <2>4, <2>5 DEF Dig, TypeOK, WorkerType, Jobs
<1>3. CASE Swap
  <2>1. WorkerType'
    BY <1>3 DEF Swap, TypeOK, WorkerType
  <2> QED BY <1>3, <2>1 DEF Swap, TypeOK, WorkerType, Jobs
<1>4. CASE SwapFails
  <2>1. WorkerType'
    BY <1>0, <1>4 DEF SwapFails, Resting, TypeOK, WorkerType
  <2>2. Rebuilt(jobs) \subseteq Segs
    BY JobsFacts
  <2> QED BY <1>4, <2>1, <2>2 DEF SwapFails, TypeOK, WorkerType, Jobs
<1>5. CASE Publish
  <2>1. worker.job \in 0 .. Len(jobs)
    BY DEF TypeOK
  <2>2. tomb' \in [Segs -> 0 .. Len(jobs)]
    BY <1>5, <2>1 DEF Publish, TypeOK
  <2>3. WorkerType'
    BY <1>5 DEF Publish, TypeOK, WorkerType
  <2> QED BY <1>5, <2>2, <2>3 DEF Publish, TypeOK, WorkerType, Jobs
<1>6. CASE Audit
  <2> DEFINE line == <<tomb[worker.seg], worker.seg>>
  <2>1. worker.job \in Jobs /\ worker.seg \in Segs
    BY <1>6, JobsFacts DEF Audit, WorkerInv
  <2>2. line \in Jobs \X Segs
    BY <1>6, <2>1 DEF Audit, WorkerInv, TypeOK, Jobs
  <2>3. /\ jobs' \in Seq(Job) /\ Len(jobs') = Len(jobs) /\ Jobs' = Jobs
    <3>1. jobs' = [jobs EXCEPT ![worker.job].done = jobs[worker.job].done \cup {worker.seg}]
      BY <1>6 DEF Audit
    <3>2. jobs[worker.job].done \cup {worker.seg} \in SUBSET Segs
      BY <2>1, JobsFacts
    <3>3. jobs \in Seq(Job)
      BY DEF TypeOK
    <3> QED BY <2>1, <3>1, <3>2, <3>3, DoneUpdated
  <2>4. audit' \in Seq(Jobs \X Segs) /\ garbled' \subseteq Jobs \X Segs
    <3> HIDE DEF line
    <3>1. audit \in Seq(Jobs \X Segs) /\ garbled \subseteq Jobs \X Segs
      BY DEF TypeOK
    <3>2. \/ audit' = audit /\ garbled' = garbled \cup {line}
          \/ audit' = Append(audit, line) /\ garbled' = garbled
      BY <1>6 DEF Audit, line
    <3> QED BY <2>2, <3>1, <3>2, AppendType
  <2>5. WorkerType'
    BY <1>6, <2>3 DEF Audit, TypeOK, WorkerType
  <2> QED BY <1>6, <2>3, <2>4, <2>5 DEF Audit, TypeOK, WorkerType
<1>7. CASE Bury
  <2>1. WorkerType'
    <3>1. CASE pc = "up"
      <4>1. worker' = [worker EXCEPT !.seg = 0, !.at = "next"]
        BY <1>7, <3>1 DEF Bury
      <4>2. WorkerType /\ jobs' = jobs /\ 0 \in 0 .. N
        BY <1>0, <1>7 DEF Bury, TypeOK, WorkerType
      <4> QED BY <4>1, <4>2 DEF WorkerType
    <3>2. CASE pc # "up"
      <4>1. worker' = Resting
        BY <1>7, <3>2 DEF Bury
      <4> QED BY <1>0, <1>7, <4>1 DEF Bury, Resting, TypeOK, WorkerType
    <3> QED BY <3>1, <3>2
  <2> QED BY <1>7, <2>1 DEF Bury, TypeOK, WorkerType, Jobs
<1>8. CASE Finish
  <2>1. worker.job \in Jobs
    BY <1>8 DEF Finish, WorkerInv
  <2>2. /\ jobs' \in Seq(Job) /\ Len(jobs') = Len(jobs) /\ Jobs' = Jobs
    BY <1>8, <2>1, Finished DEF TypeOK, Finish
  <2>3. WorkerType'
    BY <1>0, <1>8 DEF Finish, Resting, WorkerType
  <2>4. Rebuilt(jobs') \subseteq Segs
    BY <2>2, RebuiltType
  <2> QED BY <1>8, <2>2, <2>3, <2>4 DEF Finish, TypeOK, WorkerType
<1> QED BY <1>1, <1>2, <1>3, <1>4, <1>5, <1>6, <1>7, <1>8 DEF Evicting

LEMMA RestartsType == ASSUME TypeOK, WorkerInv, Recovering \/ Crash PROVE TypeOK'
<1> USE ConstantsAssumption DEF shields, dirs, orders, work, book, counts, manifest
<1>0. N \in Nat /\ Segs \subseteq 0 .. N
  BY DEF Segs
<1>1. CASE Crash
  <2>1. WorkerType'
    BY <1>0, <1>1 DEF Crash, Resting, WorkerType
  <2>2. Unknown \in Plan
    BY <1>0 DEF Unknown, Plan
  <2>3. plans' \in [Plans -> Plan]
    BY <1>1, <2>2 DEF Crash, TypeOK
  <2>4. calls' \in [Callers -> [plan : 0 .. P, sound : BOOLEAN]]
    BY <1>1 DEF Crash, NoCall
  <2>5. tail' \in BOOLEAN
    BY <1>1 DEF Crash, TypeOK
  <2>6. /\ UNCHANGED <<manifest, shields, dirs, jobs, audit, garbled, late, changes>>
        /\ pc' = "down" /\ pending' = {} /\ queue' = {} /\ todo' = {} /\ crashes' = crashes + 1
    BY <1>1 DEF Crash
  <2>7. Others'
    BY <2>3, <2>4, <2>5, <2>6 DEF TypeOK, Others
  <2>8. Named'
    BY <2>6 DEF TypeOK, Named, Jobs
  <2> QED BY <2>1, <2>7, <2>8, TypeParts
<1>2. CASE Restart
  BY <1>2 DEF Restart, TypeOK, Jobs
<1>3. ASSUME NEW j \in Jobs, NEW s \in Segs, RecoverItem(j, s) PROVE TypeOK'
  <2>1. /\ jobs' \in Seq(Job) /\ Len(jobs') = Len(jobs) /\ Jobs' = Jobs
    <3>0. /\ jobs \in Seq(Job)
          /\ jobs[j].done \ {s} \in SUBSET Segs /\ jobs[j].done \cup {s} \in SUBSET Segs
      BY JobsFacts DEF TypeOK
    <3>1. CASE jobs' = [jobs EXCEPT ![j].done = jobs[j].done \ {s}]
      BY <3>0, <3>1, DoneUpdated
    <3>2. CASE jobs' = [jobs EXCEPT ![j].done = jobs[j].done \cup {s}]
      BY <3>0, <3>2, DoneUpdated
    <3> QED BY <1>3, <3>1, <3>2 DEF RecoverItem
  <2>2. Phase(j, s) \in {"swapped", "published", "audited"}
    BY DEF Phase
  <2>3. WorkerType'
    <3>1. j \in 0 .. Len(jobs) /\ s \in 0 .. N
      BY <1>0 DEF TypeOK, Jobs
    <3>2. worker' = worker \/ worker' = [job |-> j, seg |-> s, at |-> Phase(j, s)]
      BY <1>3 DEF RecoverItem
    <3>3. WorkerType
      BY DEF TypeOK, WorkerType
    <3> QED BY <2>1, <2>2, <3>1, <3>2, <3>3 DEF WorkerType
  <2>4. todo' \subseteq Jobs \X Segs /\ graves' \subseteq Jobs \X Segs
    BY <1>3 DEF RecoverItem, TypeOK
  <2> QED BY <1>3, <2>1, <2>3, <2>4 DEF RecoverItem, TypeOK, WorkerType
<1>4. CASE Recovered
  <2>1. /\ jobs' \in Seq(Job) /\ Len(jobs') = Len(jobs) /\ Jobs' = Jobs
    BY <1>4, Progressed DEF TypeOK, Recovered
  <2>2. WorkerType'
    BY <1>4, <2>1 DEF Recovered, TypeOK, WorkerType
  <2>3. Rebuilt(jobs') \subseteq Segs /\ Queued(jobs') \subseteq Jobs'
    BY <2>1, RebuiltType DEF Queued, Jobs
  <2> QED BY <1>4, <2>1, <2>2, <2>3 DEF Recovered, TypeOK, WorkerType
<1> QED BY <1>1, <1>2, <1>3, <1>4 DEF Recovering

LEMMA StutterType == ASSUME TypeOK, UNCHANGED vars PROVE TypeOK'
BY DEF vars, manifest, shields, dirs, orders, work, book, counts, TypeOK, Jobs

LEMMA NextType == IndInv /\ [Next]_vars => TypeOK'
BY WorldType, RequestsType, EvictingType, RestartsType, StutterType DEF Next, IndInv

-----------------------------------------------------------------------------
(***************************************************************************)
(* The inductive invariant.                                                *)
(***************************************************************************)

\* While the service is up nothing is due: what is done has its line, what is
\* not is pending, and only the worker is between two phases.
LEMMA UpFacts ==
    ASSUME IndInv, pc = "up"
    PROVE  /\ \A j \in Jobs : \A s \in jobs[j].done : tomb[s] # 0 /\ <<tomb[s], s>> \in Lines
           /\ \A j \in Jobs : \A s \in jobs[j].items : tomb[s] # 0 \/ s \in pending
           /\ \A s \in Segs : s \notin live /\ tomb[s] = 0 => worker.at = "swapped" /\ worker.seg = s
<1>1. \A j, s : ~Due(j, s)
  BY DEF Due
<1>2. \A j \in Jobs : \A s \in jobs[j].done : tomb[s] # 0 /\ <<tomb[s], s>> \in Lines
  BY <1>1 DEF IndInv, JobInv, Accounted
<1>3. \A j \in Jobs : \A s \in jobs[j].items : tomb[s] # 0 \/ s \in pending
  BY <1>2 DEF IndInv, JobInv, Accounted, Left
<1> QED BY <1>1, <1>2, <1>3 DEF IndInv, EvictionInv

\* What is asked of segments without a directory, when only progress is made.
LEMMA EvictionMoves ==
    ASSUME IndInv, UNCHANGED <<tomb, live>>, Jobs' = Jobs,
           \A j \in Jobs : jobs'[j].items = jobs[j].items,
           \A s \in Segs : s \notin live /\ tomb[s] = 0 =>
               \/ worker'.at = "swapped" /\ worker'.seg = s
               \/ \E j \in Jobs : s \in jobs[j].items /\ Due(j, s)'
    PROVE  EvictionInv'
<1>1. \A s \in Segs : tomb[s] # 0 => tomb[s] \in Jobs
  BY TombType DEF IndInv
<1>2. \A s \in Segs : tomb'[s] # 0 => s \notin live' /\ s \in jobs'[tomb'[s]].items
  BY <1>1 DEF IndInv, EvictionInv
<1>3. \A s \in Segs : s \notin live' => \E j \in Jobs' : s \in jobs'[j].items
  BY DEF IndInv, EvictionInv
<1> QED BY <1>2, <1>3 DEF EvictionInv

LEMMA WorkerFacts ==
    ASSUME IndInv, worker.at # "idle"
    PROVE  /\ pc # "down" /\ worker.job \in Jobs
           /\ worker.at \in {"next", "grave"} => pc = "up" /\ todo = {}
           /\ worker.at # "next" =>
                 /\ worker.seg \in Segs /\ worker.seg \in jobs[worker.job].items
                 /\ ~jobs[worker.job].over
<1>1. worker.at \in {"next", "grave", "swapped", "published", "audited"}
  BY DEF IndInv, TypeOK
<1>2. pc \in {"up", "recover", "down"}
  BY DEF IndInv, TypeOK
<1>3. \A j \in Jobs : jobs[j].items \subseteq Segs
  BY JobsFacts DEF IndInv
<1> QED BY <1>1, <1>2, <1>3 DEF IndInv, WorkerInv

LEMMA InitInv == Init => IndInv
<1> SUFFICES ASSUME Init PROVE IndInv
    OBVIOUS
<1>1. TypeOK
  BY InitType
<1>2. Jobs = {} /\ DOMAIN audit = {} /\ Lines = {}
  BY DEF Init, Jobs, Lines
<1>3. WorkerInv
  BY DEF Init, WorkerInv, Resting
<1>4. EvictionInv
  BY DEF Init, EvictionInv
<1>5. JobInv /\ PlanInv /\ LateInv
  BY <1>2 DEF JobInv, PlanInv, LateInv, OneJobPerPlan
<1>6. AuditInv
  BY <1>2 DEF Init, AuditInv, AuditedOnce, Resting
<1> QED BY <1>1, <1>3, <1>4, <1>5, <1>6 DEF IndInv

\* What leaves the evictions alone and freezes only what is not pending.
LEMMA QuietKeeps ==
    ASSUME IndInv, TypeOK',
           UNCHANGED <<tomb, live, jobs, pending, worker, pc, todo, audit, garbled, late>>,
           frozen' = frozen \/ (pc = "up" /\ frozen' = frozen \cup Freezable),
           \A p \in Plans : plans[p].outcome = "accepted" => plans'[p].outcome = "accepted"
    PROVE  IndInv'
<1>1. WorkerInv'
  BY DEF IndInv, WorkerInv, Jobs
<1>2. EvictionInv'
  BY DEF IndInv, EvictionInv, Jobs, Due
<1>3. JobInv'
  BY DEF IndInv, JobInv, Accounted, Jobs, Due, At, Lines, Left
<1>4. PlanInv'
  BY JobsFacts DEF IndInv, PlanInv, OneJobPerPlan, Jobs
<1>5. LateInv'
  <2>1. Jobs' = Jobs /\ \A s : IsLate(s)' <=> IsLate(s)
    BY DEF Jobs, IsLate
  <2>2. ASSUME NEW j \in Jobs, NEW s \in jobs[j].items \cap frozen' PROVE IsLate(s)
    <3>1. CASE s \in frozen
      BY <3>1 DEF IndInv, LateInv
    <3>2. CASE s \notin frozen
      <4>1. pc = "up" /\ s \in Freezable
        BY <2>2, <3>2
      <4>2. tomb[s] = 0 /\ s \notin pending
        BY <4>1 DEF Freezable, Kept
      <4> QED BY <4>1, <4>2, UpFacts
    <3> QED BY <3>1, <3>2
  <2> QED BY <2>1, <2>2 DEF IndInv, LateInv
<1>6. AuditInv'
  BY DEF IndInv, AuditInv, AuditedOnce, Jobs, Lines, IsLate
<1> QED BY <1>1, <1>2, <1>3, <1>4, <1>5, <1>6 DEF IndInv

LEMMA WorldKeeps == ASSUME IndInv, TypeOK', World PROVE IndInv'
<1> USE DEF shields, dirs, orders, work, book, counts, manifest
<1>1. /\ UNCHANGED <<tomb, live, jobs, pending, worker, pc, todo, audit, garbled, late, plans>>
      /\ frozen' = frozen \/ (pc = "up" /\ frozen' = frozen \cup Freezable)
  BY DEF World, Freeze, Protect, Quarantine, StartRepair, EndRepair, Change
<1> QED BY <1>1, QuietKeeps

\* A plan that is accepted: an item that another job has, or a freeze refers
\* to, is not eligible any more.
LEMMA AcceptKeeps ==
    ASSUME IndInv, TypeOK', NEW p \in Plans, pc = "up", StillOpen(p),
           plans' = [plans EXCEPT ![p].outcome = "accepted"],
           jobs' = Append(jobs, [plan |-> p, items |-> plans[p].items, done |-> {}, over |-> FALSE]),
           pending' = pending \cup plans[p].items,
           late' = late \cup ({Len(jobs')} \X (plans[p].items \ Eligible(plans[p].cut))),
           UNCHANGED <<tomb, frozen, live, worker, pc, todo, audit, garbled>>
    PROVE  IndInv'
<1> PICK n : n = Len(jobs')
    OBVIOUS
<1> PICK items : items = plans[p].items
    OBVIOUS
<1> DEFINE new == [plan |-> p, items |-> items, done |-> {}, over |-> FALSE]
<1>1. new \in Job
  BY DEF IndInv, TypeOK, Plan, Job
<1>2. /\ Jobs' = Jobs \cup {n} /\ n \notin Jobs /\ jobs'[n] = new
      /\ \A j \in Jobs : jobs'[j] = jobs[j]
  <2>1. jobs \in Seq(Job)
    BY DEF IndInv, TypeOK
  <2> QED BY <1>1, <2>1, JobAppended
<1>3. /\ jobs'[n].plan = p /\ jobs'[n].items = items /\ jobs'[n].done = {} /\ jobs'[n].over = FALSE
  BY <1>2
<1> HIDE DEF new
<1>4. \A s : IsLate(s) => IsLate(s)'
  BY <1>2 DEF IsLate
<1>5. ASSUME NEW s \in items, s \notin Eligible(plans[p].cut) PROVE IsLate(s)'
  BY <1>2, <1>5 DEF IsLate
<1>6. WorkerInv'
  BY <1>2 DEF IndInv, WorkerInv, TypeOK
<1>7. EvictionInv'
  <2>1. \A s \in Segs : tomb[s] # 0 => tomb[s] \in Jobs
    BY TombType DEF IndInv
  <2>2. \A j \in Jobs : \A s : Due(j, s)' <=> Due(j, s)
    BY <1>2 DEF Due
  <2> QED BY <1>2, <2>1, <2>2 DEF IndInv, EvictionInv
<1>8. JobInv'
  <2>1. \A j \in Jobs : \A s : (Due(j, s)' <=> Due(j, s)) /\ (At(j, s)' <=> At(j, s))
    BY <1>2 DEF Due, At
  <2>2. Lines' = Lines
    BY DEF Lines
  <2>3. \A j \in Jobs : Left(j)' = Left(j)
    BY <1>2 DEF Left
  <2>4. ASSUME NEW j \in Jobs PROVE Accounted(j)'
    <3>1. Accounted(j)
      BY DEF IndInv, JobInv
    <3> QED BY <1>2, <2>1, <2>2, <2>3, <3>1 DEF Accounted
  <2>5. Accounted(n)'
    BY <1>3 DEF Accounted, Left
  <2> QED BY <1>2, <2>4, <2>5 DEF JobInv
<1>9. PlanInv'
  <2>1. /\ plans'[p].outcome = "accepted"
        /\ \A q \in Plans : plans[q].outcome = "accepted" => plans'[q].outcome = "accepted"
    BY DEF IndInv, TypeOK, Plan
  <2>2. \A j \in Jobs : jobs[j].plan \in Plans /\ jobs[j].plan # p
    BY JobsFacts DEF StillOpen, IndInv, PlanInv
  <2>3. \A j \in Jobs : jobs'[j].plan = jobs[j].plan /\ plans[jobs[j].plan].outcome = "accepted"
    BY <1>2 DEF IndInv, PlanInv
  <2>4. \A j \in Jobs' : plans'[jobs'[j].plan].outcome = "accepted"
    BY <1>2, <1>3, <2>1, <2>2, <2>3
  <2>5. \A j, k \in Jobs' : jobs'[j].plan = jobs'[k].plan => j = k
    <3>0. \A j, k \in Jobs : jobs[j].plan = jobs[k].plan => j = k
      BY DEF IndInv, PlanInv, OneJobPerPlan
    <3>1. ASSUME NEW j \in Jobs, NEW k \in Jobs, jobs'[j].plan = jobs'[k].plan PROVE j = k
      <4>1. jobs'[j].plan = jobs[j].plan /\ jobs'[k].plan = jobs[k].plan
        BY <2>3
      <4> QED BY <3>0, <3>1, <4>1
    <3>2. \A j \in Jobs : jobs'[j].plan # jobs'[n].plan
      BY <1>3, <2>2, <2>3
    <3> SUFFICES ASSUME NEW j \in Jobs', NEW k \in Jobs', jobs'[j].plan = jobs'[k].plan
                 PROVE  j = k
        OBVIOUS
    <3>3. (j \in Jobs \/ j = n) /\ (k \in Jobs \/ k = n)
      BY <1>2
    <3>4. CASE j \in Jobs /\ k \in Jobs
      BY <3>1, <3>4
    <3>5. CASE j = n \/ k = n
      BY <3>2, <3>3, <3>5
    <3> QED BY <3>3, <3>4, <3>5
  <2> QED BY <2>4, <2>5 DEF PlanInv, OneJobPerPlan
<1>10. LateInv'
  <2>1. ASSUME NEW j \in Jobs, NEW s \in jobs[j].items, s \in items PROVE IsLate(s)'
    <3>1. tomb[s] # 0 \/ s \in pending
      BY <2>1, UpFacts
    <3>2. s \notin Eligible(plans[p].cut)
      BY <3>1 DEF Eligible, Kept
    <3> QED BY <1>5, <2>1, <3>2
  <2>2. ASSUME NEW s \in items, s \in frozen PROVE IsLate(s)'
    <3>1. s \notin Eligible(plans[p].cut)
      BY <2>2 DEF Eligible
    <3> QED BY <1>5, <2>2, <3>1
  <2>3. \A j, k \in Jobs' : \A s \in jobs'[j].items \cap jobs'[k].items : j # k => IsLate(s)'
    <3> SUFFICES ASSUME NEW j \in Jobs', NEW k \in Jobs',
                        NEW s \in jobs'[j].items \cap jobs'[k].items, j # k
                 PROVE  IsLate(s)'
        OBVIOUS
    <3>1. CASE j \in Jobs /\ k \in Jobs
      BY <1>2, <1>4, <3>1 DEF IndInv, LateInv
    <3>2. CASE j = n /\ k \in Jobs
      BY <1>2, <1>3, <2>1, <3>2
    <3>3. CASE j \in Jobs /\ k = n
      BY <1>2, <1>3, <2>1, <3>3
    <3> QED BY <1>2, <3>1, <3>2, <3>3
  <2>4. \A j \in Jobs' : \A s \in jobs'[j].items \cap frozen' : IsLate(s)'
    BY <1>2, <1>3, <1>4, <2>2 DEF IndInv, LateInv
  <2> QED BY <2>3, <2>4 DEF LateInv
<1>11. AuditInv'
  BY <1>4 DEF IndInv, AuditInv, AuditedOnce, Lines
<1> QED BY <1>6, <1>7, <1>8, <1>9, <1>10, <1>11 DEF IndInv

LEMMA RequestsKeep == ASSUME IndInv, TypeOK', Requests PROVE IndInv'
<1> USE DEF shields, dirs, orders, work, book, counts, manifest
<1>1. ASSUME NEW p \in Plans, NEW cut \in 1 .. N, Rehearse(p, cut) PROVE IndInv'
  <2>1. plans[p].outcome = "none"
    BY <1>1 DEF Rehearse, Unknown
  <2>2. \A q \in Plans : plans[q].outcome = "accepted" => plans'[q].outcome = "accepted"
    BY <1>1, <2>1 DEF Rehearse, IndInv, TypeOK
  <2> QED BY <1>1, <2>2, QuietKeeps DEF Rehearse
<1>2. ASSUME NEW c \in Callers, NEW p \in Plans, Check(c, p) PROVE IndInv'
  BY <1>2, QuietKeeps DEF Check
<1>3. ASSUME NEW c \in Callers, Conclude(c) PROVE IndInv'
  <2> DEFINE p == calls[c].plan
  <2>1. p \in Plans
    <3>1. calls[c] \in [plan : 0 .. P, sound : BOOLEAN]
      BY DEF IndInv, TypeOK
    <3> QED BY <1>3, <3>1 DEF Conclude, Plans
  <2>2. CASE UNCHANGED <<plans, jobs, pending, queue, late>>
    BY <1>3, <2>2, QuietKeeps DEF Conclude
  <2>3. CASE StillOpen(p) /\ plans' = [plans EXCEPT ![p].outcome = "refused"]
             /\ UNCHANGED <<jobs, pending, queue, late>>
    <3>1. \A q \in Plans : plans[q].outcome = "accepted" => plans'[q].outcome = "accepted"
      BY <2>1, <2>3 DEF StillOpen, IndInv, TypeOK
    <3> QED BY <1>3, <2>3, <3>1, QuietKeeps DEF Conclude
  <2>4. CASE StillOpen(p) /\ plans' = [plans EXCEPT ![p].outcome = "accepted"]
             /\ jobs' = Append(jobs, [plan |-> p, items |-> plans[p].items, done |-> {}, over |-> FALSE])
             /\ pending' = pending \cup plans[p].items
             /\ late' = late \cup ({Len(jobs')} \X (plans[p].items \ Eligible(plans[p].cut)))
    <3>1. pc = "up" /\ UNCHANGED <<tomb, frozen, live, worker, pc, todo, audit, garbled>>
      BY <1>3 DEF Conclude
    <3> HIDE DEF p
    <3> QED BY <2>1, <2>4, <3>1, AcceptKeeps
  <2> QED BY <1>3, <2>2, <2>3, <2>4 DEF Conclude
<1> QED BY <1>1, <1>2, <1>3 DEF Requests
-----------------------------------------------------------------------------
(***************************************************************************)
(* The steps of the worker.                                                *)
(***************************************************************************)

\* A step that changes nothing but where the worker is.
LEMMA WorkerMoves ==
    ASSUME IndInv, TypeOK', WorkerInv', pc = "up" \/ worker.at \in {"idle", "audited"},
           worker.at # "swapped", worker.at # "published", worker'.at \notin {"published", "audited"},
           UNCHANGED <<tomb, frozen, live, jobs, plans, pc, todo, audit, garbled, late>>,
           pending' = pending \/ pending' = Rebuilt(jobs)
    PROVE  IndInv'
<1>1. Jobs' = Jobs /\ Lines' = Lines /\ \A s : IsLate(s)' <=> IsLate(s)
  BY DEF Jobs, Lines, IsLate
<1>2. \A j, s : (Due(j, s)' <=> Due(j, s)) /\ ~At(j, s)
  BY DEF Due, At
<1>3. EvictionInv'
  BY <1>1, <1>2 DEF IndInv, EvictionInv
<1>4. JobInv'
  <2> SUFFICES ASSUME NEW j \in Jobs PROVE Accounted(j)'
      BY <1>1 DEF JobInv
  <2>1. Accounted(j)
    BY DEF IndInv, JobInv
  <2>2. pc = "up" => \A s \in Left(j) : s \in pending' \/ tomb[s] # 0
    <3>1. CASE pending' = pending
      BY <2>1, <3>1 DEF Accounted
    <3>2. CASE pending' = Rebuilt(jobs)
      BY <2>1, <3>2, JobsFacts DEF Accounted, Rebuilt, Left, IndInv
    <3> QED BY <3>1, <3>2
  <2> QED BY <1>1, <1>2, <2>1, <2>2 DEF Accounted, Left
<1>5. PlanInv' /\ LateInv'
  BY <1>1 DEF IndInv, PlanInv, LateInv, OneJobPerPlan
<1>6. AuditInv'
  BY <1>1 DEF IndInv, AuditInv, AuditedOnce
<1> QED BY <1>3, <1>4, <1>5, <1>6 DEF IndInv

LEMMA TakeKeeps == ASSUME IndInv, TypeOK', Take PROVE IndInv'
<1> USE DEF shields, dirs, orders, work, book, counts, manifest
<1>1. PICK j \in queue : worker' = [job |-> j, seg |-> 0, at |-> "next"]
  BY DEF Take
<1>2. j \in Jobs
  BY DEF IndInv, TypeOK
<1>3. WorkerInv'
  BY <1>1, <1>2 DEF Take, IndInv, WorkerInv, Jobs
<1> QED BY <1>1, <1>3, WorkerMoves DEF Take

LEMMA DigKeeps == ASSUME IndInv, TypeOK', Dig PROVE IndInv'
<1> USE DEF shields, dirs, orders, work, book, counts, manifest
<1>1. PICK s \in Left(worker.job) : worker' = [worker EXCEPT !.seg = s, !.at = "grave"]
  BY DEF Dig
<1>2. worker.at = "next" /\ pc = "up" /\ worker.job \in Jobs
  BY WorkerFacts DEF Dig
<1>3. worker'.at = "grave" /\ worker'.seg = s /\ worker'.job = worker.job
  BY <1>1 DEF IndInv, TypeOK
<1>4. s \in jobs[worker.job].items /\ ~jobs[worker.job].over
  BY <1>1, <1>2 DEF IndInv, JobInv, Accounted, Left
<1>5. WorkerInv'
  BY <1>2, <1>3, <1>4 DEF Dig, IndInv, WorkerInv, Jobs
<1> QED BY <1>2, <1>3, <1>5, WorkerMoves DEF Dig

LEMMA SwapFailsKeeps == ASSUME IndInv, TypeOK', SwapFails PROVE IndInv'
<1> USE DEF shields, dirs, orders, work, book, counts, manifest
<1>1. pc = "up" /\ worker.at = "grave"
  BY WorkerFacts DEF SwapFails
<1>2. WorkerInv'
  BY <1>1 DEF SwapFails, Resting, IndInv, WorkerInv, Jobs
<1> QED BY <1>1, <1>2, WorkerMoves DEF SwapFails, Resting

LEMMA BuryKeeps == ASSUME IndInv, TypeOK', Bury PROVE IndInv'
<1> USE DEF shields, dirs, orders, work, book, counts, manifest
<1>1. worker.at = "audited" /\ pc # "down" /\ worker.job \in Jobs
  BY WorkerFacts DEF Bury
<1>2. CASE pc = "up"
  <2>1. worker' = [worker EXCEPT !.seg = 0, !.at = "next"]
    BY <1>2 DEF Bury
  <2>2. worker'.at = "next" /\ worker'.seg = 0 /\ worker'.job = worker.job
    BY <2>1 DEF IndInv, TypeOK
  <2>3. WorkerInv'
    BY <1>1, <1>2, <2>2 DEF Bury, IndInv, WorkerInv, Jobs
  <2> QED BY <1>1, <2>2, <2>3, WorkerMoves DEF Bury
<1>3. CASE pc # "up"
  <2>1. worker' = Resting
    BY <1>3 DEF Bury
  <2>2. WorkerInv'
    BY <1>1, <2>1 DEF Bury, Resting, IndInv, WorkerInv, Jobs
  <2> QED BY <1>1, <2>1, <2>2, WorkerMoves DEF Bury, Resting
<1> QED BY <1>2, <1>3

\* The directory of an item that was in place: it has no tombstone yet.
LEMMA SwapKeeps == ASSUME IndInv, TypeOK', Swap PROVE IndInv'
<1> USE DEF shields, dirs, orders, work, book, counts, manifest
<1>1. /\ pc = "up" /\ worker.at = "grave" /\ worker.job \in Jobs /\ worker.seg \in Segs
      /\ worker.seg \in jobs[worker.job].items /\ ~jobs[worker.job].over
  BY WorkerFacts DEF Swap
<1>2. worker'.at = "swapped" /\ worker'.seg = worker.seg /\ worker'.job = worker.job
  BY DEF Swap, IndInv, TypeOK
<1>3. /\ live' = live \ {worker.seg} /\ worker.seg \in live
      /\ UNCHANGED <<tomb, frozen, jobs, plans, pending, pc, todo, audit, garbled, late>>
  BY DEF Swap
<1>4. Jobs' = Jobs /\ Lines' = Lines /\ \A s : IsLate(s)' <=> IsLate(s)
  BY <1>3 DEF Jobs, Lines, IsLate
<1>5. tomb[worker.seg] = 0
  BY <1>1, <1>3 DEF IndInv, EvictionInv
<1>6. WorkerInv'
  BY <1>1, <1>2, <1>3, <1>4, <1>5 DEF IndInv, WorkerInv
<1>7. EvictionInv'
  BY <1>1, <1>2, <1>3, <1>4, UpFacts DEF IndInv, EvictionInv
<1>8. JobInv'
  BY <1>1, <1>3, <1>4, UpFacts DEF IndInv, JobInv, Accounted, Left
<1>9. PlanInv' /\ LateInv'
  BY <1>3, <1>4 DEF IndInv, PlanInv, LateInv, OneJobPerPlan
<1>10. AuditInv'
  BY <1>2, <1>3, <1>4 DEF IndInv, AuditInv, AuditedOnce
<1> QED BY <1>6, <1>7, <1>8, <1>9, <1>10 DEF IndInv

\* The first tombstone of a segment: the audit has no line for it yet.
LEMMA PublishKeeps == ASSUME IndInv, TypeOK', Publish PROVE IndInv'
<1> USE DEF shields, dirs, orders, work, book, counts, manifest
<1> PICK w : w = worker.job
    OBVIOUS
<1> PICK v : v = worker.seg
    OBVIOUS
<1>1. /\ pc # "down" /\ worker.at = "swapped" /\ w \in Jobs /\ v \in Segs
      /\ v \in jobs[w].items /\ ~jobs[w].over
  BY WorkerFacts DEF Publish
<1>2. worker'.at = "published" /\ worker'.seg = v /\ worker'.job = w
  BY DEF Publish, IndInv, TypeOK
<1>3. /\ pending' = pending \ {v}
      /\ UNCHANGED <<frozen, live, jobs, plans, pc, todo, audit, garbled, late>>
  BY DEF Publish
<1>4. /\ tomb[v] = 0 /\ tomb'[v] = w /\ w # 0 /\ v \notin live
      /\ \A s \in Segs : s # v => tomb'[s] = tomb[s]
  <2>1. tomb[v] = 0 /\ v \notin live
    BY <1>1 DEF IndInv, WorkerInv
  <2>2. tomb' = [tomb EXCEPT ![v] = w] /\ tomb \in [Segs -> 0 .. Len(jobs)]
    BY DEF Publish, IndInv, TypeOK
  <2>3. w # 0
    BY <1>1 DEF Jobs
  <2> QED BY <1>1, <2>1, <2>2, <2>3
<1>5. Jobs' = Jobs /\ Lines' = Lines /\ \A s : IsLate(s)' <=> IsLate(s)
  BY <1>3 DEF Jobs, Lines, IsLate
<1>6. \A l \in Lines : l[1] \in Jobs /\ l[2] \in Segs /\ l[1] # 0 /\ tomb[l[2]] = l[1]
  BY LinesType DEF IndInv, AuditInv
<1>7. WorkerInv'
  BY <1>1, <1>2, <1>3, <1>4, <1>5 DEF IndInv, WorkerInv
<1>8. EvictionInv'
  BY <1>1, <1>2, <1>3, <1>4, <1>5 DEF IndInv, EvictionInv, Due
<1>9. JobInv'
  <2> SUFFICES ASSUME NEW j \in Jobs PROVE Accounted(j)'
      BY <1>5 DEF JobInv
  <2>1. Accounted(j) /\ jobs[j].done \subseteq Segs /\ Left(j) \subseteq Segs
    BY JobsFacts DEF IndInv, JobInv
  <2>2. \A s : (Due(j, s)' <=> Due(j, s)) /\ (At(j, s) => At(j, s)')
    BY <1>1, <1>2, <1>3 DEF Due, At
  <2>3. \A s \in jobs[j].done : tomb[s] # 0 => tomb'[s] = tomb[s]
    BY <1>4, <2>1
  <2>4. pc = "up" => \A s \in Left(j) : s \in pending' \/ tomb'[s] # 0
    BY <1>3, <1>4, <2>1 DEF Accounted
  <2>5. \A s \in jobs[j].done :
          \/ tomb'[s] # 0 /\ <<tomb'[s], s>> \in Lines
          \/ ~jobs[j].over /\ (Due(j, s)' \/ (pc = "recover" /\ At(j, s)'))
    BY <2>1, <2>2, <2>3 DEF Accounted
  <2> QED BY <1>3, <1>5, <2>1, <2>4, <2>5 DEF Accounted, Left
<1>10. PlanInv' /\ LateInv'
  BY <1>3, <1>5 DEF IndInv, PlanInv, LateInv, OneJobPerPlan
<1>11. AuditInv'
  <2>1. \A i \in DOMAIN audit : audit[i] \in Lines
    BY DEF Lines
  <2>2. \A i \in DOMAIN audit : audit[i][2] # v
    BY <1>4, <1>6, <2>1
  <2>3. \A l \in Lines : tomb'[l[2]] = l[1]
    BY <1>4, <1>6
  <2> QED BY <1>2, <1>3, <1>5, <2>2, <2>3 DEF IndInv, AuditInv, AuditedOnce
<1> QED BY <1>7, <1>8, <1>9, <1>10, <1>11 DEF IndInv

\* The line of an eviction: another one could only be of another job, which
\* had the item too.
LEMMA AuditKeeps == ASSUME IndInv, TypeOK', Audit PROVE IndInv'
<1> USE DEF shields, dirs, orders, work, book, counts, manifest
<1> PICK w : w = worker.job
    OBVIOUS
<1> PICK v : v = worker.seg
    OBVIOUS
<1> PICK line : line = <<tomb[v], v>>
    OBVIOUS
<1>1. /\ pc # "down" /\ worker.at = "published" /\ w \in Jobs /\ v \in Segs
      /\ v \in jobs[w].items /\ ~jobs[w].over
  BY WorkerFacts DEF Audit
<1>2. worker'.at = "audited" /\ worker'.seg = v /\ worker'.job = w
  BY DEF Audit, IndInv, TypeOK
<1>3. UNCHANGED <<tomb, frozen, live, plans, pending, pc, todo, late>>
  BY DEF Audit
<1>4. /\ Len(jobs') = Len(jobs) /\ Jobs' = Jobs
      /\ \A j \in Jobs :
            /\ jobs'[j].plan = jobs[j].plan /\ jobs'[j].items = jobs[j].items
            /\ jobs'[j].over = jobs[j].over
            /\ jobs'[j].done = IF j = w THEN jobs[w].done \cup {v} ELSE jobs[j].done
  <2>1. jobs' = [jobs EXCEPT ![w].done = jobs[w].done \cup {v}]
    BY DEF Audit
  <2>2. jobs \in Seq(Job) /\ jobs[w].done \cup {v} \in SUBSET Segs
    BY <1>1, JobsFacts DEF IndInv, TypeOK
  <2> QED BY <1>1, <2>1, <2>2, DoneUpdated
<1>5. \A s : IsLate(s)' <=> IsLate(s)
  BY <1>3, <1>4 DEF IsLate
<1>6. \/ audit' = audit /\ garbled' = garbled \cup {line}
      \/ audit' = Append(audit, line) /\ garbled' = garbled
  BY DEF Audit
<1>7. Lines' = Lines \cup {line}
  <2>1. CASE audit' = audit /\ garbled' = garbled \cup {line}
    BY <2>1 DEF Lines
  <2>2. CASE audit' = Append(audit, line) /\ garbled' = garbled
    <3>1. audit \in Seq(Jobs \X Segs)
      BY DEF IndInv, TypeOK
    <3>2. {audit'[i] : i \in DOMAIN audit'} = {audit[i] : i \in DOMAIN audit} \cup {line}
      BY <2>2, <3>1, RangeAppend
    <3> QED BY <2>2, <3>2 DEF Lines
  <2> QED BY <1>6, <2>1, <2>2
<1>8. tomb[v] # 0 /\ v \notin live
  BY <1>1 DEF IndInv, WorkerInv
<1>9. WorkerInv'
  BY <1>1, <1>2, <1>3, <1>4, <1>8 DEF IndInv, WorkerInv, TypeOK
<1>10. EvictionInv'
  <2>1. \A j \in Jobs : \A s : Due(j, s)' <=> Due(j, s)
    BY <1>3, <1>4 DEF Due
  <2>2. \A s \in Segs : s \notin live /\ tomb[s] = 0 =>
           \E j \in Jobs : s \in jobs[j].items /\ Due(j, s)'
    BY <1>1, <2>1 DEF IndInv, EvictionInv
  <2> QED BY <1>3, <1>4, <2>2, EvictionMoves
<1>11. JobInv'
  <2> SUFFICES ASSUME NEW j \in Jobs PROVE Accounted(j)'
      BY <1>4 DEF JobInv
  <2>1. Accounted(j)
    BY DEF IndInv, JobInv
  <2>2. \A s : (Due(j, s)' <=> Due(j, s)) /\ (At(j, s) => j = w /\ s = v)
    BY <1>3, <1>4 DEF Due, At
  <2>3. ASSUME NEW s \in jobs'[j].done
        PROVE  \/ tomb'[s] # 0 /\ <<tomb'[s], s>> \in Lines'
               \/ ~jobs'[j].over /\ Due(j, s)'
    <3>1. CASE s = v
      BY <1>3, <1>7, <1>8, <3>1
    <3>2. CASE s # v
      <4>1. s \in jobs[j].done
        BY <1>4, <2>3, <3>2
      <4> QED BY <1>3, <1>4, <1>7, <2>1, <2>2, <3>2, <4>1 DEF Accounted
    <3> QED BY <3>1, <3>2
  <2>4. /\ jobs'[j].done \subseteq jobs'[j].items
        /\ jobs'[j].over => jobs'[j].items \subseteq jobs'[j].done
    BY <1>1, <1>4, <2>1 DEF Accounted
  <2>5. pc = "up" => \A s \in Left(j)' : s \in pending \/ tomb[s] # 0
    BY <1>4, <2>1 DEF Accounted, Left
  <2> QED BY <1>3, <2>3, <2>4, <2>5 DEF Accounted
<1>12. PlanInv' /\ LateInv'
  BY <1>3, <1>4, <1>5 DEF IndInv, PlanInv, LateInv, OneJobPerPlan
<1>13. AuditInv'
  <2>1. \A l \in Lines' : tomb'[l[2]] = l[1]
    BY <1>3, <1>7 DEF IndInv, AuditInv
  <2>2. IsLate(v) \/ \A i \in DOMAIN audit : audit[i][2] # v
    BY <1>1 DEF IndInv, AuditInv
  <2>3. AuditedOnce'
    <3>1. CASE audit' = audit
      BY <1>5, <3>1 DEF IndInv, AuditInv, AuditedOnce
    <3>2. CASE audit' = Append(audit, line)
      <4>1. /\ DOMAIN audit' = DOMAIN audit \cup {Len(audit) + 1} /\ audit'[Len(audit) + 1] = line
            /\ \A i \in DOMAIN audit : audit'[i] = audit[i]
        <5>1. audit \in Seq(Jobs \X Segs)
          BY DEF IndInv, TypeOK
        <5> QED BY <3>2, <5>1
      <4> SUFFICES ASSUME NEW i \in DOMAIN audit', NEW k \in DOMAIN audit', i # k,
                          audit'[i][2] = audit'[k][2]
                   PROVE  IsLate(audit'[i][2])
          BY <1>5 DEF AuditedOnce
      <4>2. line[2] = v
        OBVIOUS
      <4>3. CASE i \in DOMAIN audit /\ k \in DOMAIN audit
        BY <4>1, <4>3 DEF IndInv, AuditInv, AuditedOnce
      <4>4. CASE i = Len(audit) + 1 /\ k \in DOMAIN audit
        BY <2>2, <4>1, <4>2, <4>4
      <4>5. CASE k = Len(audit) + 1 /\ i \in DOMAIN audit
        BY <2>2, <4>1, <4>2, <4>5
      <4> QED BY <4>1, <4>3, <4>4, <4>5
    <3> QED BY <1>6, <3>1, <3>2
  <2> QED BY <1>2, <1>3, <1>7, <2>1, <2>3 DEF AuditInv
<1> QED BY <1>9, <1>10, <1>11, <1>12, <1>13 DEF IndInv

\* A job ends when nothing is left of it.
LEMMA FinishKeeps == ASSUME IndInv, TypeOK', Finish PROVE IndInv'
<1> USE DEF shields, dirs, orders, work, book, counts, manifest
<1> PICK w : w = worker.job
    OBVIOUS
<1>1. worker.at = "next" /\ w \in Jobs /\ pc = "up" /\ todo = {} /\ Left(w) = {}
  BY WorkerFacts DEF Finish
<1>2. /\ worker' = Resting /\ pending' = Rebuilt(jobs')
      /\ UNCHANGED <<tomb, frozen, live, plans, pc, todo, audit, garbled, late>>
  BY DEF Finish
<1>3. /\ Len(jobs') = Len(jobs) /\ Jobs' = Jobs
      /\ \A j \in Jobs :
            /\ jobs'[j].plan = jobs[j].plan /\ jobs'[j].items = jobs[j].items
            /\ jobs'[j].over = (j = w \/ jobs[j].over) /\ jobs'[j].done = jobs[j].done
  <2>1. jobs \in Seq(Job) /\ jobs' = [jobs EXCEPT ![w].over = TRUE]
    BY DEF Finish, IndInv, TypeOK
  <2> QED BY <1>1, <2>1, Finished
<1>4. Lines' = Lines /\ \A s : IsLate(s)' <=> IsLate(s)
  BY <1>2, <1>3 DEF Lines, IsLate
<1>5. WorkerInv'
  BY <1>1, <1>2 DEF WorkerInv, Resting
<1>6. EvictionInv'
  <2>1. \A s \in Segs : s \notin live => tomb[s] # 0
    BY <1>1, UpFacts
  <2> QED BY <1>2, <1>3, <2>1, EvictionMoves
<1>7. JobInv'
  <2> SUFFICES ASSUME NEW j \in Jobs PROVE Accounted(j)'
      BY <1>3 DEF JobInv
  <2>1. Accounted(j)
    BY DEF IndInv, JobInv
  <2>2. jobs'[j].over => jobs'[j].items \subseteq jobs'[j].done
    <3>1. CASE j = w
      BY <1>1, <1>3, <3>1 DEF Left
    <3>2. CASE j # w
      BY <1>3, <2>1, <3>2 DEF Accounted
    <3> QED BY <3>1, <3>2
  <2>3. Left(j)' \subseteq pending'
    BY <1>2, <1>3, <2>2, <1>1, RebuiltHas
  <2> QED BY <1>1, <1>2, <1>3, <1>4, <2>1, <2>2, <2>3, UpFacts DEF Accounted
<1>8. PlanInv' /\ LateInv'
  BY <1>2, <1>3, <1>4 DEF IndInv, PlanInv, LateInv, OneJobPerPlan
<1>9. AuditInv'
  BY <1>2, <1>4 DEF IndInv, AuditInv, AuditedOnce, Resting
<1> QED BY <1>5, <1>6, <1>7, <1>8, <1>9 DEF IndInv
-----------------------------------------------------------------------------
(***************************************************************************)
(* Crash and recovery: what was under way falls due, and the recovery does *)
(* not end before it has seen to it.                                       *)
(***************************************************************************)

LEMMA CrashKeeps == ASSUME IndInv, TypeOK', Crash PROVE IndInv'
<1> USE DEF shields, dirs, orders, work, book, counts, manifest
<1>1. /\ pc # "down" /\ pc' = "down" /\ worker' = Resting /\ todo' = {}
      /\ UNCHANGED <<tomb, frozen, live, jobs, audit, garbled, late>>
      /\ plans' = [q \in Plans |-> IF plans[q].outcome = "accepted" THEN plans[q] ELSE Unknown]
  BY DEF Crash
<1>2. Jobs' = Jobs /\ Lines' = Lines /\ \A s : IsLate(s)' <=> IsLate(s)
  BY <1>1 DEF Jobs, Lines, IsLate
<1>3. \A j, s : Due(j, s)' <=> ~jobs[j].over
  BY <1>1 DEF Due
<1>4. worker.at # "idle" => /\ worker.job \in Jobs
                            /\ ~jobs[worker.job].over \/ worker.at = "next"
                            /\ worker.at = "swapped" => worker.seg \in jobs[worker.job].items
  BY WorkerFacts
<1>5. WorkerInv'
  BY <1>1 DEF WorkerInv, Resting
<1>6. EvictionInv'
  <2>1. ASSUME NEW s \in Segs, s \notin live, tomb[s] = 0
        PROVE  \E j \in Jobs : s \in jobs[j].items /\ ~jobs[j].over
    <3>1. CASE worker.at = "swapped" /\ worker.seg = s
      BY <3>1, WorkerFacts
    <3>2. CASE \E j \in Jobs : s \in jobs[j].items /\ Due(j, s)
      BY <3>2 DEF Due
    <3> QED BY <2>1, <3>1, <3>2 DEF IndInv, EvictionInv
  <2> QED BY <1>1, <1>2, <1>3, <2>1 DEF IndInv, EvictionInv
<1>7. JobInv'
  <2> SUFFICES ASSUME NEW j \in Jobs PROVE Accounted(j)'
      BY <1>2 DEF JobInv
  <2>1. Accounted(j)
    BY DEF IndInv, JobInv
  <2> QED BY <1>1, <1>2, <1>3, <2>1 DEF Accounted
<1>8. PlanInv'
  <2>1. \A j \in Jobs : jobs[j].plan \in Plans
    BY JobsFacts DEF IndInv
  <2> QED BY <1>1, <1>2, <2>1 DEF IndInv, PlanInv, OneJobPerPlan
<1>9. LateInv'
  BY <1>1, <1>2 DEF IndInv, LateInv
<1>10. AuditInv'
  BY <1>1, <1>2 DEF IndInv, AuditInv, AuditedOnce, Resting
<1> QED BY <1>5, <1>6, <1>7, <1>8, <1>9, <1>10 DEF IndInv

LEMMA RestartKeeps == ASSUME IndInv, TypeOK', Restart PROVE IndInv'
<1> USE DEF shields, dirs, orders, work, book, counts, manifest
<1>1. /\ pc = "down" /\ pc' = "recover" /\ worker.at = "idle"
      /\ todo' = {i \in Jobs \X Segs : ~jobs[i[1]].over /\ i[2] \in jobs[i[1]].items}
      /\ UNCHANGED <<tomb, frozen, live, jobs, plans, worker, pending, audit, garbled, late>>
  BY DEF Restart, IndInv, WorkerInv
<1>2. Jobs' = Jobs /\ Lines' = Lines /\ \A s : IsLate(s)' <=> IsLate(s)
  BY <1>1 DEF Jobs, Lines, IsLate
<1>3. ASSUME NEW j \in Jobs, NEW s \in jobs[j].items
      PROVE  Due(j, s)' <=> ~jobs[j].over
  <2>1. s \in Segs
    BY <1>3, JobsFacts DEF IndInv
  <2>2. <<j, s>> \in todo' <=> ~jobs[j].over
    BY <1>1, <1>3, <2>1
  <2> QED BY <1>1, <2>2 DEF Due
<1>4. WorkerInv'
  <2>1. \A i \in todo' : i[2] \in jobs[i[1]].items /\ ~jobs[i[1]].over
    BY <1>1
  <2> QED BY <1>1, <1>2, <2>1 DEF IndInv, WorkerInv
<1>5. EvictionInv'
  BY <1>1, <1>2, <1>3 DEF IndInv, EvictionInv, Due
<1>6. JobInv'
  <2> SUFFICES ASSUME NEW j \in Jobs PROVE Accounted(j)'
      BY <1>2 DEF JobInv
  <2>1. Accounted(j)
    BY DEF IndInv, JobInv
  <2> QED BY <1>1, <1>2, <1>3, <2>1 DEF Accounted
<1>7. PlanInv' /\ LateInv'
  BY <1>1, <1>2 DEF IndInv, PlanInv, LateInv, OneJobPerPlan
<1>8. AuditInv'
  BY <1>1, <1>2 DEF IndInv, AuditInv, AuditedOnce
<1> QED BY <1>4, <1>5, <1>6, <1>7, <1>8 DEF IndInv

\* An item is in place, or its eviction goes on from the phase in which it was
\* interrupted.
LEMMA RecoverItemKeeps ==
    ASSUME IndInv, TypeOK', NEW w \in Jobs, NEW v \in Segs, RecoverItem(w, v)
    PROVE  IndInv'
<1> USE DEF shields, dirs, orders, work, book, counts, manifest
<1>1. /\ pc = "recover" /\ worker = Resting /\ <<w, v>> \in todo /\ todo' = todo \ {<<w, v>>}
      /\ UNCHANGED <<tomb, frozen, live, plans, pending, pc, audit, garbled, late>>
  BY DEF RecoverItem, IndInv, WorkerInv
<1>2. v \in jobs[w].items /\ ~jobs[w].over
  BY <1>1 DEF IndInv, WorkerInv
<1> DEFINE inplace == tomb[v] = 0 /\ v \in live
<1>3. /\ Len(jobs') = Len(jobs) /\ Jobs' = Jobs
      /\ \A j \in Jobs :
            /\ jobs'[j].plan = jobs[j].plan /\ jobs'[j].items = jobs[j].items
            /\ jobs'[j].over = jobs[j].over
            /\ jobs'[j].done = IF j # w THEN jobs[j].done
                               ELSE IF inplace THEN jobs[w].done \ {v} ELSE jobs[w].done \cup {v}
  <2>1. /\ jobs \in Seq(Job)
        /\ jobs[w].done \ {v} \in SUBSET Segs /\ jobs[w].done \cup {v} \in SUBSET Segs
    BY JobsFacts DEF IndInv, TypeOK
  <2>2. CASE inplace
    <3>1. jobs' = [jobs EXCEPT ![w].done = jobs[w].done \ {v}]
      BY <2>2 DEF RecoverItem
    <3>2. \A j \in Jobs :
              /\ jobs'[j].plan = jobs[j].plan /\ jobs'[j].items = jobs[j].items
              /\ jobs'[j].over = jobs[j].over
              /\ jobs'[j].done = IF j = w THEN jobs[w].done \ {v} ELSE jobs[j].done
      BY <2>1, <3>1, DoneUpdated
    <3>3. Len(jobs') = Len(jobs) /\ Jobs' = Jobs
      BY <2>1, <3>1, DoneUpdated
    <3> HIDE DEF inplace
    <3> QED BY <2>2, <3>2, <3>3
  <2>3. CASE ~inplace
    <3>1. jobs' = [jobs EXCEPT ![w].done = jobs[w].done \cup {v}]
      BY <2>3 DEF RecoverItem
    <3>2. \A j \in Jobs :
              /\ jobs'[j].plan = jobs[j].plan /\ jobs'[j].items = jobs[j].items
              /\ jobs'[j].over = jobs[j].over
              /\ jobs'[j].done = IF j = w THEN jobs[w].done \cup {v} ELSE jobs[j].done
      BY <2>1, <3>1, DoneUpdated
    <3>3. Len(jobs') = Len(jobs) /\ Jobs' = Jobs
      BY <2>1, <3>1, DoneUpdated
    <3> HIDE DEF inplace
    <3> QED BY <2>3, <3>2, <3>3
  <2> QED BY <2>2, <2>3
<1>4. Lines' = Lines /\ \A s : IsLate(s)' <=> IsLate(s)
  BY <1>1, <1>3 DEF Lines, IsLate
<1>5. CASE inplace
  <2>1. worker' = Resting
    BY <1>1, <1>5 DEF RecoverItem
  <2>2. WorkerInv'
    BY <1>1, <1>3, <2>1, TodoType DEF IndInv, WorkerInv, Resting
  <2>3. EvictionInv'
    <3>1. \A s \in Segs : tomb[s] # 0 => tomb[s] \in Jobs
      BY TombType DEF IndInv
    <3>2. \A j \in Jobs, s \in Segs : s # v => (Due(j, s)' <=> Due(j, s))
      BY <1>1, <1>3 DEF Due
    <3> QED BY <1>1, <1>3, <1>5, <2>1, <3>1, <3>2 DEF IndInv, EvictionInv, Resting
  <2>4. JobInv'
    <3> SUFFICES ASSUME NEW j \in Jobs PROVE Accounted(j)'
        BY <1>3 DEF JobInv
    <3>1. Accounted(j) /\ \A s : ~At(j, s)
      BY <1>1 DEF IndInv, JobInv, At, Resting
    <3>2. \A s : s # v \/ j # w => (Due(j, s)' <=> Due(j, s))
      BY <1>1, <1>3 DEF Due
    <3>3. /\ jobs'[j].done \subseteq jobs'[j].items
          /\ jobs'[j].over => jobs'[j].items \subseteq jobs'[j].done
      BY <1>2, <1>3, <1>5, <3>1 DEF Accounted
    <3>4. ASSUME NEW s \in jobs'[j].done
          PROVE  \/ tomb'[s] # 0 /\ <<tomb'[s], s>> \in Lines'
                 \/ ~jobs'[j].over /\ Due(j, s)'
      <4>1. s \in jobs[j].done /\ (s # v \/ j # w)
        BY <1>3, <1>5, <3>4
      <4> QED BY <1>1, <1>3, <1>4, <3>1, <3>2, <4>1 DEF Accounted
    <3> QED BY <1>1, <3>3, <3>4 DEF Accounted
  <2>5. PlanInv' /\ LateInv'
    BY <1>1, <1>3, <1>4 DEF IndInv, PlanInv, LateInv, OneJobPerPlan
  <2>6. AuditInv'
    BY <1>1, <1>4, <2>1 DEF IndInv, AuditInv, AuditedOnce, Resting
  <2> QED BY <2>2, <2>3, <2>4, <2>5, <2>6 DEF IndInv
<1>6. CASE ~inplace
  <2>1. worker'.at = Phase(w, v) /\ worker'.job = w /\ worker'.seg = v
    BY <1>6 DEF RecoverItem
  <2>2. v \notin live
    BY <1>6 DEF IndInv, EvictionInv
  <2>3. /\ Phase(w, v) = "swapped" => tomb[v] = 0
        /\ Phase(w, v) \in {"published", "audited"} => tomb[v] # 0
        /\ Phase(w, v) \in {"swapped", "published", "audited"}
        /\ Phase(w, v) = "audited" => <<tomb[v], v>> \in Lines
        /\ Phase(w, v) = "published" => \A i \in DOMAIN audit : audit[i] # <<w, v>>
    <3>1. \A i \in DOMAIN audit : audit[i] = <<w, v>> => tomb[v] = w
      <4>1. \A i \in DOMAIN audit : audit[i] \in Lines
        BY DEF Lines
      <4> QED BY <4>1 DEF IndInv, AuditInv
    <3> QED BY <3>1 DEF Phase, Lines
  <2>4. WorkerInv'
    <3>1. \A i \in todo' : i[1] \in Jobs /\ i[2] \in jobs'[i[1]].items /\ ~jobs'[i[1]].over
      BY <1>1, <1>3, TodoType DEF IndInv, WorkerInv
    <3> QED BY <1>1, <1>2, <1>3, <2>1, <2>2, <2>3, <3>1 DEF WorkerInv
  <2>5. EvictionInv'
    <3>1. \A s \in Segs : tomb[s] # 0 => tomb[s] \in Jobs
      BY TombType DEF IndInv
    <3>2. \A j \in Jobs, s \in Segs : s # v => (Due(j, s)' <=> Due(j, s))
      BY <1>1, <1>3 DEF Due
    <3>3. tomb[v] = 0 => worker'.at = "swapped" /\ worker'.seg = v
      BY <2>1, <2>3
    <3> QED BY <1>1, <1>3, <3>1, <3>2, <3>3 DEF IndInv, EvictionInv, Resting
  <2>6. JobInv'
    <3> SUFFICES ASSUME NEW j \in Jobs PROVE Accounted(j)'
        BY <1>3 DEF JobInv
    <3>1. Accounted(j) /\ \A s : ~At(j, s)
      BY <1>1 DEF IndInv, JobInv, At, Resting
    <3>2. \A s : s # v \/ j # w => (Due(j, s)' <=> Due(j, s))
      BY <1>1, <1>3 DEF Due
    <3>3. /\ jobs'[j].done \subseteq jobs'[j].items
          /\ jobs'[j].over => jobs'[j].items \subseteq jobs'[j].done
      BY <1>2, <1>3, <1>6, <3>1 DEF Accounted
    <3>4. ASSUME NEW s \in jobs'[j].done
          PROVE  \/ tomb'[s] # 0 /\ <<tomb'[s], s>> \in Lines'
                 \/ ~jobs'[j].over /\ (Due(j, s)' \/ At(j, s)')
      <4>1. CASE j = w /\ s = v
        <5>1. CASE Phase(w, v) = "audited"
          BY <1>1, <1>4, <2>3, <4>1, <5>1
        <5>2. CASE Phase(w, v) \in {"swapped", "published"}
          BY <1>2, <1>3, <2>1, <4>1, <5>2 DEF At
        <5> QED BY <2>3, <5>1, <5>2
      <4>2. CASE j # w \/ s # v
        <5>1. s \in jobs[j].done
          BY <1>3, <1>6, <3>4, <4>2
        <5> QED BY <1>1, <1>3, <1>4, <3>1, <3>2, <4>2, <5>1 DEF Accounted
      <4> QED BY <4>1, <4>2
    <3> QED BY <1>1, <3>3, <3>4 DEF Accounted
  <2>7. PlanInv' /\ LateInv'
    BY <1>1, <1>3, <1>4 DEF IndInv, PlanInv, LateInv, OneJobPerPlan
  <2>8. AuditInv'
    <3>1. ASSUME Phase(w, v) = "published", NEW i \in DOMAIN audit, audit[i][2] = v
          PROVE  IsLate(v)
      <4>1. audit[i] \in Lines
        BY DEF Lines
      <4>2. audit[i] = <<tomb[v], v>> /\ tomb[v] \in Jobs
        BY <3>1, <4>1, LinesType DEF IndInv, AuditInv
      <4>3. tomb[v] # w
        BY <2>3, <3>1, <4>2
      <4>4. v \in jobs[tomb[v]].items
        BY <2>3, <3>1 DEF IndInv, EvictionInv
      <4> QED BY <1>2, <4>2, <4>3, <4>4 DEF IndInv, LateInv
    <3>2. worker'.at = "published" => IsLate(v) \/ \A i \in DOMAIN audit : audit[i][2] # v
      BY <2>1, <3>1
    <3>3. worker'.at = "audited" => <<tomb[v], v>> \in Lines
      BY <2>1, <2>3
    <3> QED BY <1>1, <1>4, <2>1, <3>2, <3>3 DEF IndInv, AuditInv, AuditedOnce
  <2> QED BY <2>4, <2>5, <2>6, <2>7, <2>8 DEF IndInv
<1> QED BY <1>5, <1>6

LEMMA RecoveredKeeps == ASSUME IndInv, TypeOK', Recovered PROVE IndInv'
<1> USE DEF shields, dirs, orders, work, book, counts, manifest
<1>1. /\ pc = "recover" /\ pc' = "up" /\ worker = Resting /\ todo = {}
      /\ pending' = Rebuilt(jobs')
      /\ UNCHANGED <<tomb, frozen, live, plans, worker, todo, audit, garbled, late>>
  BY DEF Recovered, IndInv, WorkerInv
<1>2. /\ Len(jobs') = Len(jobs) /\ Jobs' = Jobs
      /\ \A j \in Jobs :
            /\ jobs'[j].plan = jobs[j].plan /\ jobs'[j].items = jobs[j].items
            /\ jobs'[j].over = (Left(j) = {}) /\ jobs'[j].done = jobs[j].done
  BY Progressed DEF Recovered, IndInv, TypeOK
<1>3. Lines' = Lines /\ \A s : IsLate(s)' <=> IsLate(s)
  BY <1>1, <1>2 DEF Lines, IsLate
<1>4. \A j, s : ~Due(j, s) /\ ~At(j, s)
  BY <1>1 DEF Due, At, Resting
<1>5. WorkerInv'
  BY <1>1 DEF WorkerInv, Resting
<1>6. EvictionInv'
  <2>1. \A s \in Segs : s \notin live => tomb[s] # 0
    BY <1>1, <1>4 DEF IndInv, EvictionInv, Resting
  <2> QED BY <1>1, <1>2, <2>1, EvictionMoves
<1>7. JobInv'
  <2> SUFFICES ASSUME NEW j \in Jobs PROVE Accounted(j)'
      BY <1>2 DEF JobInv
  <2>1. Accounted(j)
    BY DEF IndInv, JobInv
  <2>2. jobs'[j].over => jobs'[j].items \subseteq jobs'[j].done
    BY <1>2 DEF Left
  <2>3. Left(j)' \subseteq pending'
    BY <1>1, <1>2, <2>2, RebuiltHas
  <2> QED BY <1>1, <1>2, <1>3, <1>4, <2>1, <2>2, <2>3 DEF Accounted
<1>8. PlanInv' /\ LateInv'
  BY <1>1, <1>2, <1>3 DEF IndInv, PlanInv, LateInv, OneJobPerPlan
<1>9. AuditInv'
  BY <1>1, <1>3 DEF IndInv, AuditInv, AuditedOnce
<1> QED BY <1>5, <1>6, <1>7, <1>8, <1>9 DEF IndInv

LEMMA NextInv == IndInv /\ [Next]_vars => IndInv'
<1> SUFFICES ASSUME IndInv, [Next]_vars PROVE IndInv'
    OBVIOUS
<1>1. TypeOK'
  BY NextType
<1>2. CASE Evicting
  BY <1>1, <1>2, TakeKeeps, DigKeeps, SwapKeeps, SwapFailsKeeps, PublishKeeps, AuditKeeps,
     BuryKeeps, FinishKeeps
  DEF Evicting
<1>3. CASE Recovering
  BY <1>1, <1>3, RestartKeeps, RecoverItemKeeps, RecoveredKeeps DEF Recovering
<1>4. CASE UNCHANGED vars
  <2>1. /\ UNCHANGED <<tomb, live, jobs, pending, worker, pc, todo, audit, garbled, late>>
        /\ UNCHANGED <<frozen, plans>>
    BY <1>4 DEF vars, manifest, shields, dirs, orders, work, book, counts
  <2> QED BY <1>1, <2>1, QuietKeeps
<1> QED
  BY <1>1, <1>2, <1>3, <1>4, WorldKeeps, RequestsKeep, CrashKeeps DEF Next

\* A directory that has gone belongs to an item somebody sees to; what is done
\* has its line; an item of two jobs was accepted late.
THEOREM Invariance == Spec => []IndInv
BY InitInv, NextInv, PTL DEF Spec

\* Every variable keeps its type.
THEOREM TypeCorrect == Spec => []TypeOK
<1>1. IndInv => TypeOK
  BY DEF IndInv
<1> QED BY <1>1, Invariance, PTL
-----------------------------------------------------------------------------
(***************************************************************************)
(* What follows from it.                                                   *)
(***************************************************************************)

\* While the service is up, a segment the worker is not at is live or a
\* tombstone, whatever crash came between the phases.
THEOREM EvictionsAreWhole == Spec => []NoHalfEviction
<1>1. IndInv => NoHalfEviction
  <2> SUFFICES ASSUME IndInv, pc = "up", NEW s \in Segs, worker.seg # s
               PROVE  tomb[s] = 0 <=> s \in live
      BY DEF NoHalfEviction
  <2>1. tomb[s] # 0 => s \notin live
    BY DEF IndInv, EvictionInv
  <2> QED BY <2>1, UpFacts
<1> QED BY <1>1, Invariance, PTL

\* What a freeze refers to is evicted only by a plan that was accepted late.
THEOREM FreezesProtect == Spec => []FrozenStay
<1>1. IndInv => FrozenStay
  <2> SUFFICES ASSUME IndInv, NEW s \in frozen, s \notin live PROVE IsLate(s)
      BY DEF FrozenStay
  <2>1. s \in Segs
    BY DEF IndInv, TypeOK
  <2> QED BY <2>1 DEF IndInv, EvictionInv, LateInv
<1> QED BY <1>1, Invariance, PTL

\* A job that has succeeded has evicted its items, each with its line.
THEOREM SuccessesAreAudited == Spec => []SuccessIsAudited
<1>1. IndInv => SuccessIsAudited
  <2> SUFFICES ASSUME IndInv, NEW j \in Jobs, jobs[j].over, NEW s \in jobs[j].items
               PROVE  tomb[s] # 0 /\ s \notin live /\ <<tomb[s], s>> \in Lines
      BY DEF SuccessIsAudited, Lines
  <2>1. s \in Segs
    BY JobsFacts DEF IndInv
  <2>2. tomb[s] # 0 /\ <<tomb[s], s>> \in Lines
    BY DEF IndInv, JobInv, Accounted
  <2> QED BY <2>1, <2>2 DEF IndInv, EvictionInv
<1> QED BY <1>1, Invariance, PTL

\* No restart adds a second line for an eviction.
THEOREM AuditsOnce == Spec => []AuditedOnce
<1>1. IndInv => AuditedOnce
  BY DEF IndInv, AuditInv
<1> QED BY <1>1, Invariance, PTL

\* A plan becomes one job, whoever applies it and however often.
THEOREM PlansApplyOnce == Spec => []OneJobPerPlan
<1>1. IndInv => OneJobPerPlan
  BY DEF IndInv, PlanInv
<1> QED BY <1>1, Invariance, PTL
=============================================================================
