---------------------------- MODULE RepairProofs ----------------------------
(***************************************************************************)
(* Theorems about Repair, for every value of its constants.                *)
(***************************************************************************)
EXTENDS Repair, TLAPS

(***************************************************************************)
(* Type correctness.                                                       *)
(***************************************************************************)

LEMMA RetryType ==
    ASSUME TypeOK, NEW p, Retry(p)
    PROVE  /\ stage' \in Content /\ bak' \in Content
           /\ job' \in [status : Statuses, attempt : Nat]
           /\ plan' \in Nat
           /\ pc' \in {"idle", "plan"}
BY DEF Retry, TypeOK, Content, Statuses

LEMMA InitType == Init => TypeOK
<1> SUFFICES ASSUME Init PROVE TypeOK
    OBVIOUS
<1>1. man \in Meta /\ disk \in Meta
  BY DEF Init, Meta
<1>2. job \in [status : Statuses, attempt : Nat]
  BY DEF Init, Idle, Statuses
<1>3. found \in [Readers -> Nat]
  BY DEF Init, Nothing
<1> QED BY <1>1, <1>2, <1>3 DEF Init, TypeOK, Content

LEMMA NextType == TypeOK /\ [Next]_vars => TypeOK'
<1> SUFFICES ASSUME TypeOK, [Next]_vars PROVE TypeOK'
    OBVIOUS
<1> USE ConstantsAssumption DEF meta, dirs, work, counts
<1>1. CASE Rot
  BY <1>1 DEF Rot, TypeOK, Content
<1>2. ASSUME NEW r \in Readers, FindDamage(r) PROVE TypeOK'
  BY <1>2 DEF FindDamage, TypeOK, Meta
<1>3. ASSUME NEW r \in Readers, Quarantine(r) PROVE TypeOK'
  <2>1. Marked(man) \in Meta
    BY DEF Marked, TypeOK, Meta
  <2>2. man' \in Meta /\ disk' \in Meta
    BY <1>3, <2>1 DEF Quarantine, TypeOK
  <2> QED BY <1>3, <2>2 DEF Quarantine, TypeOK
<1>4. CASE SealOther
  BY <1>4 DEF SealOther, TypeOK
<1>5. CASE StartRepair
  BY <1>5 DEF StartRepair, TypeOK, Statuses
<1>6. CASE Register
  BY <1>6 DEF Register, TypeOK, Statuses
<1>7. CASE Take
  BY <1>7 DEF Take, TypeOK, Statuses
<1>8. CASE Plan
  BY <1>8 DEF Plan, TypeOK, Statuses, Meta
<1>9. CASE Build
  BY <1>9 DEF Build, TypeOK, Content
<1>10. CASE GiveUp
  BY <1>10 DEF GiveUp, TypeOK, Statuses
<1>11. CASE Tear
  BY <1>11, RetryType DEF Tear, TypeOK
<1>12. CASE CommitFails
  BY <1>12, RetryType DEF CommitFails, TypeOK
<1>13. CASE MoveAside
  BY <1>13 DEF MoveAside, TypeOK, Content
<1>14. CASE SwapIn
  BY <1>14 DEF SwapIn, TypeOK, Content
<1>15. CASE Publish
  BY <1>15 DEF Publish, TypeOK, Meta
<1>16. CASE PublishFails
  BY <1>16 DEF PublishFails, TypeOK, Meta, Content
<1>17. CASE Undo
  BY <1>17, RetryType DEF Undo, TypeOK
<1>18. CASE Finish
  BY <1>18 DEF Finish, TypeOK, Content, Statuses
<1>19. CASE Park
  BY <1>19 DEF Park, Stops, Nothing, TypeOK, Content, Statuses
<1>20. CASE Crash
  BY <1>20 DEF Crash, Stops, Nothing, TypeOK
<1>21. CASE Recover
  <2>1. Verified(disk, live) \in Meta
    BY DEF Verified, TypeOK, Meta
  <2> QED BY <1>21, <2>1 DEF Recover, TypeOK, Content, Statuses
<1>22. CASE UNCHANGED vars
  BY <1>22 DEF vars, TypeOK
<1> QED
  BY <1>1, <1>2, <1>3, <1>4, <1>5, <1>6, <1>7, <1>8, <1>9, <1>10, <1>11, <1>12, <1>13,
     <1>14, <1>15, <1>16, <1>17, <1>18, <1>19, <1>20, <1>21, <1>22
  DEF Next, Worker, Commit

\* Every variable keeps its type.
THEOREM TypeCorrect == Spec => []TypeOK
BY InitType, NextType, PTL DEF Spec
-----------------------------------------------------------------------------
(***************************************************************************)
(* The inductive invariant.  A worker that is idle, plans or builds has no *)
(* directories aside, so that the steps from there change nothing but the  *)
(* candidate; the steps of a commit are taken one after the other.         *)
(***************************************************************************)

\* What the lock allows: no commit is under way, so nothing is aside.
LEMMA FreeFacts ==
    ASSUME IndInv, Free
    PROVE  /\ bak = "none" /\ pc # "down"
           /\ man.status = "sealed" => live # "none"
           /\ fails = 0 => man = disk
           /\ live = "rotten" => rotted \/ fails > 0
           /\ Active \/ pc = "idle"
BY DEF IndInv, Free, DirsInv, WorkInv, ManifestInv, Active

LEMMA InitInv == Init => IndInv
<1> SUFFICES ASSUME Init PROVE IndInv
    OBVIOUS
<1>1. TypeOK
  BY InitType
<1> QED BY <1>1 DEF Init, IndInv, DirsInv, WorkInv, VersionInv, ManifestInv, Idle

\* An attempt that is dropped leaves the live directory and the manifest, and
\* nothing else.
LEMMA RetryKeeps ==
    ASSUME IndInv, TypeOK', NEW p, Retry(p), p \in {"build", "commit", "undo"},
           UNCHANGED <<covered, meta, rotted, fails>>,
           live' = IF p = "undo" THEN bak ELSE live
    PROVE  IndInv'
<1>1. bak' = "none" /\ stage' = "none" /\ pc' \in {"idle", "plan"} /\ pc = p
  BY DEF Retry
<1>2. job.status = "running"
  BY <1>1 DEF IndInv, WorkInv
<1>3. job'.status = "running" <=> pc' # "idle"
  BY <1>1, <1>2 DEF Retry, IndInv, TypeOK
<1>4. live' = "rotten" => rotted \/ fails > 0
  BY <1>1 DEF IndInv, DirsInv
<1>5. man.status = "sealed" => live' # "none"
  BY <1>1 DEF IndInv, DirsInv, ManifestInv
<1>6. fails = 0 => man = disk
  BY <1>1 DEF IndInv, DirsInv, ManifestInv, TypeOK
<1> QED
  BY <1>1, <1>3, <1>4, <1>5, <1>6 DEF IndInv, DirsInv, WorkInv, VersionInv, ManifestInv, meta

\* What happens while no commit holds the lock.
LEMMA OutsideKeeps ==
    ASSUME IndInv, TypeOK',
           \/ Rot \/ SealOther \/ StartRepair
           \/ \E r \in Readers : FindDamage(r) \/ Quarantine(r)
    PROVE  IndInv'
<1> USE DEF IndInv, DirsInv, WorkInv, VersionInv, ManifestInv, meta, dirs, work, counts
<1>1. CASE Rot
  BY <1>1 DEF Rot, Conflict
<1>2. CASE SealOther
  <2>1. ~covered' /\ covered => ~Active
    BY <1>2 DEF SealOther, Pinned
  <2> QED BY <1>2, <2>1, FreeFacts DEF SealOther, Free, Active, Conflict
<1>3. CASE StartRepair
  BY <1>3 DEF StartRepair, Free, Active, Conflict
<1>4. ASSUME NEW r \in Readers, FindDamage(r) PROVE IndInv'
  BY <1>4 DEF FindDamage, Conflict
<1>5. ASSUME NEW r \in Readers, Quarantine(r) PROVE IndInv'
  <2>1. CASE man.status = "sealed" /\ man' = Marked(man) /\ disk' = man'
    <3>1. man'.status = "quarantined" /\ man'.version = man.version + 1
      BY <2>1 DEF Marked
    <3> QED BY <1>5, <2>1, <3>1 DEF Quarantine, Free, Conflict, TypeOK, Meta
  <2>2. CASE UNCHANGED meta
    BY <1>5, <2>2 DEF Quarantine, Conflict
  <2> QED BY <1>5, <2>1, <2>2 DEF Quarantine
<1> QED BY <1>1, <1>2, <1>3, <1>4, <1>5

\* The steps of a worker before its commit.
LEMMA AttemptKeeps ==
    ASSUME IndInv, TypeOK', Register \/ Take \/ Plan \/ Build \/ GiveUp \/ Tear
    PROVE  IndInv'
<1>1. CASE Tear
  BY <1>1, RetryKeeps DEF Tear, Retry, meta
<1> USE DEF IndInv, DirsInv, WorkInv, VersionInv, ManifestInv, meta, dirs, work, counts
<1>2. CASE Register
  BY <1>2 DEF Register, TypeOK, Conflict
<1>3. CASE Take
  BY <1>3 DEF Take, TypeOK, Conflict
<1>4. CASE Plan
  BY <1>4 DEF Plan, TypeOK, Conflict, Meta
<1>5. CASE Build
  BY <1>5 DEF Build, TypeOK, Conflict
<1>6. CASE GiveUp
  BY <1>6 DEF GiveUp, TypeOK, Conflict
<1> QED BY <1>1, <1>2, <1>3, <1>4, <1>5, <1>6

\* The commit, step by step.
LEMMA CommitKeeps ==
    ASSUME IndInv, TypeOK', Commit
    PROVE  IndInv'
<1>1. CASE CommitFails
  BY <1>1, RetryKeeps DEF CommitFails, Retry, meta, counts
<1>2. CASE Undo
  BY <1>2, RetryKeeps DEF Undo, Retry, meta, counts
<1> USE DEF IndInv, DirsInv, WorkInv, VersionInv, ManifestInv, meta, dirs, work, counts
<1>3. CASE MoveAside
  BY <1>3 DEF MoveAside, Free
<1>4. CASE SwapIn
  BY <1>4 DEF SwapIn
<1>5. CASE Publish
  BY <1>5 DEF Publish
<1>6. CASE PublishFails
  BY <1>6 DEF PublishFails, TypeOK
<1>7. CASE Finish
  BY <1>7 DEF Finish, TypeOK
<1> QED BY <1>1, <1>2, <1>3, <1>4, <1>5, <1>6, <1>7 DEF Commit

\* A crash leaves what is on disk; the recovery trusts a segment that is
\* called sealed only after it has verified its directory.
LEMMA RestartKeeps ==
    ASSUME IndInv, TypeOK', Park \/ Crash \/ Recover
    PROVE  IndInv'
<1> USE DEF IndInv, DirsInv, WorkInv, VersionInv, ManifestInv
<1>1. CASE Park
  BY <1>1 DEF Park, Stops, Free
<1>2. CASE Crash
  BY <1>2 DEF Crash, Stops
<1>3. CASE Recover
  <2>1. man'.status = "sealed" => live = "intact"
    BY <1>3 DEF Recover, Verified, TypeOK, Meta
  <2>2. job'.status # "running"
    BY <1>3 DEF Recover, Active
  <2> QED BY <1>3, <2>1, <2>2 DEF Recover, counts
<1> QED BY <1>1, <1>2, <1>3

LEMMA NextInv == IndInv /\ [Next]_vars => IndInv'
<1> SUFFICES ASSUME IndInv, [Next]_vars PROVE IndInv'
    OBVIOUS
<1>1. TypeOK'
  BY NextType DEF IndInv
<1>2. CASE UNCHANGED vars
  BY <1>1, <1>2
  DEF vars, dirs, meta, work, counts, IndInv, DirsInv, WorkInv, VersionInv, ManifestInv, Conflict
<1> QED
  BY <1>1, <1>2, OutsideKeeps, AttemptKeeps, CommitKeeps, RestartKeeps DEF Next, Worker

\* Where a worker is tells which directories there are; what it builds from is
\* in the WAL; the two manifests agree unless a write has failed.
THEOREM Invariance == Spec => []IndInv
BY InitInv, NextInv, PTL DEF Spec
-----------------------------------------------------------------------------
(***************************************************************************)
(* What follows from it.                                                   *)
(***************************************************************************)

\* A segment the manifest calls sealed is there and is what was put there,
\* through crashes between the renames, conflicts and restarts.
THEOREM SealedSegmentsAreIntact == Spec => []SealedIsIntact
<1>1. IndInv => SealedIsIntact
  BY FreeFacts DEF SealedIsIntact, SealedIsWhole, IndInv, TypeOK, Content
<1> QED BY <1>1, Invariance, PTL

\* What is called a success is on disk when it is.
THEOREM SuccessesLast == Spec => SuccessIsDurable
<1> DEFINE Lasting == fails = 0 /\ ~Terminal /\ job'.status = "succeeded" =>
                          disk'.status = "sealed" /\ (live' = "intact" \/ rotted')
<1>1. IndInv /\ [Next]_vars => [Lasting]_vars
  <2> SUFFICES ASSUME IndInv, Next, fails = 0, ~Terminal, job'.status = "succeeded"
               PROVE  disk'.status = "sealed" /\ (live' = "intact" \/ rotted')
      OBVIOUS
  <2>1. Register \/ Finish
    <3>1. job'.status # job.status
      BY DEF Terminal
    <3>2. ~(Rot \/ SealOther \/ \E r \in Readers : FindDamage(r) \/ Quarantine(r))
      BY <3>1 DEF Rot, SealOther, FindDamage, Quarantine, work
    <3>3. ~(StartRepair \/ Take \/ Plan \/ Build \/ GiveUp)
      BY <3>1 DEF StartRepair, Take, Plan, Build, GiveUp, IndInv, TypeOK
    <3>4. ~(Tear \/ CommitFails \/ Undo)
      BY <3>1 DEF Tear, CommitFails, Undo, Retry, IndInv, TypeOK
    <3>5. ~(MoveAside \/ SwapIn \/ Publish \/ PublishFails)
      BY <3>1 DEF MoveAside, SwapIn, Publish, PublishFails
    <3>6. ~(Park \/ Crash \/ Recover)
      BY <3>1 DEF Park, Crash, Recover, IndInv, TypeOK
    <3> QED BY <3>2, <3>3, <3>4, <3>5, <3>6 DEF Next, Worker, Commit
  <2>2. CASE Register
    <3>1. man.status = "sealed"
      BY <2>2 DEF Register, IndInv, TypeOK
    <3> QED BY <2>2, <3>1
            DEF Register, dirs, meta, IndInv, TypeOK, Content, DirsInv, ManifestInv
  <2>3. CASE Finish
    BY <2>3 DEF Finish, meta, IndInv, TypeOK, Content, DirsInv, ManifestInv
  <2> QED BY <2>1, <2>2, <2>3
<1> QED BY <1>1, Invariance, PTL DEF Spec, SuccessIsDurable

\* No crash, rollback, restart or collection takes the last way back to the
\* records: only damage does.
THEOREM OnlyDamageLoses == Spec => LossNeedsDamage
<1> DEFINE Damaged == Recoverable /\ ~Recoverable' =>
                          /\ live' = "rotten"
                          /\ live = "intact" \/ disk.status = "sealed" \/ fails > 0
<1>1. IndInv /\ [Next]_vars => [Damaged]_vars
  <2> SUFFICES ASSUME IndInv, Next, Recoverable, ~Recoverable'
               PROVE  /\ live' = "rotten"
                      /\ live = "intact" \/ disk.status = "sealed" \/ fails > 0
      OBVIOUS
  <2>1. Rot \/ SealOther
    <3>1. ~(StartRepair \/ \E r \in Readers : FindDamage(r) \/ Quarantine(r))
      BY DEF StartRepair, FindDamage, Quarantine, dirs, Recoverable
    <3>2. ~(Register \/ Take \/ Plan \/ Build \/ GiveUp)
      BY DEF Register, Take, Plan, Build, GiveUp, dirs, Recoverable
    <3>3. ~Tear
      BY DEF Tear, Retry, Recoverable, IndInv, DirsInv
    <3>4. ~Commit
      BY DEF Commit, CommitFails, MoveAside, SwapIn, Publish, PublishFails, Undo, Finish,
             Retry, Recoverable, IndInv, WorkInv
    <3>5. ~(Park \/ Crash)
      BY DEF Park, Crash, Stops, Recoverable
    <3>6. ~Recover
      <4> SUFFICES ASSUME Recover PROVE FALSE
          OBVIOUS
      <4>1. covered \/ live = "intact"
        BY DEF Recoverable, IndInv, WorkInv
      <4>2. CASE UNCHANGED covered
        BY <4>1, <4>2 DEF Recover, Recoverable
      <4>3. CASE man'.status = "sealed"
        <5>1. live = "intact"
          BY <4>3 DEF Recover, Verified, IndInv, TypeOK, Meta
        <5> QED BY <5>1 DEF Recover, Recoverable
      <4> QED BY <4>2, <4>3 DEF Recover
    <3> QED BY <3>1, <3>2, <3>3, <3>4, <3>5, <3>6 DEF Next, Worker
  <2>2. CASE Rot
    BY <2>2 DEF Rot
  <2>3. CASE SealOther
    <3>1. Free /\ man.status # "quarantined" /\ live' = live
      BY <2>3 DEF SealOther, Pinned, dirs, Recoverable
    <3>2. man.status = "sealed"
      BY <3>1 DEF IndInv, TypeOK, Meta
    <3>3. live = "rotten"
      BY <3>1, <3>2, FreeFacts DEF Recoverable, IndInv, TypeOK, Content
    <3>4. fails = 0 => disk.status = "sealed"
      BY <3>1, <3>2, FreeFacts
    <3> QED BY <3>1, <3>3, <3>4 DEF IndInv, TypeOK
  <2> QED BY <2>1, <2>2, <2>3
<1> QED BY <1>1, Invariance, PTL DEF Spec, LossNeedsDamage
=============================================================================
