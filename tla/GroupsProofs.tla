---------------------------- MODULE GroupsProofs ----------------------------
(***************************************************************************)
(* Theorems about Groups, for every value of its constants.                *)
(***************************************************************************)
EXTENDS GroupsInv, FiniteSetTheorems, TLAPS

(***************************************************************************)
(* Type correctness.  A batch ends after it begins because a scan does.    *)
(***************************************************************************)

CallsForward == \A h \in Holders : call[h].from <= call[h].next

\* A scan covers a range without holes, and stays below the head; without a
\* limit it covers everything visible.
LEMMA ScanCovers ==
    ASSUME head \in Offsets, NEW from \in Offsets, NEW stop \in Int, NEW limit \in Nat,
           NEW next \in Offsets, NEW covers, IsScan(from, stop, limit, covers, next)
    PROVE  /\ from <= next
           /\ next = from \/ (next <= head /\ next <= stop)
           /\ covers = from .. next - 1
           /\ limit = NoEnd => Visible(from, stop) \subseteq covers
<1> USE ConstantsAssumption
<1> DEFINE visible  == Visible(from, stop)
           readable == visible \ Gaps
           upto(o)  == {q \in readable : q <= o}
<1>1. \A o : o \in visible <=> o \in from .. head - 1 /\ o < stop
  BY DEF Visible
<1>2. \A o : o \in visible => o \in Int /\ from <= o /\ o < head
  BY <1>1 DEF Offsets
<1>4. CASE \E last \in readable :
              /\ Cardinality(upto(last)) = limit
              /\ next = last + 1
              /\ covers = Delivered(upto(last), from, next)
  <2>1. PICK last \in readable :
              /\ Cardinality(upto(last)) = limit
              /\ next = last + 1
              /\ covers = Delivered(upto(last), from, next)
    BY <1>4
  <2>2. last \in Int /\ from <= last /\ last < head /\ last < stop /\ last \in visible
    BY <1>1, <1>2, <2>1
  <2>3. covers = {o \in readable : o <= last} \cup {o \in Gaps : from <= o /\ o < next}
    BY <2>1 DEF Delivered
  <2>4. \A o \in from .. last : o \in visible
    BY <1>1, <2>2 DEF Offsets
  <2>5. covers \subseteq from .. last
    <3> SUFFICES ASSUME NEW o \in covers PROVE o \in from .. last
        OBVIOUS
    <3>1. CASE o \in readable /\ o <= last
      BY <1>2, <2>2, <3>1 DEF Offsets
    <3>2. CASE o \in Gaps /\ from <= o /\ o < next
      <4>1. o \in Int
        BY <3>2 DEF Gaps, Span
      <4> QED BY <2>1, <2>2, <3>2, <4>1 DEF Offsets
    <3> QED BY <2>3, <3>1, <3>2
  <2>6. from .. last \subseteq covers
    BY <2>1, <2>2, <2>3, <2>4 DEF Offsets
  <2>7. limit # NoEnd
    <3>1. upto(last) \subseteq 0 .. MaxOffset - 1
      BY <1>2 DEF Offsets
    <3>2. IsFiniteSet(0 .. MaxOffset - 1) /\ Cardinality(0 .. MaxOffset - 1) = MaxOffset
      <4>1. MaxOffset \in Nat
        OBVIOUS
      <4>2. 0 \in Int /\ MaxOffset - 1 \in Int
        BY <4>1
      <4>3. Cardinality(0 .. MaxOffset - 1) = IF 0 > MaxOffset - 1 THEN 0 ELSE MaxOffset - 1 - 0 + 1
        BY <4>2, FS_Interval
      <4> QED BY <4>1, <4>2, <4>3, FS_Interval
    <3>3. Cardinality(upto(last)) <= MaxOffset
      BY <3>1, <3>2, FS_Subset
    <3>4. Cardinality(upto(last)) = limit
      BY <2>1
    <3> HIDE DEF upto
    <3> QED BY <3>3, <3>4 DEF NoEnd
  <2>8. from <= next /\ next <= head /\ next <= stop /\ next - 1 = last
    BY <2>1, <2>2 DEF Offsets
  <2>9. covers = from .. next - 1
    BY <2>5, <2>6, <2>8
  <2> QED BY <2>7, <2>8, <2>9
<1>5. CASE /\ \/ visible = {} /\ next = from
              \/ next - 1 \in visible /\ \A o \in visible : o < next
           /\ covers = Delivered(readable, from, next)
  <2>1. from <= next /\ (next = from \/ (next <= head /\ next <= stop))
    <3>1. ASSUME next - 1 \in visible PROVE from <= next /\ next <= head /\ next <= stop
      <4>1. from <= next - 1 /\ next - 1 < head /\ next - 1 < stop
        BY <1>1, <1>2, <3>1
      <4> HIDE DEF visible
      <4> QED BY <4>1 DEF Offsets
    <3>2. next = from \/ next - 1 \in visible
      BY <1>5
    <3> HIDE DEF visible
    <3> QED BY <3>1, <3>2 DEF Offsets
  <2>2. \A o \in visible : from <= o /\ o < next
    BY <1>2, <1>5
  <2>3. \A o \in from .. next - 1 : o \in visible
    BY <1>1, <1>5 DEF Offsets
  <2>4. covers = readable \cup {o \in Gaps : from <= o /\ o < next}
    BY <1>5 DEF Delivered
  <2>5. \A o \in Gaps : o \in Int
    BY DEF Gaps, Span
  <2>6. covers \subseteq from .. next - 1
    BY <1>2, <2>2, <2>4, <2>5 DEF Offsets
  <2>7. from .. next - 1 \subseteq covers
    BY <2>3, <2>4 DEF Offsets
  <2>8. visible \subseteq covers
    BY <1>2, <2>2, <2>7 DEF Offsets
  <2> QED BY <2>1, <2>6, <2>7, <2>8
<1> QED BY <1>4, <1>5 DEF IsScan

LEMMA TypesOfGroups ==
    /\ NoLease \in Lease /\ NoBatch \in Batch /\ NoGroup \in Group /\ NoCall \in Call
    /\ \A g \in Group : GateOf(g) \in -1 .. MaxOffset
BY ConstantsAssumption
   DEF NoLease, Lease, NoBatch, Batch, NoGroup, Group, NoCall, Call, Offsets, Keys, NoEnd, GateOf

LEMMA SaveType ==
    ASSUME TypeOK, group' \in Group, NEW ok \in BOOLEAN, Save(ok)
    PROVE  journal' \in Group /\ faults' \in Nat
BY DEF TypeOK, Save

LEMMA InitType == Init => TypeOK /\ CallsForward
<1> SUFFICES ASSUME Init PROVE TypeOK /\ CallsForward
    OBVIOUS
<1>1. call \in [Holders -> Call]
  BY TypesOfGroups DEF Init
<1>2. CallsForward
  BY DEF Init, CallsForward, NoCall
<1> QED BY <1>1, <1>2, TypesOfGroups, ConstantsAssumption DEF Init, TypeOK, Offsets, Keys

LEMMA GrantedType ==
    ASSUME TypeOK, NEW h \in Holders, LeaseLive \/ keys < MaxKeys
    PROVE  /\ Granted(h) \in Group
           /\ Granted(h) # group => keys + 1 \in Keys
           /\ \A f \in {"status", "start", "end", "checkpoint", "pending", "settled"} :
                 Granted(h)[f] = group[f]
<1> USE ConstantsAssumption
<1>1. group \in Group /\ keys \in 0 .. MaxKeys
  BY DEF TypeOK, Keys
<1>2. CASE LeaseLive
  BY <1>1, <1>2 DEF Granted
<1>3. CASE ~LeaseLive
  <2>1. [holder |-> h, key |-> keys + 1] \in Lease /\ keys + 1 \in Keys
    BY <1>1, <1>3 DEF Lease, Keys
  <2>2. group.epoch + 1 \in Nat
    BY <1>1 DEF Group
  <2> QED BY <1>1, <1>3, <2>1, <2>2 DEF Granted, Group
<1> QED BY <1>2, <1>3

LEMMA CommittedType ==
    ASSUME TypeOK, CallsForward, NEW h \in Holders, CanCommit(h)
    PROVE  /\ Committed(h) \in Group
           /\ keys + 1 \in Keys
<1> USE ConstantsAssumption
<1>1. keys + 1 \in Keys /\ keys < MaxKeys
  BY DEF CanCommit, TypeOK, Keys
<1>2. Granted(h) \in Group
  BY <1>1, GrantedType
<1>3. CASE ~Creation(h)
  BY <1>1, <1>2, <1>3 DEF Committed
<1>4. CASE Creation(h)
  <2>1. call[h] \in Call /\ group.checkpoint = call[h].from /\ call[h].from <= call[h].next
    BY <1>4 DEF Creation, TypeOK, CallsForward
  <2>2. [key |-> keys + 1, from |-> group.checkpoint, next |-> call[h].next] \in Batch
    BY <1>1, <2>1 DEF Batch, Call
  <2> QED BY <1>1, <1>2, <1>4, <2>2 DEF Committed, Group
<1> QED BY <1>1, <1>3, <1>4

LEMMA PlanType ==
    ASSUME TypeOK, CallsForward, NEW h \in Holders, NEW limit \in Limits,
           ClaimPlan(h, limit)
    PROVE  call' \in [Holders -> Call] /\ CallsForward'
<1> USE ConstantsAssumption
<1> DEFINE b == group.pending
<1>1. /\ b \in Batch /\ group.checkpoint \in Offsets /\ group.end \in Int
      /\ head \in Offsets /\ limit \in Nat
  BY DEF TypeOK, Group, NoEnd
<1>2. PICK next \in Offsets, covers \in SUBSET Offsets :
          /\ b.key = 0 => IsScan(group.checkpoint, group.end, limit, covers, next)
          /\ call' = [call EXCEPT ![h] =
                [busy |-> TRUE, key |-> b.key, covers |-> covers,
                 from |-> IF b.key # 0 THEN b.from ELSE group.checkpoint,
                 next |-> IF b.key # 0 THEN b.next ELSE next]]
  BY DEF ClaimPlan
<1>3. b.key = 0 => group.checkpoint <= next
  BY <1>1, <1>2, ScanCovers
<1>4. /\ b.key \in Keys /\ b.from \in Offsets /\ b.next \in Offsets /\ b.from <= b.next
  BY <1>1 DEF Batch
<1>5. call'[h] \in Call /\ call'[h].from <= call'[h].next
  BY <1>1, <1>2, <1>3, <1>4 DEF TypeOK, Call
<1>6. call' = [call EXCEPT ![h] = call'[h]]
  BY <1>2 DEF TypeOK
<1> HIDE DEF b
<1> QED BY <1>5, <1>6 DEF TypeOK, CallsForward

\* A call is given up, or comes to its end.
LEMMA NoCallType ==
    ASSUME TypeOK, CallsForward,
           \/ call' = [h \in Holders |-> NoCall]
           \/ \E h \in Holders : call' = [call EXCEPT ![h] = NoCall]
    PROVE  call' \in [Holders -> Call] /\ CallsForward'
<1>1. NoCall \in Call /\ NoCall.from <= NoCall.next
  BY TypesOfGroups DEF NoCall
<1>2. call \in [Holders -> Call]
  BY DEF TypeOK
<1> QED BY <1>1, <1>2 DEF CallsForward

LEMMA UnitsType ==
    ASSUME TypeOK, NEW u \in units, NEW status \in {"sealed", "quarantined", "evicted"}
    PROVE  Changed(u, status) \in SUBSET Unit
BY DEF TypeOK, Unit, Changed

LEMMA NextType == TypeOK /\ CallsForward /\ [Next]_vars => TypeOK' /\ CallsForward'
<1> SUFFICES ASSUME TypeOK, CallsForward, [Next]_vars PROVE TypeOK' /\ CallsForward'
    OBVIOUS
<1> USE ConstantsAssumption, TypesOfGroups
<1> USE DEF log, gc, gates, history, counts
<1>1. ASSUME NEW ok \in BOOLEAN, NEW start \in Starts, NEW end \in Ends, Register(start, end, ok)
      PROVE  TypeOK' /\ CallsForward'
  <2>1. group' \in Group
    BY <1>1 DEF Register, Group, NoGroup, Offsets
  <2>2. journal' \in Group /\ faults' \in Nat
    BY <1>1, <2>1, SaveType DEF Register
  <2> QED BY <1>1, <2>1, <2>2 DEF Register, ThenGate, TypeOK, CallsForward, Offsets
<1>2. ASSUME NEW ok \in BOOLEAN, Pause(ok) \/ Resume(ok) \/ Delete(ok)
      PROVE  TypeOK' /\ CallsForward'
  <2>1. group' \in Group /\ Save(ok)
    BY <1>2 DEF Pause, Resume, Delete, TypeOK, Group
  <2>2. journal' \in Group /\ faults' \in Nat
    BY <2>1, SaveType
  <2> QED BY <1>2, <2>1, <2>2 DEF Pause, Resume, Delete, ThenGate, TypeOK, CallsForward
<1>3. ASSUME NEW ok \in BOOLEAN, MoveGate(ok) PROVE TypeOK' /\ CallsForward'
  BY <1>3 DEF MoveGate, TypeOK, CallsForward
<1>4. ASSUME NEW h \in Holders, NEW limit \in Limits, ClaimPlan(h, limit)
      PROVE  TypeOK' /\ CallsForward'
  BY <1>4, PlanType DEF ClaimPlan, TypeOK
<1>5. ASSUME NEW ok \in BOOLEAN, NEW h \in Holders, ClaimCommit(h, ok)
      PROVE  TypeOK' /\ CallsForward'
  <2>1. group' \in Group /\ keys' \in Keys
    BY <1>5, CommittedType DEF ClaimCommit, TypeOK
  <2>2. journal' \in Group /\ faults' \in Nat
    BY <1>5, <2>1, SaveType DEF ClaimCommit, TypeOK
  <2>3. call' \in [Holders -> Call] /\ CallsForward'
    BY <1>5, NoCallType DEF ClaimCommit, Committing
  <2>4. /\ group'.lease \in Lease /\ group'.epoch \in Nat /\ group'.pending \in Batch
        /\ call[h].covers \in SUBSET Offsets
    BY <2>1 DEF Group, TypeOK, Call
  <2>5. /\ leases' \subseteq [holder : Holders, key : Keys, epoch : Nat]
        /\ batches' \subseteq Batch /\ told' \subseteq Offsets
    BY <1>5, <2>4 DEF ClaimCommit, TypeOK, Lease
  <2> QED BY <1>5, <2>1, <2>2, <2>3, <2>5 DEF ClaimCommit, TypeOK
<1>6. ASSUME NEW h \in Holders, ClaimReplans(h) PROVE TypeOK' /\ CallsForward'
  <2>1. group' \in Group /\ keys' \in Keys
    BY <1>6, GrantedType DEF ClaimReplans, TypeOK
  <2>2. call' \in [Holders -> Call] /\ CallsForward'
    BY <1>6, NoCallType DEF ClaimReplans, Committing
  <2> QED BY <1>6, <2>1, <2>2 DEF ClaimReplans, TypeOK
<1>7. ASSUME NEW h \in Holders, ClaimEnds(h) PROVE TypeOK' /\ CallsForward'
  BY <1>7, NoCallType DEF ClaimEnds, Committing, TypeOK
<1>8. ASSUME NEW h \in Holders, CrashInClaim(h) PROVE TypeOK' /\ CallsForward'
  <2>1. journal' \in Group /\ keys' \in Keys
    BY <1>8, CommittedType DEF CrashInClaim
  <2>2. call' \in [Holders -> Call] /\ CallsForward'
    BY <1>8, NoCallType DEF CrashInClaim, Die
  <2> QED BY <1>8, <2>1, <2>2 DEF CrashInClaim, Die, TypeOK
<1>9. ASSUME NEW ok \in BOOLEAN, NEW l \in leases, NEW b \in batches, NEW next \in Offsets,
             Settle(l, b.key, next, ok)
      PROVE  TypeOK' /\ CallsForward'
  <2>1. group' \in Group
    BY <1>9 DEF Settle, TypeOK, Group
  <2>2. journal' \in Group /\ faults' \in Nat
    BY <1>9, <2>1, SaveType DEF Settle
  <2>3. settles' \subseteq [key : Keys, epoch : Nat, next : Offsets]
    BY <1>9 DEF Settle, TypeOK
  <2> QED BY <1>9, <2>1, <2>2, <2>3 DEF Settle, ThenGate, TypeOK, CallsForward
<1>10. ASSUME NEW l \in leases, NEW b \in batches, NEW next \in Offsets,
              SettleAgain(l, b.key, next)
       PROVE  TypeOK' /\ CallsForward'
  BY <1>10 DEF SettleAgain, TypeOK, CallsForward
<1>11. ASSUME NEW key \in Keys, Expire(key) PROVE TypeOK' /\ CallsForward'
  BY <1>11 DEF Expire, TypeOK, CallsForward
<1>12. CASE SaveAll
  BY <1>12 DEF SaveAll, TypeOK, CallsForward
<1>13. CASE Arrive
  BY <1>13 DEF Arrive, TypeOK, CallsForward, Offsets
<1>14. CASE Seal
  <2>1. units' \subseteq Unit
    BY <1>14 DEF Seal, TypeOK, Unit, Offsets
  <2> QED BY <1>14, <2>1 DEF Seal, TypeOK, CallsForward
<1>15. ASSUME NEW u \in units, Quarantine(u) \/ Repair(u) \/ Evict(u)
       PROVE  TypeOK' /\ CallsForward'
  <2>1. units' \subseteq Unit
    BY <1>15, UnitsType DEF Quarantine, Repair, Evict
  <2> QED BY <1>15, <2>1 DEF Quarantine, Repair, Evict, TypeOK, CallsForward
<1>16. ASSUME NEW order \in SUBSET units, CheckOrder(order) PROVE TypeOK' /\ CallsForward'
  <2>1. checked' \subseteq Offsets
    BY <1>16 DEF CheckOrder, TypeOK, Unit
  <2> QED BY <1>16, <2>1 DEF CheckOrder, TypeOK, CallsForward
<1>17. CASE AcceptOrder
  BY <1>17 DEF AcceptOrder, TypeOK, CallsForward
<1>18. CASE Crash
  BY <1>18, NoCallType DEF Crash, Die, TypeOK
<1>19. CASE Recover
  BY <1>19 DEF Recover, Expected, TypeOK, CallsForward
<1>20. CASE UNCHANGED vars
  BY <1>20 DEF vars, TypeOK, CallsForward
<1> QED
  BY <1>1, <1>2, <1>3, <1>4, <1>5, <1>6, <1>7, <1>8, <1>9, <1>10, <1>11, <1>12, <1>13,
     <1>14, <1>15, <1>16, <1>17, <1>18, <1>19, <1>20
  DEF Next, Declarations, Settling, Claims, LogSteps

\* Every variable keeps its type, whether saves fail or not; no batch ends
\* before it begins.
THEOREM TypeCorrect == Spec => []TypeOK
<1>1. Init => TypeOK /\ CallsForward
  BY InitType
<1>2. (TypeOK /\ CallsForward) /\ [Next]_vars => (TypeOK /\ CallsForward)'
  BY NextType
<1> QED BY <1>1, <1>2, PTL DEF Spec
-----------------------------------------------------------------------------
(***************************************************************************)
(* The invariant of the group: one lemma for each kind of step.            *)
(***************************************************************************)

LEMMA SaveSucceeds ==
    ASSUME ~WriteErrors, NEW ok \in BOOLEAN, Save(ok)
    PROVE  ok /\ journal' = group'
BY DEF Save

LEMMA DueIs ==
    ASSUME NEW b
    PROVE  /\ Due(b) = {o \in b.from .. b.next - 1 : o < journal.end}
           /\ Due(b)' = {o \in b'.from .. b'.next - 1 : o < journal'.end}
BY DEF Due, Abs!Due

\* A step that leaves the group alone; the log may grow, and calls may end.
LEMMA FrameStep ==
    ASSUME TypeOK, TypeOK', GroupInv, head <= head',
           UNCHANGED <<group, journal, keys, leases, batches, told, settles, done>>,
           (pc = "down") = (pc' = "down"),
           \A h \in Holders : call'[h] = call[h] \/ call'[h] = NoCall
    PROVE  GroupInv'
<1> USE DEF GroupInv
<1>1. MemoryInv'
  BY DEF MemoryInv, NoCall
<1>2. KeysInv'
  BY DEF KeysInv, NoCall, TypeOK, Keys
<1>3. /\ head \in Int /\ head' \in Int /\ journal.pending.next \in Int
      /\ \A h \in Holders : call[h].next \in Int
  BY ConstantsAssumption DEF TypeOK, Group, Batch, Call, Offsets
<1>4. JournalInv'
  BY <1>3 DEF JournalInv, Reaches
<1>5. CallInv'
  <2> SUFFICES ASSUME NEW h \in Holders, call'[h].busy PROVE Useful(call[h])'
      BY DEF CallInv
  <2>1. call'[h] = call[h] /\ Useful(call[h])
    BY DEF NoCall, CallInv
  <2> QED BY <1>3, <2>1 DEF Useful, Reaches, Due, Abs!Due
<1>6. BatchInv'
  BY DEF BatchInv, OneBatchPerOffset, Due, Abs!Due
<1>7. SettleInv'
  BY DEF SettleInv, SettlesAreFenced
<1> QED BY <1>1, <1>2, <1>4, <1>5, <1>6, <1>7

LEMMA SameGroup == \A g \in Group : g = [g EXCEPT !.epoch = g.epoch, !.lease = g.lease]
BY DEF Group

\* What is in memory was just written.
LEMMA Synced ==
    ASSUME journal' \in Group, group' = journal', pc' # "down",
           group'.status = "none" => group' = NoGroup
    PROVE  MemoryInv'
<1>1. group' = [journal' EXCEPT !.epoch = group'.epoch, !.lease = group'.lease]
  BY SameGroup
<1>2. journal'.epoch \in Nat
  BY DEF Group
<1> QED BY <1>1, <1>2 DEF MemoryInv

LEMMA InitGroup == Init => GroupInv
<1> SUFFICES ASSUME Init PROVE GroupInv
    OBVIOUS
<1>1. group = NoGroup /\ journal = NoGroup /\ keys = 0 /\ leases = {} /\ batches = {}
      /\ settles = {} /\ pc = "up" /\ \A h \in Holders : call[h] = NoCall
  BY DEF Init
<1>2. MemoryInv
  <2>1. group = [journal EXCEPT !.epoch = group.epoch, !.lease = group.lease]
    BY <1>1, SameGroup, TypesOfGroups
  <2>2. group.epoch = 0
    BY <1>1 DEF NoGroup
  <2> QED BY <1>1, <2>1, <2>2 DEF MemoryInv
<1>3. KeysInv
  BY <1>1 DEF KeysInv, NoGroup, NoBatch, NoLease, NoCall
<1>4. JournalInv /\ CallInv
  BY <1>1 DEF JournalInv, CallInv, NoGroup, NoBatch, NoCall
<1>5. BatchInv /\ SettleInv
  BY <1>1 DEF BatchInv, SettleInv, OneBatchPerOffset, SettlesAreFenced
<1> QED BY <1>2, <1>3, <1>4, <1>5 DEF GroupInv

\* Nothing is declared: nothing is owed to anyone.
LEMMA EmptyJournal ==
    ASSUME TypeOK, GroupInv, pc # "down", group.status = "none"
    PROVE  group = NoGroup /\ journal = NoGroup
<1>1. journal.status = group.status
  BY DEF GroupInv, MemoryInv, TypeOK, Group
<1> QED BY <1>1 DEF GroupInv, MemoryInv, JournalInv

LEMMA RegisterStep ==
    ASSUME TypeOK, TypeOK', GroupInv, ~WriteErrors, NEW ok \in BOOLEAN,
           NEW start \in Starts, NEW end \in Ends, Register(start, end, ok)
    PROVE  GroupInv'
<1> USE ConstantsAssumption
<1>1. ok /\ journal' = group' /\ pc' = "gate" /\ pc = "up"
  BY SaveSucceeds DEF Register, ThenGate
<1>2. /\ group' = [NoGroup EXCEPT !.status = "active", !.start = start, !.end = end,
                                  !.checkpoint = start]
      /\ leases' = {} /\ batches' = {} /\ settles' = {} /\ done' = start
      /\ UNCHANGED <<call, keys, head>>
  BY DEF Register, log, gc, gates
<1>3. /\ group'.lease = NoLease /\ group'.pending = NoBatch /\ group'.settled = NoBatch
      /\ group'.checkpoint = start /\ group'.epoch = 0 /\ group'.status = "active"
  BY <1>2 DEF NoGroup
<1>4. start \in Nat /\ keys \in Nat
  BY DEF TypeOK, Keys, Offsets
<1>5. MemoryInv'
  <2>1. journal' \in Group
    BY DEF TypeOK
  <2> QED BY <1>1, <1>3, <2>1, Synced
<1>6. KeysInv'
  BY <1>1, <1>2, <1>3, <1>4 DEF KeysInv, GroupInv, NoLease, NoBatch
<1>7. JournalInv'
  BY <1>1, <1>2, <1>3, <1>4 DEF JournalInv, NoBatch
<1>8. CallInv'
  BY <1>1, <1>2, <1>3 DEF CallInv, GroupInv, Useful, Reaches, NoBatch
<1>9. BatchInv' /\ SettleInv'
  BY <1>1, <1>2, <1>3 DEF BatchInv, SettleInv, OneBatchPerOffset, SettlesAreFenced
<1> QED BY <1>5, <1>6, <1>7, <1>8, <1>9 DEF GroupInv

LEMMA DeleteStep ==
    ASSUME TypeOK, TypeOK', GroupInv, ~WriteErrors, NEW ok \in BOOLEAN, Delete(ok)
    PROVE  GroupInv'
<1> USE ConstantsAssumption
<1>1. ok /\ journal' = NoGroup /\ group' = NoGroup /\ pc' = "gate" /\ pc = "up"
  BY SaveSucceeds DEF Delete, ThenGate
<1>2. UNCHANGED <<call, keys, head, leases, batches, told, settles, done>>
  BY DEF Delete, log, gc, gates, history
<1>3. keys \in Nat
  BY DEF TypeOK, Keys
<1>4. MemoryInv' /\ JournalInv'
  BY <1>1, Synced, TypesOfGroups DEF JournalInv, NoGroup, NoBatch
<1>5. KeysInv'
  BY <1>1, <1>2, <1>3 DEF KeysInv, GroupInv, NoGroup, NoLease, NoBatch
<1>6. CallInv'
  BY <1>1, <1>2 DEF CallInv, GroupInv, Useful, Reaches, NoGroup, NoBatch
<1>7. BatchInv'
  BY <1>1, <1>2 DEF BatchInv, GroupInv, OneBatchPerOffset, NoGroup
<1>8. SettleInv'
  BY <1>1, <1>2, <1>3 DEF SettleInv, GroupInv, KeysInv, SettlesAreFenced, NoGroup, NoLease
<1> QED BY <1>4, <1>5, <1>6, <1>7, <1>8 DEF GroupInv

\* The group is saved as it is in memory, perhaps with another status or
\* without its lease.
LEMMA RewriteStep ==
    ASSUME TypeOK, TypeOK', GroupInv, pc # "down", pc' # "down",
           group.status # "none", group'.status # "none",
           group' = [group EXCEPT !.status = group'.status, !.lease = group'.lease],
           group'.lease \in {group.lease, NoLease}, journal' = group',
           UNCHANGED <<call, keys, head, leases, batches, told, settles, done>>
    PROVE  GroupInv'
<1> USE ConstantsAssumption
<1>1. group \in Group /\ journal \in Group /\ keys \in Nat
  BY DEF TypeOK, Keys
<1>2. /\ group' \in Group /\ group'.checkpoint = group.checkpoint /\ group'.pending = group.pending
      /\ group'.settled = group.settled /\ group'.end = group.end /\ group'.epoch = group.epoch
      /\ group'.epoch \in Nat
  BY <1>1 DEF Group, TypeOK
<1>3. /\ group.checkpoint = journal.checkpoint /\ group.pending = journal.pending
      /\ group.settled = journal.settled /\ group.end = journal.end
      /\ group.status = journal.status /\ journal.status # "none"
  BY <1>1 DEF Group, GroupInv, MemoryInv
<1>4. MemoryInv'
  BY <1>2, Synced
<1>5. KeysInv'
  BY <1>1, <1>2 DEF KeysInv, GroupInv, NoLease
<1>6. JournalInv'
  BY <1>2, <1>3 DEF JournalInv, GroupInv, Reaches
<1>7. CallInv'
  BY <1>2, <1>3 DEF CallInv, GroupInv, Useful, Reaches, Due, Abs!Due
<1>8. BatchInv'
  BY <1>2, <1>3 DEF BatchInv, GroupInv, OneBatchPerOffset, Due, Abs!Due
<1>9. SettleInv'
  <2>1. \A l \in leases : l.key # 0
    BY DEF GroupInv, KeysInv
  <2>2. \A l \in leases : l.key = group'.lease.key => l.epoch = group'.epoch
    BY <1>2, <2>1 DEF GroupInv, SettleInv, NoLease
  <2>3. journal.epoch \in Nat /\ group.epoch \in Nat /\ journal.epoch <= group.epoch
        /\ \A s \in settles : s.epoch \in Nat
    BY <1>1 DEF GroupInv, MemoryInv, Group, TypeOK
  <2>4. ASSUME NEW s \in settles
        PROVE  /\ s.next <= journal'.checkpoint
               /\ s.epoch <= journal'.epoch
               /\ s.epoch = journal'.epoch => journal'.lease.key \in {0, s.key}
    <3>1. s.next <= journal.checkpoint /\ s.epoch <= journal.epoch
          /\ (s.epoch = journal.epoch => journal.lease.key \in {0, s.key})
      BY <1>3 DEF GroupInv, SettleInv
    <3>2. group.epoch = journal.epoch => group.lease = journal.lease
      BY DEF GroupInv, MemoryInv
    <3>3. group'.lease.key \in {group.lease.key, 0}
      BY DEF NoLease
    <3> QED BY <1>2, <1>3, <2>3, <3>1, <3>2, <3>3
  <2> QED BY <2>2, <2>4 DEF SettleInv, GroupInv, SettlesAreFenced
<1> QED BY <1>4, <1>5, <1>6, <1>7, <1>8, <1>9 DEF GroupInv

\* What memory and disk agree on while the process is up.
LEMMA Agreement ==
    ASSUME TypeOK, GroupInv, pc # "down"
    PROVE  /\ group \in Group /\ journal \in Group
           /\ group.status = journal.status /\ group.end = journal.end
           /\ group.checkpoint = journal.checkpoint /\ group.start = journal.start
           /\ group.pending = journal.pending /\ group.settled = journal.settled
           /\ group.epoch \in Nat /\ journal.epoch \in Nat /\ journal.epoch <= group.epoch
           /\ group.epoch = journal.epoch => group.lease = journal.lease
BY DEF TypeOK, GroupInv, MemoryInv, Group

LEMMA PlanStep ==
    ASSUME TypeOK, TypeOK', GroupInv, NEW h \in Holders, NEW limit \in Limits,
           ClaimPlan(h, limit)
    PROVE  GroupInv'
<1> USE ConstantsAssumption
<1> DEFINE b == group.pending
<1>1. /\ pc = "up" /\ pc' = pc /\ group.status = "active"
      /\ UNCHANGED <<group, journal, head, units, keys, leases, batches, told, settles, done>>
  BY DEF ClaimPlan, log, gc, gates, history, counts
<1>2. /\ b = journal.pending /\ group.checkpoint = journal.checkpoint /\ group.end = journal.end
      /\ b \in Batch /\ group.checkpoint \in Offsets /\ group.end \in Int /\ head \in Offsets
      /\ limit \in Nat /\ NoEnd \in Nat
  BY <1>1, Agreement DEF Group, NoEnd, TypeOK
<1>3. PICK next \in Offsets, covers \in SUBSET Offsets :
          /\ IF b.key # 0
             THEN \E stop \in {b.next, group.end} :
                     /\ stop <= b.next /\ stop <= group.end
                     /\ IsScan(b.from, stop, NoEnd, covers, next)
             ELSE IsScan(group.checkpoint, group.end, limit, covers, next)
          /\ call' = [call EXCEPT ![h] =
                [busy |-> TRUE, key |-> b.key, covers |-> covers,
                 from |-> IF b.key # 0 THEN b.from ELSE group.checkpoint,
                 next |-> IF b.key # 0 THEN b.next ELSE next]]
  BY DEF ClaimPlan
<1>4. /\ b.key \in Nat /\ b.from \in Offsets /\ b.next \in Offsets /\ b.from <= b.next
      /\ b.from \in Int /\ b.next \in Int
  BY <1>2 DEF Batch, Keys, Offsets
<1>5. b.key # 0 => covers \subseteq b.from .. b.next - 1 /\ Due(b) \subseteq covers
  <2> SUFFICES ASSUME b.key # 0
               PROVE  covers \subseteq b.from .. b.next - 1 /\ Due(b) \subseteq covers
      OBVIOUS
  <2>1. PICK stop \in {b.next, group.end} :
            /\ stop <= b.next /\ stop <= group.end
            /\ IsScan(b.from, stop, NoEnd, covers, next)
    BY <1>3
  <2>2. /\ stop \in Int /\ covers = b.from .. next - 1
        /\ Visible(b.from, stop) \subseteq covers
        /\ next = b.from \/ (next <= head /\ next <= stop)
    BY <1>2, <1>4, <2>1, ScanCovers
  <2>3. b.next <= head \/ b.next = b.from
    BY <1>2 DEF GroupInv, JournalInv, Reaches
  <2>4. Due(b) \subseteq Visible(b.from, stop)
    <3> SUFFICES ASSUME NEW o \in Due(b)
                 PROVE  o \in Visible(b.from, stop)
        OBVIOUS
    <3>1. o \in b.from .. b.next - 1 /\ o < journal.end
      BY DueIs
    <3>2. o \in Int /\ b.from <= o /\ o < b.next /\ o < group.end
      BY <1>2, <1>4, <3>1
    <3>3. o < stop
      BY <2>1, <3>2
    <3>4. o \in b.from .. head - 1
      BY <1>2, <1>4, <2>3, <3>2 DEF Offsets
    <3> QED BY <3>3, <3>4 DEF Visible
  <2>5. covers \subseteq b.from .. b.next - 1
    BY <1>4, <2>1, <2>2 DEF Offsets
  <2> QED BY <2>2, <2>4, <2>5
<1>6. b.key = 0 =>
         /\ group.checkpoint <= next
         /\ next = group.checkpoint \/ next <= head
         /\ covers = group.checkpoint .. next - 1
  BY <1>2, <1>3, ScanCovers
<1>7. /\ call'[h] = [busy |-> TRUE, key |-> b.key, covers |-> covers,
                     from |-> IF b.key # 0 THEN b.from ELSE group.checkpoint,
                     next |-> IF b.key # 0 THEN b.next ELSE next]
      /\ \A i \in Holders : i # h => call'[i] = call[i]
  BY <1>3 DEF TypeOK
<1>8. b.key <= keys
  BY DEF GroupInv, KeysInv
<1> HIDE DEF b
<1>9. Useful(call[h])'
  BY <1>1, <1>2, <1>4, <1>5, <1>6, <1>7 DEF Useful, Reaches, Due, Abs!Due
<1>10. CallInv'
  BY <1>1, <1>7, <1>9 DEF GroupInv, CallInv, Useful, Reaches, Due, Abs!Due
<1>11. KeysInv'
  BY <1>1, <1>7, <1>8 DEF GroupInv, KeysInv
<1>12. MemoryInv' /\ JournalInv'
  BY <1>1 DEF GroupInv, MemoryInv, JournalInv, Reaches
<1>13. BatchInv' /\ SettleInv'
  BY <1>1 DEF GroupInv, BatchInv, SettleInv, OneBatchPerOffset, SettlesAreFenced, Due, Abs!Due
<1> QED BY <1>10, <1>11, <1>12, <1>13 DEF GroupInv

\* What a commit makes of the group: the same batch, or the one that was
\* planned; the same lease, or a new one.
LEMMA CommittedFacts ==
    ASSUME TypeOK, CallsForward, GroupInv, pc # "down",
           NEW h \in Holders, call[h].busy, CanCommit(h)
    PROVE  /\ Committed(h) \in Group
           /\ journal.status = "active"
           /\ Committed(h).status = "active" /\ Committed(h).end = journal.end
           /\ Committed(h).start = journal.start
           /\ Committed(h).checkpoint = journal.checkpoint
           /\ Committed(h).settled = journal.settled
           /\ \/ /\ Committed(h).pending = journal.pending
                 /\ journal.pending.key # 0 /\ journal.pending.key = call[h].key
              \/ /\ journal.pending.key = 0 /\ call[h].key = 0
                 /\ call[h].from = journal.checkpoint
                 /\ Committed(h).pending = [key |-> keys + 1, from |-> journal.checkpoint,
                                            next |-> call[h].next]
                 /\ Committed(h).pending.key = keys + 1
           /\ \/ /\ Committed(h).lease = group.lease /\ Committed(h).epoch = group.epoch
                 /\ group.lease.key # 0
              \/ Committed(h).lease.key = keys + 1 /\ Committed(h).epoch = group.epoch + 1
<1> USE ConstantsAssumption
<1>1. /\ group \in Group /\ group.status = journal.status /\ group.end = journal.end
      /\ group.checkpoint = journal.checkpoint /\ group.start = journal.start
      /\ group.pending = journal.pending /\ group.settled = journal.settled
      /\ group.status = "active"
  BY Agreement DEF CanCommit
<1>2. Committed(h) \in Group
  BY CommittedType
<1> DEFINE g == Granted(h)
<1>3. /\ g \in Group
      /\ g.status = group.status /\ g.end = group.end /\ g.start = group.start
      /\ g.checkpoint = group.checkpoint
      /\ g.pending = group.pending /\ g.settled = group.settled
      /\ \/ g.lease = group.lease /\ g.epoch = group.epoch /\ group.lease.key # 0
         \/ g.lease.key = keys + 1 /\ g.epoch = group.epoch + 1
  <2>1. g \in Group
    BY GrantedType DEF CanCommit
  <2> QED BY <1>1, <2>1 DEF Granted, LeaseLive, Group
<1>4. CASE Creation(h)
  <2>1. Committed(h) = [g EXCEPT !.pending = [key |-> keys + 1, from |-> group.checkpoint,
                                              next |-> call[h].next]]
    BY <1>4 DEF Committed
  <2> HIDE DEF g
  <2>2. /\ Committed(h).status = g.status /\ Committed(h).end = g.end
        /\ Committed(h).start = g.start
        /\ Committed(h).checkpoint = g.checkpoint /\ Committed(h).settled = g.settled
        /\ Committed(h).lease = g.lease /\ Committed(h).epoch = g.epoch
        /\ Committed(h).pending = [key |-> keys + 1, from |-> group.checkpoint,
                                   next |-> call[h].next]
        /\ Committed(h).pending.key = keys + 1
    BY <1>3, <2>1 DEF Group
  <2>3. group.pending.key = 0 /\ call[h].key = 0 /\ call[h].from = group.checkpoint
    BY <1>4 DEF Creation
  <2> QED BY <1>1, <1>2, <1>3, <2>2, <2>3
<1>5. CASE ~Creation(h)
  <2>1. Committed(h) = g /\ group.pending.key # 0 /\ group.pending.key = call[h].key
    BY <1>5 DEF Committed, CanCommit, Redelivery
  <2> HIDE DEF g
  <2> QED BY <1>1, <1>2, <1>3, <2>1
<1> QED BY <1>4, <1>5

\* Neither the lease nor the epoch a commit leaves behind is one somebody
\* else settled under.
LEMMA CommittedFences ==
    ASSUME TypeOK, CallsForward, GroupInv, pc # "down",
           NEW h \in Holders, call[h].busy, CanCommit(h)
    PROVE  /\ \A l \in leases : l.key = Committed(h).lease.key => l.epoch = Committed(h).epoch
           /\ \A s \in settles :
                 /\ s.next <= Committed(h).checkpoint
                 /\ s.epoch <= Committed(h).epoch
                 /\ s.epoch = Committed(h).epoch => Committed(h).lease.key \in {0, s.key}
<1>1. /\ \A l \in leases : l.key \in 1 .. keys
      /\ keys \in Nat
  BY DEF GroupInv, KeysInv, TypeOK, Keys
<1>2. /\ group.epoch \in Nat /\ journal.epoch \in Nat /\ journal.epoch <= group.epoch
      /\ group.epoch = journal.epoch => group.lease = journal.lease
      /\ \A s \in settles : s.epoch \in Nat
  BY Agreement DEF TypeOK
<1>3. /\ journal.status # "none"
      /\ Committed(h).checkpoint = journal.checkpoint
      /\ \/ Committed(h).lease = group.lease /\ Committed(h).epoch = group.epoch
         \/ Committed(h).lease.key = keys + 1 /\ Committed(h).epoch = group.epoch + 1
  BY CommittedFacts
<1>4. \A l \in leases : l.key = Committed(h).lease.key => l.epoch = Committed(h).epoch
  BY <1>1, <1>3 DEF GroupInv, SettleInv
<1>5. ASSUME NEW s \in settles
      PROVE  /\ s.next <= Committed(h).checkpoint
             /\ s.epoch <= Committed(h).epoch
             /\ s.epoch = Committed(h).epoch => Committed(h).lease.key \in {0, s.key}
  <2>1. /\ s.next <= journal.checkpoint /\ s.epoch <= journal.epoch
        /\ s.epoch = journal.epoch => journal.lease.key \in {0, s.key}
    BY <1>3 DEF GroupInv, SettleInv
  <2> QED BY <1>2, <1>3, <2>1
<1> QED BY <1>4, <1>5

\* The batch that was on offer is handed out again, or the new one for the
\* first time.
LEMMA CommitBatches ==
    ASSUME TypeOK, TypeOK', CallsForward, GroupInv, pc # "down", NEW h \in Holders,
           call[h].busy, CanCommit(h), journal'.status = "active",
           journal'.pending = Committed(h).pending, journal'.end = journal.end,
           journal'.checkpoint = journal.checkpoint,
           batches' = batches \cup {journal'.pending},
           told' = told \cup call[h].covers
    PROVE  BatchInv'
<1> DEFINE p == journal'.pending
           Owed(b) == {o \in b.from .. b.next - 1 : o < journal.end}
<1>1. \A b \in batches : b.key \in 1 .. keys
  BY DEF GroupInv, KeysInv
<1>2. /\ journal.status = "active" /\ keys \in Nat
      /\ p.key # 0 /\ p.from = journal.checkpoint
      /\ Owed(p) \subseteq told'
      /\ \A b \in batches : IF b.key = p.key
                            THEN b = p
                            ELSE b.next <= journal.checkpoint
  <2>0. keys \in Nat
    BY DEF TypeOK, Keys
  <2>1. journal.status = "active" /\ keys \in Nat
    BY <2>0, CommittedFacts
  <2>2. CASE /\ p = journal.pending
             /\ journal.pending.key # 0 /\ journal.pending.key = call[h].key
    <3>1. Useful(call[h]) /\ p.from = journal.checkpoint
      BY <2>2 DEF GroupInv, CallInv, JournalInv
    <3>2. Owed(p) = Due(journal.pending)
      BY <2>2, DueIs
    <3> QED BY <2>1, <2>2, <3>1, <3>2 DEF GroupInv, BatchInv, Useful
  <2>3. CASE /\ journal.pending.key = 0 /\ call[h].key = 0
             /\ call[h].from = journal.checkpoint
             /\ p = [key |-> keys + 1, from |-> journal.checkpoint, next |-> call[h].next]
    <3>1. call[h].covers = call[h].from .. call[h].next - 1
      BY <2>3 DEF GroupInv, CallInv, Useful
    <3>2. p.key = keys + 1 /\ p.from = journal.checkpoint /\ p.next = call[h].next
      BY <2>3
    <3> HIDE DEF p
    <3>3. Owed(p) \subseteq call[h].covers
      BY <2>3, <3>1, <3>2
    <3>4. \A b \in batches : b.key # p.key /\ b.next <= journal.checkpoint
      BY <1>1, <2>1, <2>3, <3>2 DEF GroupInv, BatchInv
    <3> QED BY <2>1, <3>2, <3>3, <3>4 DEF p
  <2> QED BY <2>1, <2>2, <2>3, CommittedFacts
<1> HIDE DEF p
<1>3. batches' = batches \cup {p}
  BY DEF p
<1>4. OneBatchPerOffset'
  <2>1. \A b, c \in batches : b # c => b.next <= c.from \/ c.next <= b.from
    BY DEF GroupInv, BatchInv, OneBatchPerOffset
  <2>2. \A b \in batches : b # p => b.next <= p.from
    BY <1>2
  <2> QED BY <1>3, <2>1, <2>2 DEF OneBatchPerOffset
<1>5. \A b \in batches' : IF b.key = p.key
                          THEN b = p /\ Owed(p) \subseteq told'
                          ELSE b.next <= journal'.checkpoint
  BY <1>2, <1>3
<1>6. ASSUME NEW b \in batches'
      PROVE  (IF b.key = journal.pending.key
              THEN b = journal.pending /\ Due(b) \subseteq told
              ELSE b.next <= journal.checkpoint)'
  <2>1. Due(b)' = Owed(b)
    BY DEF Due, Abs!Due
  <2> QED BY <1>5, <2>1 DEF p
<1> QED BY <1>4, <1>6 DEF BatchInv

\* The group of a commit is on disk.
LEMMA CommitJournal ==
    ASSUME TypeOK, TypeOK', CallsForward, GroupInv, pc # "down", NEW h \in Holders,
           call[h].busy, CanCommit(h), journal' = Committed(h),
           keys' = keys + 1, UNCHANGED <<head, done>>,
           \A i \in Holders : call'[i] = call[i] \/ call'[i] = NoCall
    PROVE  /\ JournalInv' /\ CallInv'
           /\ journal'.lease.key <= keys' /\ journal'.pending.key <= keys'
           /\ \A i \in Holders : call'[i].key <= keys'
<1>1. keys \in Nat /\ keys' \in Nat /\ \A i \in Holders : call[i].key \in Nat
  BY DEF TypeOK, Keys, Call
<1>2. /\ journal'.status = "active" /\ journal.status = "active"
      /\ journal'.end = journal.end /\ journal'.checkpoint = journal.checkpoint
      /\ journal'.settled = journal.settled
      /\ \/ /\ journal'.pending = journal.pending
            /\ journal.pending.key # 0 /\ journal.pending.key = call[h].key
         \/ /\ journal.pending.key = 0 /\ call[h].key = 0
            /\ call[h].from = journal.checkpoint
            /\ journal'.pending = [key |-> keys + 1, from |-> journal.checkpoint,
                                   next |-> call[h].next]
      /\ journal'.lease = group.lease \/ journal'.lease.key = keys + 1
  BY CommittedFacts
<1>3. /\ group.lease.key <= keys /\ journal.pending.key <= keys
      /\ \A i \in Holders : call[i].key <= keys
      /\ group.lease.key \in Nat /\ journal.pending.key \in Nat
  <2>1. group.lease.key \in Nat /\ journal.pending.key \in Nat
    BY DEF TypeOK, Group, Lease, Batch, Keys
  <2> QED BY <2>1 DEF GroupInv, KeysInv
<1>4. journal'.lease.key <= keys'
  BY <1>1, <1>2, <1>3
<1>5. journal'.pending.key <= keys'
  BY <1>1, <1>2, <1>3
<1>6. \A i \in Holders : call'[i].key <= keys'
  BY <1>1, <1>3 DEF NoCall
<1>7. JournalInv'
  <2>1. journal'.pending.key # 0 =>
           journal'.pending.from = journal'.checkpoint /\ Reaches(journal.pending)'
    <3>1. call[h].key = 0 => Reaches(call[h])
      BY DEF GroupInv, CallInv, Useful
    <3> QED BY <1>2, <3>1 DEF GroupInv, JournalInv, Reaches
  <2> QED BY <1>2, <2>1 DEF GroupInv, JournalInv
<1>8. CallInv'
  <2> SUFFICES ASSUME NEW i \in Holders, call'[i].busy PROVE Useful(call[i])'
      BY DEF CallInv
  <2>1. call'[i] = call[i] /\ Useful(call[i]) /\ call[i].key <= keys
    BY <1>3 DEF NoCall, GroupInv, CallInv
  <2>2. CASE journal'.pending = journal.pending
    BY <1>2, <2>1, <2>2 DEF Useful, Reaches, Due, Abs!Due
  <2>3. CASE journal'.pending.key = keys + 1
    <3>1. call[i].key # keys + 1
      BY <1>1, <2>1
    <3> QED BY <2>1, <2>3, <3>1 DEF Useful, Reaches
  <2> QED BY <1>2, <2>2, <2>3
<1> QED BY <1>4, <1>5, <1>6, <1>7, <1>8

LEMMA CommitStep ==
    ASSUME TypeOK, TypeOK', CallsForward, GroupInv, ~WriteErrors,
           NEW ok \in BOOLEAN, NEW h \in Holders, ClaimCommit(h, ok)
    PROVE  GroupInv'
<1> USE ConstantsAssumption
<1>1. /\ pc = "up" /\ pc' = pc /\ call[h].busy /\ CanCommit(h)
      /\ call' = [call EXCEPT ![h] = NoCall]
      /\ group' = Committed(h) /\ ok
      /\ leases' = leases \cup {[holder |-> h, key |-> group'.lease.key, epoch |-> group'.epoch]}
      /\ batches' = batches \cup {group'.pending}
      /\ told' = told \cup call[h].covers
      /\ UNCHANGED <<head, settles, done>>
      /\ IF group' = group THEN keys' = keys /\ journal' = journal
                           ELSE keys' = keys + 1 /\ journal' = group'
  BY SaveSucceeds DEF ClaimCommit, Committing, log
<1>2. \A i \in Holders : call'[i] = call[i] \/ call'[i] = NoCall
  BY <1>1 DEF TypeOK
<1>3. /\ group' \in Group /\ journal' \in Group /\ keys \in Nat /\ keys' \in Nat
      /\ group'.lease.key \in Nat /\ group'.pending.key \in Nat
      /\ group'.epoch \in Nat /\ group.epoch \in Nat
  BY DEF TypeOK, Keys, Group, Lease, Batch
<1>4. /\ group'.status = "active" /\ group'.end = journal.end
      /\ group'.checkpoint = journal.checkpoint
      /\ \/ group'.pending = journal.pending /\ journal.pending.key # 0
         \/ journal.pending.key = 0 /\ group'.pending.key = keys + 1
      /\ \/ /\ group'.lease = group.lease /\ group'.epoch = group.epoch
            /\ group.lease.key # 0
         \/ group'.lease.key = keys + 1 /\ group'.epoch = group.epoch + 1
  <2>1. pc # "down"
    BY <1>1
  <2>2. \/ Committed(h).pending = journal.pending /\ journal.pending.key # 0
        \/ journal.pending.key = 0 /\ Committed(h).pending.key = keys + 1
    BY <1>1, <2>1, CommittedFacts
  <2>3. /\ Committed(h).status = "active" /\ Committed(h).end = journal.end
        /\ Committed(h).checkpoint = journal.checkpoint
        /\ \/ /\ Committed(h).lease = group.lease /\ Committed(h).epoch = group.epoch
              /\ group.lease.key # 0
           \/ Committed(h).lease.key = keys + 1 /\ Committed(h).epoch = group.epoch + 1
    BY <1>1, <2>1, CommittedFacts
  <2> QED BY <1>1, <2>2, <2>3
<1>5. /\ group.pending = journal.pending /\ group.checkpoint = journal.checkpoint
      /\ group.end = journal.end /\ group.status = journal.status
  BY <1>1, Agreement
<1>6. /\ journal'.status = "active" /\ journal'.pending = group'.pending
      /\ journal'.end = journal.end /\ journal'.checkpoint = journal.checkpoint
  BY <1>1, <1>4, <1>5
<1>7. BatchInv'
  BY <1>1, <1>6, CommitBatches
<1>8. KeysInv' /\ JournalInv' /\ CallInv'
  <2>1. CASE group' = group
    <3>1. JournalInv'
      BY <1>1, <2>1 DEF GroupInv, JournalInv, Reaches
    <3>2. CallInv'
      <4> SUFFICES ASSUME NEW i \in Holders, call'[i].busy PROVE Useful(call[i])'
          BY DEF CallInv
      <4>1. call'[i] = call[i] /\ Useful(call[i])
        BY <1>2 DEF NoCall, GroupInv, CallInv
      <4> QED BY <1>1, <2>1, <4>1 DEF Useful, Reaches, Due, Abs!Due
    <3>3. group'.lease.key \in 1 .. keys /\ group'.pending.key \in 1 .. keys
      BY <1>3, <1>4, <1>5, <2>1 DEF GroupInv, KeysInv
    <3>4. KeysInv'
      BY <1>1, <1>2, <1>3, <2>1, <3>3 DEF GroupInv, KeysInv, NoCall
    <3> QED BY <3>1, <3>2, <3>4
  <2>2. CASE group' # group
    <3>1. journal' = Committed(h) /\ journal' = group' /\ keys' = keys + 1
      BY <1>1, <2>2
    <3>2. /\ JournalInv' /\ CallInv'
          /\ journal'.lease.key <= keys' /\ journal'.pending.key <= keys'
          /\ \A i \in Holders : call'[i].key <= keys'
      BY <1>1, <1>2, <3>1, CommitJournal
    <3>3. group'.lease.key \in 1 .. keys' /\ group'.pending.key \in 1 .. keys'
      BY <1>3, <1>4, <3>1, <3>2
    <3>4. KeysInv'
      BY <1>1, <1>3, <3>1, <3>2, <3>3 DEF GroupInv, KeysInv
    <3> QED BY <3>2, <3>4
  <2> QED BY <2>1, <2>2
<1>9. MemoryInv'
  <2>1. CASE group' = group
    BY <1>1, <2>1 DEF GroupInv, MemoryInv, NoCall
  <2>2. CASE group' # group
    BY <1>1, <1>3, <1>4, <2>2, Synced
  <2> QED BY <2>1, <2>2
<1>10. SettleInv'
  <2>1. /\ \A l \in leases : l.key = group'.lease.key => l.epoch = group'.epoch
        /\ \A s \in settles :
              /\ s.next <= group'.checkpoint
              /\ s.epoch <= group'.epoch
              /\ s.epoch = group'.epoch => group'.lease.key \in {0, s.key}
    BY <1>1, CommittedFences
  <2>2. \A l \in leases' : l.key = group'.lease.key => l.epoch = group'.epoch
    BY <1>1, <2>1
  <2>3. SettlesAreFenced'
    BY <1>1 DEF GroupInv, SettleInv, SettlesAreFenced
  <2>4. CASE group' # group
    BY <1>1, <2>1, <2>2, <2>3, <2>4 DEF SettleInv
  <2>5. CASE group' = group
    <3>1. journal' = journal /\ settles' = settles
      BY <1>1, <2>5
    <3>2. group.lease.key # 0
      BY <1>3, <1>4, <2>5
    <3>3. group.lease.key = journal.lease.key => group.epoch = journal.epoch
      BY <1>1, <3>2 DEF GroupInv, MemoryInv
    <3>4. \A l \in leases' : l.key = journal.lease.key => l.epoch = journal.epoch
      BY <1>1, <2>5, <3>3 DEF GroupInv, SettleInv
    <3> QED BY <2>2, <2>3, <3>1, <3>4 DEF GroupInv, SettleInv
  <2> QED BY <2>4, <2>5
<1> QED BY <1>7, <1>8, <1>9, <1>10 DEF GroupInv

LEMMA CrashInClaimStep ==
    ASSUME TypeOK, TypeOK', CallsForward, GroupInv, NEW h \in Holders, CrashInClaim(h)
    PROVE  GroupInv'
<1> USE ConstantsAssumption
<1>1. /\ pc = "up" /\ pc' = "down" /\ call[h].busy /\ CanCommit(h)
      /\ call' = [i \in Holders |-> NoCall] /\ group' = NoGroup
      /\ journal' = Committed(h) /\ keys' = keys + 1
      /\ UNCHANGED <<head, leases, batches, told, settles, done>>
  BY DEF CrashInClaim, Die, log, history
<1>2. \A i \in Holders : call'[i] = NoCall
  BY <1>1
<1>3. keys \in Nat /\ \A b \in batches : b.key \in 1 .. keys
  BY DEF TypeOK, Keys, GroupInv, KeysInv
<1>4. /\ journal'.status = "active" /\ journal'.end = journal.end
      /\ journal'.checkpoint = journal.checkpoint /\ journal.status = "active"
      /\ \/ journal'.pending = journal.pending
         \/ journal.pending.key = 0 /\ journal'.pending.key = keys + 1
  <2>1. pc # "down"
    BY <1>1
  <2>2. \/ Committed(h).pending = journal.pending
        \/ journal.pending.key = 0 /\ Committed(h).pending.key = keys + 1
    BY <1>1, <2>1, CommittedFacts
  <2>3. /\ Committed(h).status = "active" /\ Committed(h).end = journal.end
        /\ Committed(h).checkpoint = journal.checkpoint /\ journal.status = "active"
    BY <1>1, <2>1, CommittedFacts
  <2> QED BY <1>1, <2>2, <2>3
<1>5. /\ JournalInv' /\ CallInv'
      /\ journal'.lease.key <= keys' /\ journal'.pending.key <= keys'
      /\ \A i \in Holders : call'[i].key <= keys'
  BY <1>1, <1>2, CommitJournal
<1>6. KeysInv'
  BY <1>1, <1>3, <1>5 DEF GroupInv, KeysInv, NoGroup, NoLease, NoBatch
<1>7. MemoryInv'
  BY <1>1, <1>2 DEF MemoryInv, NoCall
<1>8. BatchInv'
  <2>1. CASE journal'.pending = journal.pending
    BY <1>1, <1>4, <2>1 DEF GroupInv, BatchInv, OneBatchPerOffset, Due, Abs!Due
  <2>2. CASE journal.pending.key = 0 /\ journal'.pending.key = keys + 1
    BY <1>1, <1>3, <1>4, <2>2 DEF GroupInv, BatchInv, OneBatchPerOffset
  <2> QED BY <1>4, <2>1, <2>2
<1>9. SettleInv'
  <2>1. /\ \A l \in leases : l.key = journal'.lease.key => l.epoch = journal'.epoch
        /\ \A s \in settles :
              /\ s.next <= journal'.checkpoint
              /\ s.epoch <= journal'.epoch
              /\ s.epoch = journal'.epoch => journal'.lease.key \in {0, s.key}
    BY <1>1, CommittedFences
  <2>2. \A l \in leases : l.key # group'.lease.key
    BY <1>1, <1>3 DEF GroupInv, KeysInv, NoGroup, NoLease
  <2> QED BY <1>1, <2>1, <2>2 DEF GroupInv, SettleInv, SettlesAreFenced
<1> QED BY <1>5, <1>6, <1>7, <1>8, <1>9 DEF GroupInv

\* A lease is granted in memory.
LEMMA ReplanStep ==
    ASSUME TypeOK, TypeOK', GroupInv, NEW h \in Holders, ClaimReplans(h)
    PROVE  GroupInv'
<1> USE ConstantsAssumption
<1>1. /\ pc = "up" /\ pc' = pc /\ group.status = "active" /\ group' = Granted(h)
      /\ LeaseLive \/ keys < MaxKeys
      /\ keys' = IF group' = group THEN keys ELSE keys + 1
      /\ call' = [call EXCEPT ![h] = NoCall]
      /\ UNCHANGED <<head, journal, leases, batches, told, settles, done>>
  BY DEF ClaimReplans, Committing, log, gc, gates, history
<1>2. \A i \in Holders : call'[i] = call[i] \/ call'[i] = NoCall
  BY <1>1 DEF TypeOK
<1>3. CASE group' = group
  BY <1>1, <1>2, <1>3, FrameStep DEF TypeOK, Offsets
<1>4. CASE group' # group
  <2>1. /\ group' = [group EXCEPT !.epoch = @ + 1, !.lease = [holder |-> h, key |-> keys + 1]]
        /\ keys' = keys + 1
    BY <1>1, <1>4 DEF Granted
  <2>2. /\ group \in Group /\ journal \in Group /\ keys \in Nat
        /\ group.pending = journal.pending /\ group.epoch \in Nat /\ journal.epoch \in Nat
        /\ journal.epoch <= group.epoch
    BY <1>1, Agreement DEF TypeOK, Keys
  <2>3. /\ group'.epoch = group.epoch + 1 /\ group'.lease.key = keys + 1
        /\ group'.pending = group.pending /\ group'.status = "active"
    BY <1>1, <2>1, <2>2 DEF Group
  <2>4. /\ journal.lease.key <= keys /\ journal.lease.key \in Nat
        /\ group.pending.key <= keys /\ group.pending.key \in Nat
        /\ \A l \in leases : l.key \in 1 .. keys
        /\ \A b \in batches : b.key \in 1 .. keys
        /\ \A i \in Holders : call[i].key \in Nat /\ call[i].key <= keys
    BY <2>2 DEF GroupInv, KeysInv, Group, Lease, Batch, Keys, TypeOK, Call
  <2>5. MemoryInv'
    <3>1. group = [journal EXCEPT !.epoch = group.epoch, !.lease = group.lease]
      BY <1>1 DEF GroupInv, MemoryInv
    <3>2. group' = [journal EXCEPT !.epoch = group'.epoch, !.lease = group'.lease]
      BY <2>1, <2>2, <3>1 DEF Group
    <3>3. journal'.epoch <= group'.epoch /\ group'.epoch # journal'.epoch
          /\ group'.lease.key # journal'.lease.key
      BY <1>1, <2>2, <2>3, <2>4
    <3> QED BY <1>1, <2>3, <3>2, <3>3 DEF MemoryInv
  <2>6. KeysInv'
    BY <1>1, <1>2, <2>1, <2>2, <2>3, <2>4 DEF GroupInv, KeysInv, NoCall
  <2>7. JournalInv' /\ BatchInv'
    BY <1>1 DEF GroupInv, JournalInv, BatchInv, Reaches, OneBatchPerOffset, Due, Abs!Due
  <2>8. CallInv'
    <3> SUFFICES ASSUME NEW i \in Holders, call'[i].busy PROVE Useful(call[i])'
        BY DEF CallInv
    <3>1. call'[i] = call[i] /\ Useful(call[i])
      BY <1>2 DEF NoCall, GroupInv, CallInv
    <3> QED BY <1>1, <3>1 DEF Useful, Reaches, Due, Abs!Due
  <2>9. SettleInv'
    <3>1. \A l \in leases : l.key # group'.lease.key
      BY <2>2, <2>3, <2>4
    <3> QED BY <1>1, <3>1 DEF GroupInv, SettleInv, SettlesAreFenced
  <2> QED BY <2>5, <2>6, <2>7, <2>8, <2>9 DEF GroupInv
<1> QED BY <1>3, <1>4

\* The batch on offer, which its consumer was given, becomes the past.
LEMMA SettleStep ==
    ASSUME TypeOK, TypeOK', GroupInv, ~WriteErrors, NEW ok \in BOOLEAN,
           NEW l \in leases, NEW b \in batches, NEW next \in Offsets,
           Settle(l, b.key, next, ok)
    PROVE  GroupInv'
<1> USE ConstantsAssumption
<1>1. /\ pc = "up" /\ pc' = "gate" /\ ok /\ journal' = group'
      /\ group.status = "active" /\ group.pending.key = b.key /\ b.key # 0
      /\ group.pending.next = next /\ group.lease.key = l.key
      /\ group' = [group EXCEPT !.checkpoint = next, !.pending = NoBatch,
                                !.settled = group.pending,
                                !.status = IF next >= group.end THEN "finished" ELSE @]
      /\ settles' = settles \cup {[key |-> l.key, epoch |-> l.epoch, next |-> next]}
      /\ done' = next
      /\ UNCHANGED <<head, call, keys, leases, batches, told>>
  BY SaveSucceeds DEF Settle, ThenGate, Credentials, log
<1>2. /\ group \in Group /\ journal \in Group /\ group.pending = journal.pending
      /\ group.checkpoint = journal.checkpoint /\ journal.status = "active"
      /\ group.epoch \in Nat /\ journal.epoch \in Nat /\ journal.epoch <= group.epoch
      /\ group.epoch = journal.epoch => group.lease = journal.lease
  BY <1>1, Agreement
<1>3. /\ group' \in Group /\ group'.checkpoint = next /\ group'.pending = NoBatch
      /\ group'.settled = group.pending /\ group'.lease = group.lease
      /\ group'.epoch = group.epoch /\ group'.status \in {"active", "finished"}
  BY <1>1, <1>2 DEF Group, TypeOK
<1>4. /\ next \in Nat /\ keys \in Nat /\ group.checkpoint \in Nat
      /\ group.pending.from <= group.pending.next
      /\ \A s \in settles : s.next \in Nat /\ s.epoch \in Nat
      /\ \A c \in batches : c.key \in Nat /\ c.next \in Nat
  BY <1>2 DEF TypeOK, Group, Batch, Offsets, Keys
<1>5. /\ \A m \in leases : m.key \in 1 .. keys
      /\ \A c \in batches : c.key \in 1 .. keys
  BY DEF GroupInv, KeysInv
<1>6. group.checkpoint <= next
  BY <1>1, <1>2, <1>4 DEF GroupInv, JournalInv
<1>7. MemoryInv'
  BY <1>1, <1>3, Synced
<1>8. KeysInv'
  BY <1>1, <1>3, <1>4 DEF GroupInv, KeysInv, NoBatch
<1>9. JournalInv'
  BY <1>1, <1>3, <1>4 DEF JournalInv, NoBatch
<1>10. CallInv'
  BY <1>1, <1>3 DEF GroupInv, CallInv, Useful, Reaches, NoBatch
<1>11. BatchInv'
  <2>1. \A c \in batches : c.next <= next /\ c.key # 0
    BY <1>1, <1>2, <1>4, <1>5, <1>6 DEF GroupInv, BatchInv
  <2> QED BY <1>1, <1>3, <2>1 DEF GroupInv, BatchInv, OneBatchPerOffset, NoBatch
<1>12. SettleInv'
  <2>1. l.epoch = group.epoch /\ l.key # 0
    BY <1>1, <1>5 DEF GroupInv, SettleInv
  <2>2. ASSUME NEW s \in settles
        PROVE  s.next <= next /\ s.epoch <= l.epoch /\ (s.epoch = l.epoch => s.key = l.key)
    <3>1. /\ s.next <= journal.checkpoint /\ s.epoch <= journal.epoch
          /\ s.epoch = journal.epoch => journal.lease.key \in {0, s.key}
      BY <1>2 DEF GroupInv, SettleInv
    <3> QED BY <1>1, <1>2, <1>4, <1>6, <2>1, <3>1
  <2> DEFINE t == [key |-> l.key, epoch |-> l.epoch, next |-> next]
  <2>3. t.key = l.key /\ t.epoch = group.epoch /\ t.next = next
    BY <2>1
  <2>4. settles' = settles \cup {t}
    BY <1>1
  <2> HIDE DEF t
  <2>5. SettlesAreFenced'
    <3> SUFFICES ASSUME NEW s \in settles', NEW r \in settles'
                 PROVE  /\ s.epoch = r.epoch => s.key = r.key
                        /\ s.next < r.next => s.epoch <= r.epoch
        BY DEF SettlesAreFenced
    <3>1. CASE s \in settles /\ r \in settles
      BY <3>1 DEF GroupInv, SettleInv, SettlesAreFenced
    <3>2. CASE s = t
      BY <1>2, <1>4, <2>1, <2>2, <2>3, <2>4, <3>2
    <3>3. CASE r = t
      BY <1>2, <1>4, <2>1, <2>2, <2>3, <2>4, <3>3
    <3> QED BY <2>4, <3>1, <3>2, <3>3
  <2>6. \A m \in leases' : /\ m.key = group'.lease.key => m.epoch = group'.epoch
                           /\ m.key = journal'.lease.key => m.epoch = journal'.epoch
    BY <1>1, <1>3 DEF GroupInv, SettleInv
  <2>7. \A s \in settles' : /\ s.next <= journal'.checkpoint
                            /\ s.epoch <= journal'.epoch
                            /\ s.epoch = journal'.epoch => journal'.lease.key \in {0, s.key}
    BY <1>1, <1>2, <1>3, <1>4, <2>1, <2>2, <2>3, <2>4
  <2> QED BY <2>5, <2>6, <2>7 DEF SettleInv
<1> QED BY <1>7, <1>8, <1>9, <1>10, <1>11, <1>12 DEF GroupInv

LEMMA SettleAgainStep ==
    ASSUME TypeOK, TypeOK', GroupInv, NEW l \in leases, NEW b \in batches,
           NEW next \in Offsets, SettleAgain(l, b.key, next)
    PROVE  GroupInv'
<1>1. /\ pc = "up" /\ group.settled.next = next /\ done' = next
      /\ UNCHANGED <<head, group, journal, call, pc, keys, leases, batches, told, settles>>
  BY DEF SettleAgain, log, gc, gates
<1>2. JournalInv'
  <2>1. group.settled = journal.settled
    BY <1>1, Agreement
  <2> QED BY <1>1, <2>1 DEF GroupInv, JournalInv, Reaches
<1>3. MemoryInv' /\ KeysInv' /\ CallInv'
  BY <1>1 DEF GroupInv, MemoryInv, KeysInv, CallInv, Useful, Reaches, Due, Abs!Due
<1>4. BatchInv' /\ SettleInv'
  BY <1>1 DEF GroupInv, BatchInv, SettleInv, OneBatchPerOffset, SettlesAreFenced, Due, Abs!Due
<1> QED BY <1>2, <1>3, <1>4 DEF GroupInv

LEMMA CrashStep ==
    ASSUME TypeOK, TypeOK', GroupInv, Crash
    PROVE  GroupInv'
<1>1. /\ pc' = "down" /\ group' = NoGroup /\ call' = [h \in Holders |-> NoCall]
      /\ UNCHANGED <<head, journal, keys, leases, batches, told, settles, done>>
  BY DEF Crash, Die, log, history
<1>2. keys \in Nat
  BY DEF TypeOK, Keys
<1>3. MemoryInv' /\ JournalInv' /\ CallInv'
  BY <1>1 DEF GroupInv, MemoryInv, JournalInv, CallInv, Reaches, NoCall
<1>4. KeysInv'
  BY <1>1, <1>2 DEF GroupInv, KeysInv, NoGroup, NoLease, NoBatch, NoCall
<1>5. BatchInv'
  BY <1>1 DEF GroupInv, BatchInv, OneBatchPerOffset, Due, Abs!Due
<1>6. SettleInv'
  BY <1>1, <1>2 DEF GroupInv, KeysInv, SettleInv, SettlesAreFenced, NoGroup, NoLease
<1> QED BY <1>3, <1>4, <1>5, <1>6 DEF GroupInv

LEMMA RecoverStep ==
    ASSUME TypeOK, TypeOK', GroupInv, Recover
    PROVE  GroupInv'
<1>1. /\ pc = "down" /\ pc' = "up" /\ group' = journal'
      /\ UNCHANGED <<head, journal, call, keys, leases, batches, told, settles, done>>
  BY DEF Recover, log, gc, history
<1>2. MemoryInv'
  <2>1. journal' \in Group /\ (journal.status = "none" => journal = NoGroup)
    BY DEF TypeOK, GroupInv, JournalInv
  <2> QED BY <1>1, <2>1, Synced
<1>3. KeysInv' /\ JournalInv'
  BY <1>1 DEF GroupInv, KeysInv, JournalInv, Reaches
<1>4. CallInv' /\ BatchInv'
  BY <1>1 DEF GroupInv, CallInv, Useful, Reaches, BatchInv, OneBatchPerOffset, Due, Abs!Due
<1>5. SettleInv'
  BY <1>1 DEF GroupInv, SettleInv, SettlesAreFenced
<1> QED BY <1>2, <1>3, <1>4, <1>5 DEF GroupInv

LEMMA GroupStep ==
    ASSUME TypeOK, TypeOK', CallsForward, GroupInv, ~WriteErrors, [Next]_vars
    PROVE  GroupInv'
<1> USE ConstantsAssumption
<1> USE DEF log, gc, gates, history, counts
<1>1. ASSUME NEW ok \in BOOLEAN, NEW start \in Starts, NEW end \in Ends, Register(start, end, ok)
      PROVE  GroupInv'
  BY <1>1, RegisterStep
<1>2. ASSUME NEW ok \in BOOLEAN, Pause(ok) \/ Resume(ok) PROVE GroupInv'
  <2>1. /\ pc = "up" /\ pc' # "down" /\ journal' = group'
        /\ group.status # "none" /\ group'.status # "none"
        /\ group' = [group EXCEPT !.status = group'.status, !.lease = group'.lease]
        /\ group'.lease \in {group.lease, NoLease}
    <3>1. group \in Group
      BY DEF TypeOK
    <3>2. CASE Pause(ok)
      BY <3>1, <3>2, SaveSucceeds DEF Pause, ThenGate, Group
    <3>3. CASE Resume(ok)
      BY <3>1, <3>3, SaveSucceeds DEF Resume, ThenGate, Group
    <3> QED BY <1>2, <3>2, <3>3
  <2>2. UNCHANGED <<call, keys, head, leases, batches, told, settles, done>>
    BY <1>2 DEF Pause, Resume
  <2> QED BY <2>1, <2>2, RewriteStep
<1>3. ASSUME NEW ok \in BOOLEAN, Delete(ok) PROVE GroupInv'
  BY <1>3, DeleteStep
<1>4. ASSUME NEW ok \in BOOLEAN, MoveGate(ok) PROVE GroupInv'
  BY <1>4, FrameStep DEF MoveGate, TypeOK, Offsets
<1>5. ASSUME NEW h \in Holders, NEW limit \in Limits, ClaimPlan(h, limit) PROVE GroupInv'
  BY <1>5, PlanStep
<1>6. ASSUME NEW ok \in BOOLEAN, NEW h \in Holders, ClaimCommit(h, ok) PROVE GroupInv'
  BY <1>6, CommitStep
<1>7. ASSUME NEW h \in Holders, ClaimReplans(h) PROVE GroupInv'
  BY <1>7, ReplanStep
<1>8. ASSUME NEW h \in Holders, ClaimEnds(h) PROVE GroupInv'
  <2>1. \A i \in Holders : call'[i] = call[i] \/ call'[i] = NoCall
    BY <1>8 DEF ClaimEnds, Committing, TypeOK
  <2> QED BY <1>8, <2>1, FrameStep DEF ClaimEnds, TypeOK, Offsets
<1>9. ASSUME NEW h \in Holders, CrashInClaim(h) PROVE GroupInv'
  BY <1>9, CrashInClaimStep
<1>10. ASSUME NEW ok \in BOOLEAN, NEW l \in leases, NEW b \in batches, NEW next \in Offsets,
              Settle(l, b.key, next, ok)
       PROVE  GroupInv'
  BY <1>10, SettleStep
<1>11. ASSUME NEW l \in leases, NEW b \in batches, NEW next \in Offsets,
              SettleAgain(l, b.key, next)
       PROVE  GroupInv'
  BY <1>11, SettleAgainStep
<1>12. ASSUME NEW key \in Keys, Expire(key) PROVE GroupInv'
  BY <1>12, FrameStep DEF Expire, TypeOK, Offsets
<1>13. CASE SaveAll
  <2>1. group.status # "none"
    BY <1>13, EmptyJournal DEF SaveAll
  <2>2. group \in Group /\ group = [group EXCEPT !.status = group.status, !.lease = group.lease]
    BY DEF TypeOK, Group
  <2> QED BY <1>13, <2>1, <2>2, RewriteStep DEF SaveAll
<1>14. CASE LogSteps
  <2>1. head <= head'
    BY <1>14 DEF LogSteps, Arrive, Seal, Quarantine, Repair, Evict, CheckOrder, AcceptOrder,
                 TypeOK, Offsets
  <2>2. /\ UNCHANGED <<group, journal, keys, leases, batches, told, settles, done>>
        /\ pc' = pc /\ call' = call
    BY <1>14 DEF LogSteps, Arrive, Seal, Quarantine, Repair, Evict, CheckOrder, AcceptOrder
  <2> QED BY <2>1, <2>2, FrameStep
<1>15. CASE Crash
  BY <1>15, CrashStep
<1>16. CASE Recover
  BY <1>16, RecoverStep
<1>17. CASE UNCHANGED vars
  BY <1>17, FrameStep DEF vars, TypeOK, Offsets
<1> QED
  BY <1>1, <1>2, <1>3, <1>4, <1>5, <1>6, <1>7, <1>8, <1>9, <1>10, <1>11, <1>12, <1>13,
     <1>14, <1>15, <1>16, <1>17
  DEF Next, Declarations, Settling, Claims

LEMMA GatesStep ==
    ASSUME TypeOK, TypeOK', CallsForward, GroupInv, GatesAligned, ~WriteErrors, [Next]_vars
    PROVE  GatesAligned'
<1> USE ConstantsAssumption
<1> USE DEF log, gc, gates, history, counts
<1>1. ASSUME NEW ok \in BOOLEAN, Declarations(ok) \/ Settling(ok)
      PROVE  GatesAligned'
  <2>1. CASE pc' = "gate"
    BY <2>1 DEF GatesAligned
  <2>2. CASE pc' # "gate"
    <3>1. UNCHANGED <<group, gate, ledger, pc>>
      BY <1>1, <2>2, SaveSucceeds
         DEF Declarations, Settling, Register, Pause, Resume, Delete, Settle, SettleAgain,
             ThenGate
    <3> QED BY <3>1 DEF GatesAligned
  <2> QED BY <2>1, <2>2
<1>2. ASSUME NEW ok \in BOOLEAN, MoveGate(ok) PROVE GatesAligned'
  BY <1>2 DEF MoveGate, GatesAligned
<1>3. ASSUME NEW ok \in BOOLEAN, NEW h \in Holders, Claims(h, ok) PROVE GatesAligned'
  <2>1. CASE pc' # "up"
    BY <2>1 DEF GatesAligned
  <2>2. CASE pc' = "up"
    <3>1. pc = "up" /\ UNCHANGED <<gate, ledger>>
      BY <1>3, <2>2 DEF Claims, ClaimPlan, ClaimCommit, ClaimReplans, ClaimEnds, CrashInClaim,
                        Die, Committing
    <3>2. group'.status = group.status /\ group'.checkpoint = group.checkpoint
      <4>1. ASSUME ClaimCommit(h, ok) PROVE group'.status = group.status
                                            /\ group'.checkpoint = group.checkpoint
        BY <3>1, <4>1, CommittedFacts, Agreement DEF ClaimCommit, Committing
      <4>2. ASSUME ClaimReplans(h) PROVE group'.status = group.status
                                         /\ group'.checkpoint = group.checkpoint
        <5>1. group \in Group /\ group' = Granted(h)
          BY <4>2 DEF ClaimReplans, TypeOK
        <5> QED BY <5>1 DEF Granted, Group
      <4> QED BY <1>3, <2>2, <4>1, <4>2 DEF Claims, ClaimPlan, ClaimEnds, CrashInClaim, Die
    <3> QED BY <3>1, <3>2 DEF GatesAligned, GateOf
  <2> QED BY <2>1, <2>2
<1>4. ASSUME NEW key \in Keys, Expire(key) PROVE GatesAligned'
  BY <1>4 DEF Expire, GatesAligned
<1>5. CASE SaveAll
  BY <1>5 DEF SaveAll, GatesAligned
<1>6. CASE LogSteps
  BY <1>6 DEF LogSteps, Arrive, Seal, Quarantine, Repair, Evict, CheckOrder, AcceptOrder,
              GatesAligned
<1>7. CASE Crash \/ Recover
  BY <1>7 DEF Crash, Die, Recover, Expected, GatesAligned
<1>8. CASE UNCHANGED vars
  BY <1>8 DEF vars, GatesAligned
<1> QED
  BY <1>1, <1>2, <1>3, <1>4, <1>5, <1>6, <1>7, <1>8 DEF Next
-----------------------------------------------------------------------------
(***************************************************************************)
(* Segments, orders and gates.                                             *)
(***************************************************************************)

Firsts == {u.first : u \in units}

\* One segment or tombstone changes its status.
LEMMA ChangedLog ==
    ASSUME TypeOK, LogInv, NEW u \in units, NEW status, units' = Changed(u, status),
           head' = head, doomed' \cup checked' \subseteq doomed \cup checked
    PROVE  /\ LogInv'
           /\ \A v \in units' : \E w \in units : w.first = v.first /\ w.last = v.last
<1> DEFINE n == [u EXCEPT !.status = status]
<1>1. u \in Unit /\ \A v \in units : v \in Unit
  BY DEF TypeOK
<1>2. n.first = u.first /\ n.last = u.last
  BY <1>1 DEF Unit
<1>3. units' = (units \ {u}) \cup {n}
  BY DEF Changed
<1> HIDE DEF n
<1>4. \A v \in units' : \E w \in units : w.first = v.first /\ w.last = v.last
  BY <1>2, <1>3
<1>5. \A v \in units' : v.first <= v.last /\ v.last < head
  BY <1>4 DEF LogInv
<1>6. \A v, w \in units' : v = w \/ v.last < w.first \/ w.last < v.first
  <2> SUFFICES ASSUME NEW v \in units', NEW w \in units', v # w
               PROVE  v.last < w.first \/ w.last < v.first
      OBVIOUS
  <2>1. CASE v # n /\ w # n
    BY <1>3, <2>1 DEF LogInv
  <2>2. CASE v = n
    BY <1>2, <1>3, <2>2 DEF LogInv
  <2>3. CASE w = n
    BY <1>2, <1>3, <2>3 DEF LogInv
  <2> QED BY <2>1, <2>2, <2>3
<1>7. doomed' \cup checked' \subseteq {v.first : v \in units'}
  <2> SUFFICES ASSUME NEW f \in doomed \cup checked PROVE \E v \in units' : f = v.first
      OBVIOUS
  <2>1. PICK w \in units : f = w.first
    BY DEF LogInv
  <2> QED BY <1>2, <1>3, <2>1
<1> QED BY <1>4, <1>5, <1>6, <1>7 DEF LogInv

LEMMA LogStep ==
    ASSUME TypeOK, TypeOK', LogInv, [Next]_vars
    PROVE  LogInv'
<1> USE ConstantsAssumption
<1> USE DEF log, gc, gates, history, counts
<1>1. ASSUME UNCHANGED log, doomed' \cup checked' \subseteq doomed \cup checked PROVE LogInv'
  BY <1>1 DEF LogInv
<1>2. CASE Arrive
  BY <1>2 DEF Arrive, LogInv, TypeOK, Unit, Offsets
<1>3. CASE Seal
  <2>1. PICK first \in 0 .. head - 1 :
            /\ \A u \in units : u.last < first
            /\ units' = units \cup {[first |-> first, last |-> head - 1, status |-> "sealed"]}
    BY <1>3 DEF Seal
  <2> DEFINE n == [first |-> first, last |-> head - 1, status |-> "sealed"]
  <2>2. n.first = first /\ n.last = head - 1 /\ units' = units \cup {n}
    BY <2>1
  <2>3. head \in Int /\ UNCHANGED <<head, doomed, checked>>
    BY <1>3 DEF Seal, TypeOK, Offsets
  <2> HIDE DEF n
  <2>4. \A u \in units' : u.first <= u.last /\ u.last < head
    BY <2>2, <2>3 DEF LogInv
  <2>5. \A u, v \in units' : u = v \/ u.last < v.first \/ v.last < u.first
    BY <2>1, <2>2 DEF LogInv
  <2>6. doomed' \cup checked' \subseteq {u.first : u \in units'}
    BY <2>2, <2>3 DEF LogInv
  <2> QED BY <2>3, <2>4, <2>5, <2>6 DEF LogInv
<1>4. ASSUME NEW u \in units, Quarantine(u) \/ Repair(u) \/ Evict(u) PROVE LogInv'
  <2>1. \E status : units' = Changed(u, status)
    BY <1>4 DEF Quarantine, Repair, Evict
  <2> QED BY <1>4, <2>1, ChangedLog DEF Quarantine, Repair, Evict
<1>5. ASSUME NEW order \in SUBSET units, CheckOrder(order) PROVE LogInv'
  BY <1>5 DEF CheckOrder, LogInv
<1>6. CASE AcceptOrder
  BY <1>6, <1>1 DEF AcceptOrder
<1>7. CASE Crash
  BY <1>7, <1>1 DEF Crash, Die
<1>8. ASSUME NEW h \in Holders, CrashInClaim(h) PROVE LogInv'
  BY <1>8, <1>1 DEF CrashInClaim, Die
<1>9. ASSUME NEW ok \in BOOLEAN, Declarations(ok) \/ Settling(ok) \/ MoveGate(ok)
      PROVE  LogInv'
  BY <1>9, <1>1 DEF Declarations, Settling, MoveGate, Register, Pause, Resume, Delete,
                    Settle, SettleAgain
<1>10. ASSUME NEW ok \in BOOLEAN, NEW h \in Holders, Claims(h, ok) PROVE LogInv'
  BY <1>1, <1>8, <1>10 DEF Claims, ClaimPlan, ClaimCommit, ClaimReplans, ClaimEnds
<1>11. CASE SaveAll \/ Recover \/ UNCHANGED vars
  BY <1>11, <1>1 DEF SaveAll, Recover, vars
<1>12. ASSUME NEW key \in Keys, Expire(key) PROVE LogInv'
  BY <1>12, <1>1 DEF Expire
<1> QED
  BY <1>2, <1>3, <1>4, <1>5, <1>6, <1>7, <1>9, <1>10, <1>11, <1>12 DEF Next, LogSteps

\* A gate protects everything that is not wholly below its checkpoint.
LEMMA GateProtects ==
    ASSUME TypeOK, LogInv, gate >= 0, NEW u \in units, ~Gated(u)
    PROVE  u.last < gate
<1> USE ConstantsAssumption
<1>1. /\ gate \in Offsets /\ gate \in Int
      /\ \A v \in units : v.first \in Offsets /\ v.first \in Int /\ v.last \in Int
  BY DEF TypeOK, Unit, Offsets
<1>2. \A b \in Offsets : IsBoundary(b, gate) => u.first < b
  BY <1>1 DEF Gated, Offsets
<1>3. CASE \E v \in units : gate \in Span(v)
  <2>1. PICK v \in units : gate \in Span(v)
    BY <1>3
  <2>2. u.first < v.first /\ v.first <= gate
    BY <1>1, <1>2, <2>1 DEF IsBoundary, Span
  <2>3. v.first <= v.last /\ (u = v \/ u.last < v.first \/ v.last < u.first)
    BY DEF LogInv
  <2> QED BY <1>1, <2>2, <2>3
<1>4. CASE \A v \in units : gate \notin Span(v)
  <2>1. u.first < gate /\ gate \notin Span(u)
    BY <1>1, <1>2, <1>4 DEF IsBoundary
  <2> QED BY <1>1, <2>1 DEF Span
<1> QED BY <1>3, <1>4

\* Orders do not grow, and the checkpoint does not move back.
LEMMA OrderFrame ==
    ASSUME TypeOK, TypeOK', OrderInv, doomed' \cup checked' \subseteq doomed \cup checked,
           \A v \in units' : \E w \in units : w.first = v.first /\ w.last = v.last,
           journal'.status = "active" =>
               journal.status = "active" /\ journal.checkpoint <= journal'.checkpoint
    PROVE  OrderInv'
<1> SUFFICES ASSUME journal'.status = "active", NEW v \in units',
                    v.first \in doomed' \cup checked'
             PROVE  v.last < journal'.checkpoint
    BY DEF OrderInv
<1>1. PICK w \in units : w.first = v.first /\ w.last = v.last
  OBVIOUS
<1>2. w.last \in Int /\ journal.checkpoint \in Int /\ journal'.checkpoint \in Int
  BY ConstantsAssumption DEF TypeOK, Unit, Group, Offsets
<1>3. w.last < journal.checkpoint
  BY <1>1 DEF OrderInv
<1> QED BY <1>1, <1>2, <1>3

\* A group begins where no order reaches.
LEMMA AvailableOffset ==
    ASSUME TypeOK, LogInv, ~SlowApply, NEW o \in Offsets, Available(o)
    PROVE  \A u \in units : u.first \in doomed \cup checked => u.last < o
<1>1. checked = {} /\ \A u \in units : ~(u.first \in doomed /\ u.last >= o)
  BY DEF Available, InFlight
<1>2. o \in Int /\ \A u \in units : u.last \in Int
  BY ConstantsAssumption DEF TypeOK, Unit, Offsets
<1> QED BY <1>1, <1>2

LEMMA OrderStep ==
    ASSUME TypeOK, TypeOK', CallsForward, GroupInv, GatesAligned, LogInv, OrderInv,
           ~WriteErrors, ~SlowApply, [Next]_vars
    PROVE  OrderInv'
<1> USE ConstantsAssumption
<1> USE DEF log, gc, gates, history, counts
<1>1. journal.checkpoint \in Int /\ journal'.checkpoint \in Int
  BY DEF TypeOK, Group, Offsets
<1>2. ASSUME UNCHANGED units, doomed' \cup checked' \subseteq doomed \cup checked,
             journal'.status = "active" =>
                 journal.status = "active" /\ journal.checkpoint <= journal'.checkpoint
      PROVE  OrderInv'
  BY <1>2, OrderFrame
<1>3. ASSUME UNCHANGED <<units, doomed, checked, journal>> PROVE OrderInv'
  BY <1>3 DEF OrderInv
<1>4. ASSUME NEW ok \in BOOLEAN, NEW start \in Starts, NEW end \in Ends, Register(start, end, ok)
      PROVE  OrderInv'
  <2>1. /\ journal'.checkpoint = start /\ start \in Offsets /\ Available(start)
        /\ UNCHANGED <<units, doomed, checked>>
    BY <1>4, SaveSucceeds DEF Register, NoGroup, Offsets
  <2> QED BY <2>1, AvailableOffset DEF OrderInv
<1>5. ASSUME NEW ok \in BOOLEAN, Pause(ok) PROVE OrderInv'
  <2>1. journal' = group' /\ group'.status = "paused"
    BY <1>5, SaveSucceeds DEF Pause, TypeOK, Group
  <2> QED BY <1>5, <2>1 DEF OrderInv
<1>6. ASSUME NEW ok \in BOOLEAN, Resume(ok) PROVE OrderInv'
  <2>1. /\ journal' = group' /\ group'.checkpoint = group.checkpoint
        /\ group.checkpoint \in Offsets /\ Available(group.checkpoint)
        /\ UNCHANGED <<units, doomed, checked>>
    BY <1>6, SaveSucceeds DEF Resume, TypeOK, Group
  <2> QED BY <2>1, AvailableOffset DEF OrderInv
<1>7. ASSUME NEW ok \in BOOLEAN, Delete(ok) PROVE OrderInv'
  <2>1. journal'.status = "none"
    BY <1>7, SaveSucceeds DEF Delete, NoGroup
  <2> QED BY <2>1 DEF OrderInv
<1>8. ASSUME NEW ok \in BOOLEAN, MoveGate(ok) PROVE OrderInv'
  BY <1>3, <1>8 DEF MoveGate
<1>9. ASSUME NEW ok \in BOOLEAN, NEW h \in Holders, Claims(h, ok) PROVE OrderInv'
  <2>1. CASE UNCHANGED journal
    BY <1>2, <1>1, <1>9, <2>1
       DEF Claims, ClaimPlan, ClaimCommit, ClaimReplans, ClaimEnds, CrashInClaim, Die
  <2>2. CASE journal' # journal
    <3>1. /\ journal' = Committed(h) /\ pc # "down" /\ call[h].busy /\ CanCommit(h)
          /\ UNCHANGED units /\ doomed' \cup checked' \subseteq doomed \cup checked
      BY <1>9, <2>2, SaveSucceeds
         DEF Claims, ClaimPlan, ClaimCommit, ClaimReplans, ClaimEnds, CrashInClaim, Die,
             Committing
    <3>2. journal.status = "active" /\ journal'.checkpoint = journal.checkpoint
      BY <3>1, CommittedFacts
    <3> QED BY <1>1, <1>2, <3>1, <3>2
  <2> QED BY <2>1, <2>2
<1>10. ASSUME NEW ok \in BOOLEAN, NEW l \in leases, NEW b \in batches, NEW next \in Offsets,
              Settle(l, b.key, next, ok)
       PROVE  OrderInv'
  <2>1. /\ pc = "up" /\ journal' = group' /\ group'.checkpoint = next
        /\ group.status = "active" /\ group.pending.next = next /\ group.pending.key # 0
        /\ UNCHANGED <<units, doomed, checked>>
    BY <1>10, SaveSucceeds DEF Settle, TypeOK, Group
  <2>2. group.pending = journal.pending /\ journal.status = "active" /\ group.pending \in Batch
    BY <2>1, Agreement DEF Group
  <2>3. journal.checkpoint <= next
    BY <2>1, <2>2 DEF GroupInv, JournalInv, Batch
  <2> QED BY <1>2, <2>1, <2>2, <2>3
<1>11. ASSUME NEW l \in leases, NEW b \in batches, NEW next \in Offsets,
              SettleAgain(l, b.key, next)
       PROVE  OrderInv'
  BY <1>3, <1>11 DEF SettleAgain
<1>12. ASSUME NEW key \in Keys, Expire(key) PROVE OrderInv'
  BY <1>3, <1>12 DEF Expire
<1>13. CASE SaveAll
  <2>1. journal' = group /\ group.status = journal.status
        /\ group.checkpoint = journal.checkpoint
    BY <1>13, Agreement DEF SaveAll
  <2> QED BY <1>1, <1>2, <1>13, <2>1 DEF SaveAll
<1>14. CASE Arrive
  BY <1>3, <1>14 DEF Arrive
<1>15. CASE Seal
  <2>1. PICK first \in 0 .. head - 1 :
            /\ \A u \in units : u.last < first
            /\ units' = units \cup {[first |-> first, last |-> head - 1, status |-> "sealed"]}
    BY <1>15 DEF Seal
  <2>2. \A u \in units : u.first \in Int /\ u.last \in Int /\ u.first < first
    BY <2>1 DEF LogInv, TypeOK, Unit, Offsets
  <2>3. first \notin doomed \cup checked
    BY <2>2 DEF LogInv
  <2>4. \A v \in units' : v \in units \/ v.first = first
    BY <2>1
  <2>5. UNCHANGED <<doomed, checked, journal>>
    BY <1>15 DEF Seal
  <2> QED BY <2>3, <2>4, <2>5 DEF OrderInv
<1>16. ASSUME NEW u \in units, Quarantine(u) \/ Repair(u) \/ Evict(u) PROVE OrderInv'
  <2>1. \E status : units' = Changed(u, status)
    BY <1>16 DEF Quarantine, Repair, Evict
  <2>2. /\ head' = head /\ journal' = journal
        /\ doomed' \cup checked' \subseteq doomed \cup checked
    BY <1>16 DEF Quarantine, Repair, Evict
  <2> QED BY <1>1, <2>1, <2>2, ChangedLog, OrderFrame
<1>17. ASSUME NEW order \in SUBSET units, CheckOrder(order) PROVE OrderInv'
  <2>1. /\ pc = "up" /\ checked' = {u.first : u \in order}
        /\ \A u \in order : ~Gated(u)
        /\ UNCHANGED <<units, doomed, journal>>
    BY <1>17 DEF CheckOrder
  <2> SUFFICES ASSUME journal.status = "active", NEW v \in units, v.first \in doomed \cup checked'
               PROVE  v.last < journal.checkpoint
      BY <2>1 DEF OrderInv
  <2>2. gate = journal.checkpoint /\ gate >= 0
    BY <2>1, Agreement DEF GatesAligned, GateOf, Group, Offsets
  <2>3. CASE v.first \in doomed
    BY <2>3 DEF OrderInv
  <2>4. CASE v.first \in checked'
    <3>1. PICK u \in order : v.first = u.first
      BY <2>1, <2>4
    <3>2. u = v
      BY <3>1 DEF LogInv, TypeOK, Unit, Offsets
    <3> QED BY <2>1, <2>2, <3>2, GateProtects
  <2> QED BY <2>3, <2>4
<1>18. CASE AcceptOrder
  BY <1>1, <1>2, <1>18 DEF AcceptOrder
<1>19. CASE Crash
  BY <1>1, <1>2, <1>19 DEF Crash, Die
<1>20. CASE Recover \/ UNCHANGED vars
  BY <1>3, <1>20 DEF Recover, vars
<1> QED
  BY <1>4, <1>5, <1>6, <1>7, <1>8, <1>9, <1>10, <1>11, <1>12, <1>13, <1>14, <1>15, <1>16,
     <1>17, <1>18, <1>19, <1>20
  DEF Next, Declarations, Settling, LogSteps
-----------------------------------------------------------------------------
(***************************************************************************)
(* The theorems.                                                           *)
(***************************************************************************)

LEMMA InitInv == Init => IndInv
<1> SUFFICES ASSUME Init PROVE IndInv
    OBVIOUS
<1>1. GatesAligned
  BY DEF Init, GatesAligned, GateOf, NoGroup
<1>2. LogInv
  BY DEF Init, LogInv
<1>3. OrderInv
  BY DEF Init, OrderInv
<1> QED BY <1>1, <1>2, <1>3, InitGroup DEF IndInv

\* What every reachable state satisfies when saves succeed.
Correct == TypeOK /\ CallsForward /\ IndInv

LEMMA NextKeeps ==
    ASSUME ~WriteErrors
    PROVE  Correct /\ [Next]_vars => Correct'
<1> SUFFICES ASSUME Correct, [Next]_vars PROVE Correct'
    OBVIOUS
<1>1. TypeOK' /\ CallsForward'
  BY NextType DEF Correct
<1>2. GroupInv' /\ GatesAligned' /\ LogInv'
  BY <1>1, GroupStep, GatesStep, LogStep DEF Correct, IndInv
<1>3. SlowApply \/ OrderInv'
  BY <1>1, OrderStep DEF Correct, IndInv
<1> QED BY <1>1, <1>2, <1>3 DEF Correct, IndInv

\* The invariant of the group, its gate and the orders holds whatever claims,
\* settles, takeovers and crashes do.
THEOREM Invariance ==
    ASSUME ~WriteErrors
    PROVE  Spec => []IndInv
<1>1. Init => Correct
  BY InitType, InitInv DEF Correct
<1>2. Correct /\ [Next]_vars => Correct'
  BY NextKeeps
<1>3. Correct => IndInv
  BY DEF Correct
<1> QED BY <1>1, <1>2, <1>3, PTL DEF Spec

\* No offset is in two batches that consumers were given: groups.py returns
\* the pending batch until it is settled, and begins the next at its end.
THEOREM EachOffsetInOneBatch ==
    ASSUME ~WriteErrors
    PROVE  Spec => []OneBatchPerOffset
<1>1. IndInv => OneBatchPerOffset
  BY DEF IndInv, GroupInv, BatchInv
<1> QED BY <1>1, Invariance, PTL

\* Who lost the lease does not settle any more, whatever a crash forgot.
THEOREM LeasesFence ==
    ASSUME ~WriteErrors
    PROVE  Spec => []SettlesAreFenced
<1>1. IndInv => SettlesAreFenced
  BY DEF IndInv, GroupInv, SettleInv
<1> QED BY <1>1, Invariance, PTL

\* A settle that was answered with success is never taken back.
THEOREM SettlesLast ==
    ASSUME ~WriteErrors
    PROVE  Spec => []SettledStays
<1>1. Correct => SettledStays
  <2> SUFFICES ASSUME Correct, group.status # "none" PROVE group.checkpoint >= done
      BY DEF SettledStays
  <2>1. TypeOK /\ GroupInv
    BY DEF Correct, IndInv
  <2>2. pc # "down"
    BY <2>1 DEF GroupInv, MemoryInv, NoGroup
  <2>3. group.status = journal.status /\ group.checkpoint = journal.checkpoint
    BY <2>1, <2>2, Agreement
  <2>4. done <= journal.checkpoint
    BY <2>1, <2>3 DEF GroupInv, JournalInv
  <2>5. done \in Int /\ journal.checkpoint \in Int
    BY <2>1, ConstantsAssumption DEF TypeOK, Group, Offsets
  <2> QED BY <2>3, <2>4, <2>5
<1>2. Init => Correct
  BY InitType, InitInv DEF Correct
<1>3. Correct /\ [Next]_vars => Correct'
  BY NextKeeps
<1> QED BY <1>1, <1>2, <1>3, PTL DEF Spec

\* Between handlers the gate is where the group is, on disk too.
THEOREM GatesFollow ==
    ASSUME ~WriteErrors
    PROVE  Spec => []GatesAligned
<1>1. IndInv => GatesAligned
  BY DEF IndInv
<1> QED BY <1>1, Invariance, PTL

\* When no group begins between the check of an order and its acceptance,
\* reclamation takes nothing an active group has not settled.
THEOREM ReclamationSpares ==
    ASSUME ~WriteErrors, ~SlowApply
    PROVE  Spec => ActiveGroupsKeepTheirLog
<1>1. Correct => \A u \in units :
          (group.status = "active" /\ Evict(u)) => u.last < group.checkpoint
  <2> SUFFICES ASSUME Correct, NEW u \in units, group.status = "active", Evict(u)
               PROVE  u.last < group.checkpoint
      OBVIOUS
  <2>1. TypeOK /\ GroupInv /\ OrderInv
    BY DEF Correct, IndInv
  <2>2. pc = "up" /\ u.first \in doomed
    BY DEF Evict
  <2>3. group.status = journal.status /\ group.checkpoint = journal.checkpoint
    BY <2>1, <2>2, Agreement
  <2> QED BY <2>1, <2>2, <2>3 DEF OrderInv
<1>2. Init => Correct
  BY InitType, InitInv DEF Correct
<1>3. Correct /\ [Next]_vars => Correct'
  BY NextKeeps
<1> QED BY <1>1, <1>2, <1>3, PTL DEF Spec, ActiveGroupsKeepTheirLog
-----------------------------------------------------------------------------
(***************************************************************************)
(* The gate when a save has failed.                                        *)
(***************************************************************************)

\* Steps that leave the gate alone, and the group where it is.
LEMMA GateFrame ==
    ASSUME TypeOK, TypeOK', GateInv, faults <= faults', gate' = gate, pc' = pc,
           \/ group' = group /\ journal' = journal
           \/ /\ pc = "up" /\ Agree(group', group) /\ InOrder(group')
              /\ journal' = journal \/ journal' = group'
    PROVE  GateInv'
<1>1. faults \in Nat /\ faults' \in Nat
  BY DEF TypeOK
<1>2. faults' = 0 => faults = 0
  BY <1>1
<1>3. faults' <= 1 => faults <= 1
  BY <1>1
<1>4. CASE group' = group /\ journal' = journal
  BY <1>2, <1>3, <1>4 DEF GateInv, InOrder, Agree, Behind, GateOf
<1>5. CASE /\ pc = "up" /\ Agree(group', group) /\ InOrder(group')
           /\ journal' = journal \/ journal' = group'
  <2>1. InOrder(group)' /\ InOrder(journal)'
    BY <1>5 DEF GateInv, InOrder
  <2>2. pc' = "up"
    BY <1>5
  <2>3. faults' = 0 => gate' = GateOf(group)' /\ Agree(group, journal)'
    BY <1>2, <1>5 DEF GateInv, Agree, GateOf
  <2>4. faults' <= 1 /\ gate' >= 0 => Behind(group)' /\ Behind(journal)'
    BY <1>3, <1>5 DEF GateInv, Agree, Behind
  <2> QED BY <2>1, <2>2, <2>3, <2>4 DEF GateInv
<1> QED BY <1>4, <1>5

\* Handlers that save the group and then move the gate.
LEMMA GateHandler ==
    ASSUME TypeOK, TypeOK', GateInv, pc = "up", gate' = gate,
           NEW ok \in BOOLEAN, Save(ok), ThenGate(ok), InOrder(group'),
           group.status = "active" /\ group'.status = "active" =>
               group.checkpoint <= group'.checkpoint
    PROVE  GateInv'
<1>1. CASE ok
  <2>1. journal' = group' /\ pc' = "gate"
    BY <1>1 DEF Save, ThenGate
  <2> QED BY <2>1 DEF GateInv, InOrder
<1>2. CASE ~ok
  <2>1. journal' = journal /\ pc' = "up" /\ faults' = faults + 1
    BY <1>2 DEF Save, ThenGate
  <2>2. faults' # 0 /\ (faults' <= 1 => faults = 0)
    BY <2>1 DEF TypeOK
  <2>3. ASSUME faults' <= 1, gate' >= 0 PROVE Behind(group)' /\ Behind(journal)'
    <3>1. gate = GateOf(group) /\ Agree(group, journal)
      BY <2>2, <2>3 DEF GateInv
    <3>2. group.status = "active" /\ gate = group.checkpoint
      BY <2>3, <3>1 DEF GateOf
    <3>3. gate <= gate
      BY DEF TypeOK
    <3> QED BY <2>1, <3>1, <3>2, <3>3 DEF Behind, Agree
  <2>4. InOrder(group)' /\ InOrder(journal)'
    BY <2>1 DEF GateInv, InOrder
  <2> QED BY <2>1, <2>2, <2>3, <2>4 DEF GateInv
<1> QED BY <1>1, <1>2

\* A claim grants a lease and makes a batch from the checkpoint on.
LEMMA CommittedInOrder ==
    ASSUME TypeOK, InOrder(group), NEW h \in Holders, LeaseLive \/ keys < MaxKeys
    PROVE  /\ Agree(Granted(h), group) /\ InOrder(Granted(h))
           /\ Agree(Committed(h), group) /\ InOrder(Committed(h))
<1>1. /\ Granted(h) \in Group
      /\ Granted(h).status = group.status /\ Granted(h).checkpoint = group.checkpoint
      /\ Granted(h).pending = group.pending
  BY GrantedType
<1>2. Agree(Granted(h), group) /\ InOrder(Granted(h))
  BY <1>1 DEF Agree, InOrder
<1>3. CASE Creation(h)
  BY <1>1, <1>3 DEF Committed, Agree, InOrder, Group
<1>4. CASE ~Creation(h)
  BY <1>2, <1>4 DEF Committed
<1> QED BY <1>2, <1>3, <1>4

LEMMA GateStep ==
    ASSUME TypeOK, TypeOK', GateInv, [Next]_vars PROVE GateInv'
<1> USE DEF log, gc, gates, history, counts
<1>1. InOrder(group) /\ InOrder(journal) /\ group \in Group /\ faults \in Nat
  BY DEF GateInv, TypeOK
<1>2. faults <= faults + 1 /\ faults <= faults
  BY <1>1
<1>3. ASSUME NEW ok \in BOOLEAN, NEW start \in Starts, NEW end \in Ends, Register(start, end, ok)
      PROVE  GateInv'
  <2>1. InOrder(group') /\ group.status = "none"
    BY <1>3 DEF Register, InOrder, NoGroup, NoBatch
  <2> QED BY <1>3, <2>1, GateHandler DEF Register
<1>4. ASSUME NEW ok \in BOOLEAN, Pause(ok) PROVE GateInv'
  <2>1. InOrder(group') /\ group'.status = "paused"
    BY <1>1, <1>4 DEF Pause, InOrder, Group
  <2> QED BY <1>4, <2>1, GateHandler DEF Pause
<1>5. ASSUME NEW ok \in BOOLEAN, Resume(ok) PROVE GateInv'
  <2>1. InOrder(group') /\ group.status = "paused"
    BY <1>1, <1>5 DEF Resume, InOrder, Group
  <2> QED BY <1>5, <2>1, GateHandler DEF Resume
<1>6. ASSUME NEW ok \in BOOLEAN, Delete(ok) PROVE GateInv'
  <2>1. InOrder(group') /\ group'.status = "none"
    BY <1>6 DEF Delete, InOrder, NoGroup, NoBatch
  <2> QED BY <1>6, <2>1, GateHandler DEF Delete
<1>7. ASSUME NEW ok \in BOOLEAN, MoveGate(ok) PROVE GateInv'
  <2>1. group = journal /\ group' = group /\ journal' = journal /\ gate' = GateOf(group)
        /\ pc' = "up"
    BY <1>7 DEF MoveGate, GateInv
  <2>2. group.checkpoint <= group.checkpoint
    BY <1>1, ConstantsAssumption DEF Group, Offsets
  <2> QED BY <2>1, <2>2 DEF GateInv, InOrder, Agree, Behind, GateOf
<1>8. ASSUME NEW h \in Holders, NEW limit \in Limits, ClaimPlan(h, limit) PROVE GateInv'
  BY <1>2, <1>8, GateFrame DEF ClaimPlan
<1>9. ASSUME NEW ok \in BOOLEAN, NEW h \in Holders, ClaimCommit(h, ok) PROVE GateInv'
  <2>1. Agree(group', group) /\ InOrder(group')
    BY <1>1, <1>9, CommittedInOrder DEF ClaimCommit, CanCommit
  <2>2. /\ journal' = journal \/ journal' = group'
        /\ faults <= faults'
    BY <1>2, <1>9 DEF ClaimCommit, Save
  <2> QED BY <1>9, <2>1, <2>2, GateFrame DEF ClaimCommit, Committing
<1>10. ASSUME NEW h \in Holders, ClaimReplans(h) PROVE GateInv'
  <2>1. Agree(group', group) /\ InOrder(group')
    BY <1>1, <1>10, CommittedInOrder DEF ClaimReplans
  <2> QED BY <1>2, <1>10, <2>1, GateFrame DEF ClaimReplans, Committing
<1>11. ASSUME NEW h \in Holders, ClaimEnds(h) PROVE GateInv'
  BY <1>2, <1>11, GateFrame DEF ClaimEnds
<1>12. ASSUME NEW h \in Holders, CrashInClaim(h) PROVE GateInv'
  <2>1. InOrder(Committed(h))
    BY <1>1, <1>12, CommittedInOrder DEF CrashInClaim, CanCommit
  <2> QED BY <1>12, <2>1 DEF CrashInClaim, Die, GateInv, InOrder, NoGroup, NoBatch
<1>13. ASSUME NEW ok \in BOOLEAN, NEW l \in leases, NEW b \in batches, NEW next \in Offsets,
              Settle(l, b.key, next, ok)
       PROVE  GateInv'
  <2>1. group.pending.key # 0 /\ group.pending.next = next /\ group.pending \in Batch
    BY <1>1, <1>13 DEF Settle, Group
  <2>2. group.checkpoint <= next
    BY <1>1, <2>1 DEF InOrder, Batch
  <2>3. InOrder(group') /\ group'.checkpoint = next
    BY <1>1, <1>13 DEF Settle, InOrder, Group, NoBatch
  <2> QED BY <1>13, <2>2, <2>3, GateHandler DEF Settle
<1>14. ASSUME NEW l \in leases, NEW b \in batches, NEW next \in Offsets,
              SettleAgain(l, b.key, next)
       PROVE  GateInv'
  BY <1>2, <1>14, GateFrame DEF SettleAgain
<1>15. ASSUME NEW key \in Keys, Expire(key) PROVE GateInv'
  BY <1>2, <1>15, GateFrame DEF Expire
<1>16. CASE SaveAll
  <2>1. Agree(group', group) /\ InOrder(group')
    BY <1>1, <1>16 DEF SaveAll, Agree
  <2> QED BY <1>2, <1>16, <2>1, GateFrame DEF SaveAll
<1>17. CASE LogSteps
  BY <1>2, <1>17, GateFrame
     DEF LogSteps, Arrive, Seal, Quarantine, Repair, Evict, CheckOrder, AcceptOrder
<1>18. CASE Crash
  BY <1>18 DEF Crash, Die, GateInv, InOrder, NoGroup, NoBatch
<1>19. CASE Recover
  <2>1. group' = journal /\ journal' = journal /\ gate' = GateOf(journal) /\ pc' = "up"
    BY <1>19 DEF Recover, Expected
  <2>2. journal.checkpoint <= journal.checkpoint
    BY ConstantsAssumption DEF TypeOK, Group, Offsets
  <2> QED BY <1>1, <2>1, <2>2 DEF GateInv, InOrder, Agree, Behind, GateOf
<1>20. CASE UNCHANGED vars
  BY <1>2, <1>20, GateFrame DEF vars
<1> QED
  BY <1>3, <1>4, <1>5, <1>6, <1>7, <1>8, <1>9, <1>10, <1>11, <1>12, <1>13, <1>14,
     <1>15, <1>16, <1>17, <1>18, <1>19, <1>20
  DEF Next, Declarations, Settling, Claims

\* When a save has failed, a crash goes back to a checkpoint that is still
\* protected, although the group in memory may have moved on.
THEOREM GateCoversTheJournal == Spec => []GateCoversDisk
<1> DEFINE Held == TypeOK /\ CallsForward /\ GateInv
<1>1. Init => Held
  <2>1. Init => GateInv
    BY DEF Init, GateInv, InOrder, Agree, Behind, GateOf, NoGroup, NoBatch
  <2> QED BY <2>1, InitType
<1>2. Held /\ [Next]_vars => Held'
  <2> SUFFICES ASSUME Held, [Next]_vars PROVE Held'
      OBVIOUS
  <2>1. TypeOK' /\ CallsForward'
    BY NextType
  <2> QED BY <2>1, GateStep
<1>3. Held => GateCoversDisk
  BY DEF GateInv, Behind, GateCoversDisk
<1> HIDE DEF Held
<1> QED BY <1>1, <1>2, <1>3, PTL DEF Spec
-----------------------------------------------------------------------------
(***************************************************************************)
(* The group on disk implements a subscription.                            *)
(***************************************************************************)

\* The step of a subscription that a step of the group is, if any.
SubStep == Abs!SubNext \/ UNCHANGED <<journal.status, journal.start, journal.end,
                                      journal.checkpoint, journal.pending, told>>

LEMMA SameSub ==
    ASSUME UNCHANGED <<journal, told>>
    PROVE  SubStep
BY DEF SubStep

\* A step that keeps the batch on offer, and delivers it or nothing.
LEMMA DeliverSub ==
    ASSUME journal.status # "none", journal'.status # "none",
           journal'.start = journal.start, journal'.end = journal.end,
           journal'.checkpoint = journal.checkpoint, journal'.pending = journal.pending,
           \/ UNCHANGED told
           \/ /\ journal.pending.key # 0
              /\ Due(journal.pending) \subseteq told' /\ told \subseteq told'
              /\ told' \subseteq told \cup journal.pending.from .. journal.pending.next - 1
    PROVE  SubStep
<1>1. Abs!Deliver
  BY DEF Abs!Deliver, Abs!Ongoing, Abs!Delivery, Due
<1> QED BY <1>1 DEF SubStep, Abs!SubNext

LEMMA CommitSub ==
    ASSUME TypeOK, TypeOK', CallsForward, GroupInv, pc # "down", NEW h \in Holders,
           call[h].busy, CanCommit(h), journal' = Committed(h),
           told' \in {told, told \cup call[h].covers}
    PROVE  SubStep
<1>1. /\ journal.status = "active" /\ journal'.status = "active"
      /\ journal'.start = journal.start /\ journal'.end = journal.end
      /\ journal'.checkpoint = journal.checkpoint
      /\ \/ /\ journal'.pending = journal.pending
            /\ journal.pending.key # 0 /\ journal.pending.key = call[h].key
         \/ /\ journal.pending.key = 0 /\ call[h].key = 0
            /\ call[h].from = journal.checkpoint
            /\ journal'.pending = [key |-> keys + 1, from |-> journal.checkpoint,
                                   next |-> call[h].next]
            /\ journal'.pending.key = keys + 1
  BY CommittedFacts
<1>2. Useful(call[h])
  BY DEF GroupInv, CallInv
<1>3. CASE /\ journal'.pending = journal.pending
           /\ journal.pending.key # 0 /\ journal.pending.key = call[h].key
  <2>1. /\ Due(journal.pending) \subseteq call[h].covers
        /\ call[h].covers \subseteq journal.pending.from .. journal.pending.next - 1
    BY <1>2, <1>3 DEF Useful
  <2> QED BY <1>1, <1>3, <2>1, DeliverSub
<1>4. CASE /\ journal.pending.key = 0 /\ call[h].key = 0
           /\ call[h].from = journal.checkpoint
           /\ journal'.pending = [key |-> keys + 1, from |-> journal.checkpoint,
                                  next |-> call[h].next]
           /\ journal'.pending.key = keys + 1
  <2>1. /\ journal'.pending.from = journal.checkpoint /\ journal'.pending.next = call[h].next
        /\ journal'.pending.key # 0
    BY <1>4 DEF TypeOK, Keys
  <2>2. call[h].next \in Nat /\ journal.checkpoint <= call[h].next
    BY <1>2, <1>4 DEF TypeOK, Call, Offsets, Useful
  <2>3. call[h].covers = journal.checkpoint .. call[h].next - 1
    BY <1>2, <1>4 DEF Useful
  <2>4. Abs!Delivery(journal'.pending)
    BY <2>1, <2>3 DEF Abs!Delivery, Abs!Due
  <2>5. Abs!Offer
    BY <1>1, <1>4, <2>1, <2>2, <2>4 DEF Abs!Offer, Abs!Ongoing
  <2> QED BY <2>5 DEF SubStep, Abs!SubNext
<1> QED BY <1>1, <1>3, <1>4

LEMMA SettleSub ==
    ASSUME TypeOK, TypeOK', GroupInv, ~WriteErrors, NEW ok \in BOOLEAN,
           NEW l \in leases, NEW b \in batches, NEW next \in Offsets,
           Settle(l, b.key, next, ok)
    PROVE  SubStep
<1>1. /\ pc = "up" /\ journal' = group'
      /\ group.status = "active" /\ group.pending.key = b.key /\ b.key # 0
      /\ group.pending.next = next /\ told' = told
      /\ group' = [group EXCEPT !.checkpoint = next, !.pending = NoBatch,
                                !.settled = group.pending,
                                !.status = IF next >= group.end THEN "finished" ELSE @]
  BY SaveSucceeds DEF Settle
<1>2. /\ group \in Group /\ group.pending = journal.pending /\ journal.status = "active"
      /\ group.start = journal.start /\ group.end = journal.end
  BY <1>1, Agreement
<1>3. /\ journal'.start = journal.start /\ journal'.end = journal.end
      /\ journal'.checkpoint = next /\ journal'.pending = NoBatch
      /\ journal'.status \in {"active", "finished"}
  BY <1>1, <1>2 DEF Group
<1>4. Due(journal.pending) \subseteq told
  BY <1>1, <1>2 DEF GroupInv, BatchInv
<1>5. Abs!SettleOffer
  BY <1>1, <1>2, <1>3, <1>4 DEF Abs!SettleOffer, Abs!Ongoing, Due, NoBatch
<1> QED BY <1>5 DEF SubStep, Abs!SubNext

LEMMA NextSub ==
    ASSUME TypeOK, TypeOK', CallsForward, GroupInv, ~WriteErrors, [Next]_vars
    PROVE  SubStep
<1> USE ConstantsAssumption
<1> USE DEF log, gc, gates, history, counts
<1>1. ASSUME NEW ok \in BOOLEAN, NEW start \in Starts, NEW end \in Ends, Register(start, end, ok)
      PROVE  SubStep
  <2>1. group.status = "none" /\ pc = "up" /\ journal' = group' /\ told' = {}
        /\ group' = [NoGroup EXCEPT !.status = "active", !.start = start, !.end = end,
                                    !.checkpoint = start]
    BY <1>1, SaveSucceeds DEF Register
  <2>2. journal.status = "none"
    BY <2>1, Agreement
  <2>3. /\ journal'.status = "active" /\ journal'.start = start /\ start \in Nat
        /\ journal'.checkpoint = start /\ journal'.pending.key = 0
    BY <2>1 DEF NoGroup, NoBatch
  <2>4. Abs!Declare
    BY <2>1, <2>2, <2>3 DEF Abs!Declare
  <2> QED BY <2>4 DEF SubStep, Abs!SubNext
<1>2. ASSUME NEW ok \in BOOLEAN, Pause(ok) \/ Resume(ok) PROVE SubStep
  <2>1. pc = "up" /\ journal' = group' /\ told' = told /\ group.status # "none"
    BY <1>2, SaveSucceeds DEF Pause, Resume
  <2>2. /\ group'.status # "none" /\ group'.start = group.start /\ group'.end = group.end
        /\ group'.checkpoint = group.checkpoint /\ group'.pending = group.pending
    BY <1>2 DEF Pause, Resume, TypeOK, Group
  <2>3. /\ group.status = journal.status /\ group.start = journal.start
        /\ group.end = journal.end /\ group.checkpoint = journal.checkpoint
        /\ group.pending = journal.pending
    BY <2>1, Agreement
  <2> QED BY <2>1, <2>2, <2>3, DeliverSub
<1>3. ASSUME NEW ok \in BOOLEAN, Delete(ok) PROVE SubStep
  <2>1. pc = "up" /\ group.status # "none" /\ journal' = NoGroup /\ told' = told
    BY <1>3, SaveSucceeds DEF Delete
  <2>2. Abs!Drop
    BY <2>1, Agreement DEF Abs!Drop, NoGroup
  <2> QED BY <2>2 DEF SubStep, Abs!SubNext
<1>4. ASSUME NEW ok \in BOOLEAN, NEW h \in Holders, ClaimCommit(h, ok) PROVE SubStep
  <2>1. /\ pc = "up" /\ call[h].busy /\ CanCommit(h) /\ group' = Committed(h)
        /\ told' = told \cup call[h].covers
        /\ \/ group' = group /\ journal' = journal
           \/ journal' = Committed(h)
    BY <1>4, SaveSucceeds DEF ClaimCommit, Committing
  <2>2. CASE journal' = Committed(h)
    BY <2>1, <2>2, CommitSub
  <2>3. CASE group' = group /\ journal' = journal
    <3>1. /\ journal.status = "active"
          /\ \/ journal.pending.key # 0 /\ journal.pending.key = call[h].key
             \/ journal.pending.key = 0 /\ group'.pending.key = keys + 1
      BY <2>1, CommittedFacts
    <3>2. group'.pending.key = journal.pending.key /\ keys + 1 # 0
      BY <2>1, <2>3, Agreement DEF TypeOK, Keys
    <3>3. Useful(call[h]) /\ journal.pending.key # 0 /\ journal.pending.key = call[h].key
      BY <2>1, <3>1, <3>2 DEF GroupInv, CallInv
    <3>4. /\ Due(journal.pending) \subseteq call[h].covers
          /\ call[h].covers \subseteq journal.pending.from .. journal.pending.next - 1
      BY <3>3 DEF Useful
    <3> QED BY <2>1, <2>3, <3>1, <3>3, <3>4, DeliverSub
  <2> QED BY <2>1, <2>2, <2>3
<1>5. ASSUME NEW h \in Holders, CrashInClaim(h) PROVE SubStep
  <2>1. pc = "up" /\ call[h].busy /\ CanCommit(h) /\ journal' = Committed(h) /\ told' = told
    BY <1>5 DEF CrashInClaim, Die
  <2> QED BY <2>1, CommitSub
<1>6. ASSUME NEW ok \in BOOLEAN, NEW l \in leases, NEW b \in batches, NEW next \in Offsets,
             Settle(l, b.key, next, ok)
      PROVE  SubStep
  BY <1>6, SettleSub
<1>7. CASE SaveAll
  <2>1. pc = "up" /\ journal' = group /\ told' = told
    BY <1>7 DEF SaveAll
  <2> QED BY <2>1, Agreement DEF SubStep
<1>8. ASSUME NEW ok \in BOOLEAN,
             \/ MoveGate(ok)
             \/ \E l \in leases, b \in batches, next \in Offsets : SettleAgain(l, b.key, next)
             \/ \E h \in Holders : \/ \E limit \in Limits : ClaimPlan(h, limit)
                                   \/ ClaimReplans(h) \/ ClaimEnds(h)
      PROVE  SubStep
  BY <1>8, SameSub DEF MoveGate, SettleAgain, ClaimPlan, ClaimReplans, ClaimEnds
<1>9. CASE \/ LogSteps \/ Crash \/ Recover \/ UNCHANGED vars
           \/ \E key \in Keys : Expire(key)
  BY <1>9, SameSub
     DEF LogSteps, Arrive, Seal, Quarantine, Repair, Evict, CheckOrder, AcceptOrder,
         Crash, Die, Recover, Expire, vars
<1> QED
  BY <1>1, <1>2, <1>3, <1>4, <1>5, <1>6, <1>7, <1>8, <1>9
  DEF Next, Declarations, Settling, Claims

\* At-least-once delivery: one batch at a time is on offer until it is
\* settled, and the checkpoint moves on only over what was delivered or
\* reported as a gap, whoever claims and whatever crashes.
THEOREM Refinement ==
    ASSUME ~WriteErrors
    PROVE  Spec => ImplementsSubscription
<1>1. Init => Abs!SubInit
  BY DEF Init, Abs!SubInit, NoGroup, NoBatch
<1>2. Correct /\ Correct' /\ [Next]_vars => [Abs!SubNext]_Abs!subVars
  <2> SUFFICES ASSUME Correct, Correct', [Next]_vars PROVE [Abs!SubNext]_Abs!subVars
      OBVIOUS
  <2>1. SubStep
    BY NextSub DEF Correct, IndInv
  <2> QED BY <2>1 DEF SubStep, Abs!subVars
<1>3. Init => Correct
  BY InitType, InitInv DEF Correct
<1>4. Correct /\ [Next]_vars => Correct'
  BY NextKeeps
<1> QED BY <1>1, <1>2, <1>3, <1>4, PTL DEF Spec, ImplementsSubscription, Abs!SubSpec
=============================================================================
