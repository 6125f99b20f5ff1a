------------------------------- MODULE Groups -------------------------------
(***************************************************************************)
(* A consumer group of the event archive: a durable subscription whose     *)
(* batches one holder at a time claims and settles, under a lease.         *)
(*                                                                         *)
(* The module has one group name, which may be registered, deleted and     *)
(* registered again; what other groups do to this one is to save the       *)
(* journal they share.  Handlers run under the store's lock; a claim       *)
(* releases it between its plan and its commit, to read the log.  The log  *)
(* and the reclamation of its segments are reduced to what a group sees.   *)
(*                                                                         *)
(* Time is the set of the leases that have expired.  Keys are numbers from *)
(* a counter; 0 stands for None.                                           *)
(***************************************************************************)
EXTENDS Integers, FiniteSets

CONSTANTS
    Holders,      \* names consumers claim under
    Nobody,       \* no such name
    Starts, Ends, \* offsets a declaration may name; NoEnd stands for None
    Limits,       \* limits a claim may carry
    WriteErrors,  \* may saving the journal fail while the process lives on?
    SlowApply,    \* may a group begin between the check of a reclamation
                  \* order and its acceptance?
    MaxOffset,    \* bound: events in the log
    MaxUnits,     \* bound: segments
    MaxKeys,      \* bound: lease and batch keys
    MaxCrashes,   \* bound: crashes
    MaxFaults     \* bound: quarantined segments and failed writes

NoEnd == MaxOffset + 1

ASSUME ConstantsAssumption ==
    /\ Nobody \notin Holders
    /\ MaxOffset \in Nat /\ MaxUnits \in Nat /\ MaxKeys \in Nat
    /\ MaxCrashes \in Nat /\ MaxFaults \in Nat
    /\ Starts \subseteq 0 .. MaxOffset
    /\ Ends \subseteq 0 .. NoEnd
    /\ Limits \subseteq Nat \ {0}
    /\ WriteErrors \in BOOLEAN /\ SlowApply \in BOOLEAN

VARIABLES
    head,     \* the log: the next offset
    units,    \* the log: segments and tombstones
    checked,  \* a reclamation order that was checked: first offsets
    doomed,   \* segments of accepted orders: first offsets
    group,    \* the group in memory
    journal,  \* the group in groups.json
    gate,     \* _gates: the checkpoint that holds back reclamation, or -1
    ledger,   \* the same in group_gates.json
    call,     \* the claim each holder has under way, planned but not committed
    pc,       \* "up", "gate" (before the ledger is saved), "down"
    expired,  \* lease keys whose time is over
    keys,     \* the number of keys handed out
    leases,   \* history: leases consumers were told of
    batches,  \* history: batches consumers were given
    told,     \* history: offsets delivered to consumers, or reported as gaps
    settles,  \* history: settles that were carried out
    done,     \* history: the checkpoint the last successful settle reported
    crashes, faults

log     == <<head, units>>
gc      == <<checked, doomed>>
gates   == <<gate, ledger>>
history == <<leases, batches, told, settles, done>>
counts  == <<crashes, faults>>
vars    == <<log, gc, group, journal, gates, call, pc, expired, keys, history, counts>>

Offsets == 0 .. MaxOffset
Keys    == 0 .. MaxKeys
Lease   == [holder : Holders \cup {Nobody}, key : Keys]
Batch   == {b \in [key : Keys, from : Offsets, next : Offsets] : b.from <= b.next}

NoLease == [holder |-> Nobody, key |-> 0]
NoBatch == [key |-> 0, from |-> 0, next |-> 0]
NoGroup == [status |-> "none", start |-> 0, end |-> 0, checkpoint |-> 0, epoch |-> 0,
            lease |-> NoLease, pending |-> NoBatch, settled |-> NoBatch]
NoCall  == [busy |-> FALSE, key |-> 0, from |-> 0, next |-> 0, covers |-> {}]

Span(u) == u.first .. u.last
-----------------------------------------------------------------------------
(* What a group reads of the log.                                          *)

Evicted(o) == \E u \in units : u.status = "evicted" /\ o \in Span(u)

\* What a scan reports as a gap: offsets in quarantined or evicted segments.
Gaps == UNION {Span(u) : u \in {v \in units : v.status # "sealed"}}

\* A scan from offset `from' up to `stop', for at most `limit' messages: the
\* offsets it returns, and where the next one is to begin.  Gaps are not
\* counted as messages; one behind the last message of a full batch is left
\* to the next.
Visible(from, stop) == {o \in from .. head - 1 : o < stop}

\* Variant: gaps are skipped in silence.
DeliveredSilently(messages, from, next) == messages

Delivered(messages, from, next) == messages \cup {o \in Gaps : from <= o /\ o < next}

IsScan(from, stop, limit, covers, next) ==
    LET visible  == Visible(from, stop)
        readable == visible \ Gaps
        upto(o)  == {q \in readable : q <= o}
    IN  \/ \E last \in readable :
              /\ Cardinality(upto(last)) = limit
              /\ next = last + 1
              /\ covers = Delivered(upto(last), from, next)
        \/ /\ Cardinality(readable) < limit
           /\ \/ visible = {} /\ next = from
              \/ next - 1 \in visible /\ \A o \in visible : o < next
           /\ covers = Delivered(readable, from, next)

\* The first offset of the segment or tombstone an offset lies in.
IsBoundary(b, o) ==
    \/ \E u \in units : o \in Span(u) /\ b = u.first
    \/ b = o /\ \A u \in units : o \notin Span(u)

\* Variant: only what begins at the checkpoint or after it is protected.
GatedFromCheckpoint(u) == gate >= 0 /\ u.first >= gate

\* A gate protects the segment of its checkpoint and all that follow.
Gated(u) == gate >= 0 /\ \E b \in Offsets : IsBoundary(b, gate) /\ u.first >= b

\* An accepted order is about to remove something from offset o on.
InFlight(o) == \E u \in units : u.first \in doomed /\ u.last >= o

GateOf(g) == IF g.status = "active" THEN g.checkpoint ELSE -1
-----------------------------------------------------------------------------
Init ==
    /\ head = 0
    /\ units = {}
    /\ checked = {}
    /\ doomed = {}
    /\ group = NoGroup
    /\ journal = NoGroup
    /\ gate = -1
    /\ ledger = -1
    /\ call = [h \in Holders |-> NoCall]
    /\ pc = "up"
    /\ expired = {}
    /\ keys = 0
    /\ leases = {}
    /\ batches = {}
    /\ told = {}
    /\ settles = {}
    /\ done = 0
    /\ crashes = 0
    /\ faults = 0

\* Variant: the handler answers and leaves the saving to others.
SaveLater(ok) == ok /\ UNCHANGED <<journal, faults>>

\* Save the group of the next state, or fail to: an OSError leaves the
\* handler, and what it changed in memory stays.
Save(ok) ==
    \/ ok /\ journal' = group' /\ UNCHANGED faults
    \/ /\ ~ok /\ WriteErrors
       /\ faults < MaxFaults
       /\ faults' = faults + 1
       /\ UNCHANGED journal

\* Variant: the gate moves though the group was not saved.
ThenGateAnyway(ok) == pc' = "gate"

\* A handler that goes on to save the gate ledger.
ThenGate(ok) == pc' = IF ok THEN "gate" ELSE pc

\* May a group begin to rely on the log from offset o on?
Available(o) ==
    /\ ~Evicted(o)
    /\ ~InFlight(o)
    /\ SlowApply \/ checked = {}

Register(start, end, ok) ==
    /\ pc = "up"
    /\ group.status = "none"
    /\ start < end
    /\ Available(start)
    /\ group' = [NoGroup EXCEPT !.status = "active", !.start = start, !.end = end,
                                !.checkpoint = start]
    /\ Save(ok)
    /\ ThenGate(ok)
    /\ leases' = {} /\ batches' = {} /\ told' = {} /\ settles' = {} /\ done' = start
    /\ UNCHANGED <<log, gc, gates, call, expired, keys, crashes>>

\* Release the lease and the gate; the batch stays.
Pause(ok) ==
    /\ pc = "up"
    /\ group.status = "active"
    /\ group' = [group EXCEPT !.status = "paused", !.lease = NoLease]
    /\ Save(ok)
    /\ ThenGate(ok)
    /\ UNCHANGED <<log, gc, gates, call, expired, keys, history, crashes>>

Resume(ok) ==
    /\ pc = "up"
    /\ group.status = "paused"
    /\ Available(group.checkpoint)
    /\ group' = [group EXCEPT !.status = "active"]
    /\ Save(ok)
    /\ ThenGate(ok)
    /\ UNCHANGED <<log, gc, gates, call, expired, keys, history, crashes>>

Delete(ok) ==
    /\ pc = "up"
    /\ group.status # "none"
    /\ group' = NoGroup
    /\ Save(ok)
    /\ ThenGate(ok)
    /\ UNCHANGED <<log, gc, gates, call, expired, keys, history, crashes>>

\* The gate follows the group, in memory and in the ledger.
MoveGate(ok) ==
    /\ pc = "gate"
    /\ gate' = GateOf(group)
    /\ \/ ok /\ ledger' = gate' /\ UNCHANGED faults
       \/ /\ ~ok /\ WriteErrors
          /\ faults < MaxFaults
          /\ faults' = faults + 1
          /\ UNCHANGED ledger
    /\ pc' = "up"
    /\ UNCHANGED <<log, gc, group, journal, call, expired, keys, history, crashes>>
-----------------------------------------------------------------------------
(* Claims.                                                                 *)

LeaseLive == group.lease.key # 0 /\ group.lease.key \notin expired

\* The lease is free, or the holder's own.
MayHold(h) == LeaseLive => group.lease.holder = h

\* Under the lock, take a snapshot of the log and plan the scan: again the
\* batch that is not settled yet, or a new one.  The scan then runs without
\* the lock; what it returns depends on the snapshot.
ClaimPlan(h, limit) ==
    /\ pc = "up"
    /\ ~call[h].busy
    /\ group.status = "active"
    /\ ~Evicted(group.checkpoint)
    /\ MayHold(h)
    /\ LET b == group.pending IN
       \E next \in Offsets, covers \in SUBSET Offsets :
          /\ IF b.key # 0
             THEN \E stop \in {b.next, group.end} :
                     /\ stop <= b.next /\ stop <= group.end
                     /\ IsScan(b.from, stop, NoEnd, covers, next)
             ELSE IsScan(group.checkpoint, group.end, limit, covers, next)
          /\ call' = [call EXCEPT ![h] =
                [busy |-> TRUE, key |-> b.key, covers |-> covers,
                 from |-> IF b.key # 0 THEN b.from ELSE group.checkpoint,
                 next |-> IF b.key # 0 THEN b.next ELSE next]]
    /\ UNCHANGED <<log, gc, group, journal, gates, pc, expired, keys, history, counts>>

\* The caller's lease: its own, or a new one with the next epoch.
Granted(h) ==
    IF LeaseLive
    THEN group
    ELSE [group EXCEPT !.epoch = @ + 1, !.lease = [holder |-> h, key |-> keys + 1]]

\* Variant: any batch will do.
RedeliveryOfAny(h) == call[h].key # 0

Redelivery(h) == call[h].key # 0 /\ group.pending.key = call[h].key

\* Variants: only one of the two things that may have changed is looked at.
CreationAnyCheckpoint(h) == call[h].key = 0 /\ group.pending.key = 0
CreationAnyBatch(h)      == call[h].key = 0 /\ group.checkpoint = call[h].from

\* Nothing was claimed or settled since the plan.
Creation(h) ==
    /\ call[h].key = 0
    /\ group.pending.key = 0
    /\ group.checkpoint = call[h].from

\* The group once the claim is committed.
Committed(h) ==
    IF Creation(h)
    THEN [Granted(h) EXCEPT !.pending =
             [key |-> keys + 1, from |-> group.checkpoint, next |-> call[h].next]]
    ELSE Granted(h)

Committing(h) ==
    /\ pc = "up"
    /\ call[h].busy
    /\ call' = [call EXCEPT ![h] = NoCall]

CanCommit(h) ==
    /\ group.status = "active"
    /\ MayHold(h)
    /\ keys < MaxKeys
    /\ Redelivery(h) \/ Creation(h)

\* The second section under the lock: the lease is taken over if it has
\* expired, a new batch is saved, the consumer gets the batch.
ClaimCommit(h, ok) ==
    /\ Committing(h)
    /\ CanCommit(h)
    /\ group' = Committed(h)
    /\ keys' = IF group' = group THEN keys ELSE keys + 1
    /\ IF group' = group THEN ok /\ UNCHANGED <<journal, faults>> ELSE Save(ok)
    /\ IF ok
       THEN /\ leases' = leases \cup {[holder |-> h, key |-> group'.lease.key,
                                       epoch |-> group'.epoch]}
            /\ batches' = batches \cup {group'.pending}
            /\ told' = told \cup call[h].covers
       ELSE UNCHANGED <<leases, batches, told>>
    /\ UNCHANGED <<log, gc, gates, pc, expired, settles, done, crashes>>

\* The batch was settled, or another was made, since the plan: plan again.
\* A lease that was just granted stays, in memory only.
ClaimReplans(h) ==
    /\ Committing(h)
    /\ group.status = "active"
    /\ MayHold(h)
    /\ ~Redelivery(h) /\ ~Creation(h)
    /\ LeaseLive \/ keys < MaxKeys
    /\ group' = Granted(h)
    /\ keys' = IF group' = group THEN keys ELSE keys + 1
    /\ UNCHANGED <<log, gc, journal, gates, pc, expired, history, counts>>

\* The group is not active any more, another holder has it, or a segment
\* was evicted under the scan.
ClaimEnds(h) ==
    /\ Committing(h)
    /\ \/ group.status # "active"
       \/ ~MayHold(h)
       \/ \E o \in call[h].covers : Evicted(o)
    /\ UNCHANGED <<log, gc, group, journal, gates, pc, expired, keys, history, counts>>

\* Time passes; only the lease in memory or on disk matters.
Expire(key) ==
    /\ key \in {group.lease.key, journal.lease.key} \ (expired \cup {0})
    /\ expired' = expired \cup {key}
    /\ UNCHANGED <<log, gc, group, journal, gates, call, pc, keys, history, counts>>

\* A renewal, or any handler on another group, saves the journal of all groups.
SaveAll ==
    /\ pc = "up"
    /\ journal # group
    /\ journal' = group
    /\ UNCHANGED <<log, gc, group, gates, call, pc, expired, keys, history, counts>>
-----------------------------------------------------------------------------
(* Settles.                                                                *)

\* Variant: the name is enough.
CredentialsByName(l) == LeaseLive /\ group.lease.holder = l.holder

\* The lease a consumer names is the current one, and has not expired.
Credentials(l) ==
    /\ LeaseLive
    /\ group.lease.holder = l.holder
    /\ group.lease.key = l.key

\* Commit the end of the batch as the checkpoint, and save it all in one
\* write.  The end of a static group is the end of its subscription.
Settle(l, key, next, ok) ==
    /\ pc = "up"
    /\ Credentials(l)
    /\ group.status = "active"
    /\ group.pending.key = key /\ key # 0
    /\ group.pending.next = next
    /\ group' = [group EXCEPT !.checkpoint = next, !.pending = NoBatch,
                              !.settled = group.pending,
                              !.status = IF next >= group.end THEN "finished" ELSE @]
    /\ Save(ok)
    /\ ThenGate(ok)
    /\ settles' = settles \cup {[key |-> l.key, epoch |-> l.epoch, next |-> next]}
    /\ done' = IF ok THEN next ELSE done
    /\ UNCHANGED <<log, gc, gates, call, expired, keys, leases, batches, told, crashes>>

\* The batch is the one settled last: report success, change nothing.
SettleAgain(l, key, next) ==
    /\ pc = "up"
    /\ Credentials(l)
    /\ group.settled.key = key /\ key # 0
    /\ group.settled.next = next
    /\ done' = next
    /\ UNCHANGED <<log, gc, group, journal, gates, call, pc, expired, keys,
                   leases, batches, told, settles, counts>>
-----------------------------------------------------------------------------
(* The log and its reclamation, as a group sees them.                      *)

Arrive ==
    /\ pc = "up"
    /\ head < MaxOffset
    /\ head' = head + 1
    /\ UNCHANGED <<units, gc, group, journal, gates, call, pc, expired, keys, history,
                   counts>>

\* The open records become a segment.
Seal ==
    /\ pc = "up"
    /\ Cardinality(units) < MaxUnits
    /\ \E first \in 0 .. head - 1 :
          /\ \A u \in units : u.last < first
          /\ first = 0 \/ \E u \in units : u.last = first - 1
          /\ units' = units \cup {[first |-> first, last |-> head - 1, status |-> "sealed"]}
    /\ UNCHANGED <<head, gc, group, journal, gates, call, pc, expired, keys, history,
                   counts>>

Changed(u, status) == (units \ {u}) \cup {[u EXCEPT !.status = status]}

Quarantine(u) ==
    /\ pc = "up"
    /\ u.status = "sealed"
    /\ faults < MaxFaults
    /\ faults' = faults + 1
    /\ units' = Changed(u, "quarantined")
    /\ UNCHANGED <<head, gc, group, journal, gates, call, pc, expired, keys, history,
                   crashes>>

Repair(u) ==
    /\ pc = "up"
    /\ u.status = "quarantined"
    /\ units' = Changed(u, "sealed")
    /\ UNCHANGED <<head, gc, group, journal, gates, call, pc, expired, keys, history,
                   counts>>

\* A reclamation order is checked: all its segments are sealed, in no other
\* order, and no gate (nor hold, freeze or repair) protects them.
CheckOrder(order) ==
    /\ pc = "up"
    /\ checked = {}
    /\ order # {}
    /\ \A u \in order : u.status = "sealed" /\ u.first \notin doomed /\ ~Gated(u)
    /\ checked' = {u.first : u \in order}
    /\ UNCHANGED <<log, doomed, group, journal, gates, call, pc, expired, keys, history,
                   counts>>

\* It is accepted under the lock taken anew, and saved.
AcceptOrder ==
    /\ pc = "up"
    /\ checked # {}
    /\ doomed' = doomed \cup checked
    /\ checked' = {}
    /\ UNCHANGED <<log, group, journal, gates, call, pc, expired, keys, history, counts>>

\* The worker publishes the tombstone.
Evict(u) ==
    /\ pc = "up"
    /\ u.first \in doomed
    /\ units' = Changed(u, "evicted")
    /\ doomed' = doomed \ {u.first}
    /\ UNCHANGED <<head, checked, group, journal, gates, call, pc, expired, keys, history,
                   counts>>
-----------------------------------------------------------------------------
(* Crash and restart.                                                      *)

Die ==
    /\ crashes < MaxCrashes
    /\ crashes' = crashes + 1
    /\ group' = NoGroup
    /\ gate' = -1
    /\ checked' = {}
    /\ call' = [h \in Holders |-> NoCall]
    /\ pc' = "down"
    /\ UNCHANGED <<log, doomed, ledger, expired, history, faults>>

Crash ==
    /\ pc # "down"
    /\ Die
    /\ UNCHANGED <<journal, keys>>

\* The crash hits a claim that has saved the group and not answered yet.
CrashInClaim(h) ==
    /\ pc = "up"
    /\ call[h].busy
    /\ CanCommit(h)
    /\ Committed(h) # group
    /\ Die
    /\ journal' = Committed(h)
    /\ keys' = keys + 1

\* Variant: the ledger is believed.
ExpectedOfLedger == ledger

Expected == GateOf(journal)

\* The gates are derived from the journal; a ledger that differs is rewritten.
Recover ==
    /\ pc = "down"
    /\ group' = journal
    /\ gate' = Expected
    /\ ledger' = gate'
    /\ pc' = "up"
    /\ UNCHANGED <<log, gc, journal, call, expired, keys, history, counts>>
-----------------------------------------------------------------------------
Declarations(ok) ==
    \/ \E start \in Starts, end \in Ends : Register(start, end, ok)
    \/ Pause(ok) \/ Resume(ok) \/ Delete(ok)

Claims(h, ok) ==
    \/ \E limit \in Limits : ClaimPlan(h, limit)
    \/ ClaimCommit(h, ok) \/ ClaimReplans(h) \/ ClaimEnds(h) \/ CrashInClaim(h)

\* A consumer may name any lease, batch and offset it has heard of.
Settling(ok) ==
    \E l \in leases, b \in batches, next \in Offsets :
        Settle(l, b.key, next, ok) \/ SettleAgain(l, b.key, next)

LogSteps ==
    \/ Arrive \/ Seal
    \/ \E u \in units : Quarantine(u) \/ Repair(u) \/ Evict(u)
    \/ \E order \in SUBSET units : CheckOrder(order)
    \/ AcceptOrder

Next ==
    \/ \E ok \in BOOLEAN :
          \/ Declarations(ok) \/ Settling(ok) \/ MoveGate(ok)
          \/ \E h \in Holders : Claims(h, ok)
    \/ \E key \in Keys : Expire(key)
    \/ SaveAll
    \/ LogSteps
    \/ Crash \/ Recover

Spec == Init /\ [][Next]_vars
-----------------------------------------------------------------------------
(* Properties.                                                             *)

Group == [status : {"none", "active", "paused", "finished"},
          start : Offsets, end : 0 .. NoEnd, checkpoint : Offsets, epoch : Nat,
          lease : Lease, pending : Batch, settled : Batch]
Unit  == [first : Offsets, last : Offsets, status : {"sealed", "quarantined", "evicted"}]
Call  == [busy : BOOLEAN, key : Keys, from : Offsets, next : Offsets,
          covers : SUBSET Offsets]

\* Each variable has its type; no batch, in memory, on disk or in the hands of
\* a consumer, ends before it begins.
TypeOK ==
    /\ head \in Offsets /\ units \subseteq Unit
    /\ checked \subseteq Offsets /\ doomed \subseteq Offsets
    /\ group \in Group /\ journal \in Group
    /\ gate \in -1 .. MaxOffset /\ ledger \in -1 .. MaxOffset
    /\ call \in [Holders -> Call]
    /\ pc \in {"up", "gate", "down"}
    /\ expired \subseteq Keys /\ keys \in Keys
    /\ leases \subseteq [holder : Holders, key : Keys, epoch : Nat]
    /\ batches \subseteq Batch
    /\ told \subseteq Offsets
    /\ settles \subseteq [key : Keys, epoch : Nat, next : Offsets]
    /\ done \in Offsets
    /\ crashes \in Nat /\ faults \in Nat

\* A consumer is given no second batch for offsets of a batch it was given,
\* whatever holders claimed at the same time and whatever a restart forgot:
\* until it is settled the same batch is delivered again, and never later.
OneBatchPerOffset ==
    \A b, c \in batches : b # c => b.next <= c.from \/ c.next <= b.from

\* Batches are settled in the order of the epochs, and in each epoch by one
\* lease: who lost its lease does not move the checkpoint again, not even
\* after a crash that forgot who took over.
SettlesAreFenced ==
    \A s, t \in settles :
        /\ s.epoch = t.epoch => s.key = t.key
        /\ s.next < t.next => s.epoch <= t.epoch

\* A settle that was answered with success stays: neither a crash nor a
\* retry takes the checkpoint back, and the batch does not come again.
SettledStays == group.status # "none" => group.checkpoint >= done

\* Between handlers the gate in memory and the one in the ledger are those of
\* the group, and no gate is left behind by a group that is gone.
GatesAligned == pc = "up" => gate = GateOf(group) /\ ledger = gate

\* When one save has failed, what a crash would roll the group back to is
\* still protected: the gate does not pass the checkpoint on disk.
GateCoversDisk ==
    /\ pc = "up" /\ faults <= 1
    /\ gate >= 0 /\ group.status = "active" /\ journal.status = "active"
    => gate <= journal.checkpoint

\* Reclamation takes nothing that an active group has not settled.
ActiveGroupsKeepTheirLog ==
    [][\A u \in units :
          (group.status = "active" /\ Evict(u)) => u.last < group.checkpoint]_vars

\* "Renewals keep the epoch; when the lease expires, another holder takes
\* over with an incremented epoch": no two leases consumers know of have the
\* same epoch.
EpochsDistinct == \A l, m \in leases : l.epoch = m.epoch => l.key = m.key

\* A static group never delivers what arrives at its end or after it.
StaticEnd == \A b \in batches : group.status # "none" => b.next <= group.end

\* The group on disk implements a subscription.
Abs == INSTANCE Subscription WITH
           status <- journal.status, start <- journal.start, end <- journal.end,
           at <- journal.checkpoint, offer <- journal.pending
ImplementsSubscription == Abs!SubSpec
=============================================================================
