----------------------------- MODULE GroupsInv ------------------------------
(* Why a consumer group keeps its promises: an invariant that every step    *)
(* of Groups preserves when saves succeed.  It speaks of the group on disk; *)
(* the one in memory differs from it at most by a lease.                    *)
EXTENDS Groups

Due(b) == Abs!Due(b)

\* What a claim keeps of a range.
Reaches(b) == b.next <= head \/ b.next = b.from

\* Memory and disk differ only by a lease that was granted and not saved; such
\* a lease has a later epoch.
MemoryInv ==
    IF pc = "down"
    THEN group = NoGroup /\ \A h \in Holders : ~call[h].busy
    ELSE /\ group = [journal EXCEPT !.epoch = group.epoch, !.lease = group.lease]
         /\ journal.epoch <= group.epoch
         /\ group.epoch = journal.epoch => group.lease = journal.lease
         /\ group.lease = journal.lease /\ group.lease.key # 0 => group.epoch = journal.epoch
         /\ group.lease.key = journal.lease.key => group.lease = journal.lease
         /\ group.status = "none" => group = NoGroup

\* Keys in use were handed out, so that the next one is new.
KeysInv ==
    /\ group.lease.key <= keys /\ journal.lease.key <= keys
    /\ group.pending.key <= keys /\ journal.pending.key <= keys
    /\ \A h \in Holders : call[h].key <= keys
    /\ \A b \in batches : b.key \in 1 .. keys
    /\ \A l \in leases : l.key \in 1 .. keys

\* The batch on offer begins at the checkpoint.
JournalInv ==
    /\ journal.status = "none" => journal = NoGroup
    /\ journal.pending.key # 0 =>
          journal.pending.from = journal.checkpoint /\ Reaches(journal.pending)
    /\ journal.settled.next <= journal.checkpoint
    /\ journal.status # "none" => done <= journal.checkpoint

\* A scan for a new batch has all its offsets, and one for the batch on
\* offer has what that batch owes.
Useful(c) ==
    /\ c.from <= c.next
    /\ c.key = 0 => Reaches(c) /\ c.covers = c.from .. c.next - 1
    /\ c.key # 0 /\ c.key = journal.pending.key =>
          /\ Due(journal.pending) \subseteq c.covers
          /\ c.covers \subseteq journal.pending.from .. journal.pending.next - 1

CallInv == \A h \in Holders : call[h].busy => Useful(call[h])

\* A batch a consumer was given is on offer and was delivered, or is behind
\* the checkpoint.
BatchInv ==
    /\ OneBatchPerOffset
    /\ journal.status # "none" =>
          \A b \in batches :
              IF b.key = journal.pending.key
              THEN b = journal.pending /\ Due(b) \subseteq told
              ELSE b.next <= journal.checkpoint

\* Nobody settles in the current epoch but who holds the lease on disk.
SettleInv ==
    /\ SettlesAreFenced
    /\ \A l \in leases :
          /\ l.key = group.lease.key => l.epoch = group.epoch
          /\ l.key = journal.lease.key => l.epoch = journal.epoch
    /\ journal.status # "none" =>
          \A s \in settles :
              /\ s.next <= journal.checkpoint
              /\ s.epoch <= journal.epoch
              /\ s.epoch = journal.epoch => journal.lease.key \in {0, s.key}

GroupInv == MemoryInv /\ KeysInv /\ JournalInv /\ CallInv /\ BatchInv /\ SettleInv

\* Segments and tombstones do not overlap, and orders name segments.
LogInv ==
    /\ \A u \in units : u.first <= u.last /\ u.last < head
    /\ \A u, v \in units : u = v \/ u.last < v.first \/ v.last < u.first
    /\ doomed \cup checked \subseteq {u.first : u \in units}

\* No order reaches the checkpoint of an active group.
OrderInv ==
    journal.status = "active" =>
        \A u \in units : u.first \in doomed \cup checked => u.last < journal.checkpoint

\* What the gate is, as long as at most one save has failed: that of the group
\* when none has; otherwise not ahead of the group, in memory or on disk.
Agree(g, j) == g.status = j.status /\ g.checkpoint = j.checkpoint
InOrder(g)  == g.pending.key # 0 => g.pending.from = g.checkpoint
Behind(g)   == g.status = "active" => gate <= g.checkpoint

GateInv ==
    /\ InOrder(group) /\ InOrder(journal)
    /\ pc = "down" => group = NoGroup /\ gate = -1
    /\ pc = "gate" => group = journal
    /\ pc = "up" /\ faults = 0 => gate = GateOf(group) /\ Agree(group, journal)
    /\ pc = "up" /\ faults <= 1 /\ gate >= 0 => Behind(group) /\ Behind(journal)

IndInv == GroupInv /\ GatesAligned /\ LogInv /\ (SlowApply \/ OrderInv)
=============================================================================
