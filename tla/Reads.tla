-------------------------------- MODULE Reads --------------------------------
(***************************************************************************)
(* Events in and out of the archive: the classification of what devices    *)
(* send, the index of each device, and a client that reads page after page *)
(* either the events of a device in business order or the archive in the   *)
(* order of arrival, from its head or from a freeze.                       *)
(*                                                                         *)
(* Meanwhile segments are sealed, quarantined, repaired, evicted, and the  *)
(* service is restarted.  How these come about is the matter of the modules*)
(* ArchiveLog, Repair and Gc; here they are what a reader may notice of    *)
(* them.  A page is planned under the store's lock and read without it.    *)
(*                                                                         *)
(* An offset is a position in the log; the position of an entry counts     *)
(* records, not bytes.                                                     *)
(***************************************************************************)
EXTENDS Integers, Sequences, FiniteSets

CONSTANTS
    Events,      \* what devices may send: device, id, sequence number, clock (numbers
                 \* and clocks are only compared, so they may be counted from 1)
    MaxBatch,    \* events in a request
    SegMax,      \* segment_max_records
    Limits,      \* limits of a page
    MaxLog,      \* bound: records
    MaxFaults,   \* bound: segments quarantined or given up to eviction
    MaxCrashes   \* bound: restarts

ASSUME ConstantsAssumption ==
    /\ \A ev \in Events : ev.seq \in Nat \ {0} /\ ev.ts \in Nat \ {0}
    /\ MaxBatch \in Nat \ {0} /\ SegMax \in Nat \ {0}
    /\ Limits \subseteq Nat \ {0}
    /\ MaxLog \in Nat /\ MaxFaults \in Nat /\ MaxCrashes \in Nat

Devs == {ev.dev : ev \in Events}
Ids  == {ev.id : ev \in Events}

VARIABLES
    log,       \* records by offset: event, flags, and where its batch begins
    segs,      \* segments: first, last, status, and is index.json readable?
    entries,   \* per device: offset, segment (0 for the open buffer), position
    ids,       \* per device and event id: the offset, or -1
    seqs,      \* per device: sequence numbers seen
    top,       \* per device: the greatest clock seen, 0 for none
    frz,       \* a freeze: the segments it refers to, its end, and the segments that an
               \* order checked before it may still be accepted for
    pc,        \* "up", or "sealing" before an ingest releases the lock
    client,    \* the client that reads
    forgotten, \* history: offsets whose index a restart could not read
    faults, crashes

index  == <<entries, ids, seqs, top>>
counts == <<faults, crashes>>
vars   == <<log, segs, index, frz, pc, client, forgotten, counts>>

NextOffset == Len(log)
Event(o) == log[o + 1].ev
Sealed  == IF segs = <<>> THEN 0 ELSE segs[Len(segs)].last + 1
Open    == Sealed .. NextOffset - 1
Span(k) == segs[k].first .. segs[k].last
Where(o) == IF o \in Open THEN 0 ELSE CHOOSE k \in DOMAIN segs : o \in Span(k)

Greatest(S) == IF S = {} THEN 0 ELSE CHOOSE x \in S : \A y \in S : y <= x
Least(S)    == CHOOSE x \in S : \A y \in S : x <= y

NoFreeze == [segs |-> {}, end |-> -1, late |-> {}]
NoPlan   == [items |-> {}, open |-> {}, gaps |-> {}, tombs |-> {}]
NoClient == [kind |-> "none", dev |-> 0, limit |-> 0, at |-> "off", seq |-> 0, off |-> 0,
             plan |-> NoPlan, more |-> FALSE,
             base |-> {}, got |-> {}, holes |-> {}, lost |-> {}, twice |-> {}]
-----------------------------------------------------------------------------
Init ==
    /\ log = <<>>
    /\ segs = <<>>
    /\ entries = [d \in Devs |-> {}]
    /\ ids = [d \in Devs |-> [i \in Ids |-> -1]]
    /\ seqs = [d \in Devs |-> {}]
    /\ top = [d \in Devs |-> 0]
    /\ frz = NoFreeze
    /\ pc = "up"
    /\ client = NoClient
    /\ forgotten = {}
    /\ faults = 0 /\ crashes = 0

(* Ingest.                                                                 *)

\* Variant: known ids are not looked up.
StoredAnyway(b) == [i \in DOMAIN b |-> \A j \in 1 .. i - 1 : b[j].id # b[i].id]

\* Which events of a batch are stored: those whose id is neither known of the
\* device, nor stored before in the batch - whatever the device.  It was stored
\* before if it was new to the device of some earlier event: of the first one.
Stored(b) ==
    LET new(i) == ids[b[i].dev][b[i].id] = -1
    IN  [i \in DOMAIN b |->
            new(i) /\ \A j \in 1 .. i - 1 : b[j].id = b[i].id => ~new(j)]

\* Variant: the greatest clock is that of the last event.
FlagsLast(ev) ==
    [conflict |-> ev.seq \in seqs[ev.dev], rollback |-> FALSE]

\* The flags of an event, from what was known before the batch.
Flags(ev) ==
    [conflict |-> ev.seq \in seqs[ev.dev], rollback |-> ev.ts < top[ev.dev]]

Ingest(b) ==
    LET stored == Stored(b)
        before(i) == Cardinality({j \in 1 .. i - 1 : stored[j]})
        new    == {i \in DOMAIN b : stored[i]}
        offset(i) == NextOffset + before(i)
        of(d)  == {i \in new : b[i].dev = d}
    IN  /\ pc = "up"
        /\ NextOffset + Cardinality(new) <= MaxLog
        /\ log' = log \o [n \in 1 .. Cardinality(new) |->
                      LET i == CHOOSE j \in new : before(j) = n - 1
                      IN  [ev |-> b[i], flags |-> Flags(b[i]), base |-> NextOffset]]
        /\ entries' = [d \in Devs |-> entries[d] \cup
              {[off |-> offset(i), seg |-> 0, pos |-> offset(i) - Sealed] : i \in of(d)}]
        /\ ids' = [d \in Devs |-> [id \in Ids |->
              IF \E i \in of(d) : b[i].id = id
              THEN offset(CHOOSE i \in of(d) : b[i].id = id) ELSE ids[d][id]]]
        /\ seqs' = [d \in Devs |-> seqs[d] \cup {b[i].seq : i \in of(d)}]
        /\ top' = [d \in Devs |-> Greatest({top[d]} \cup {b[i].ts : i \in of(d)})]
        /\ pc' = IF Len(log') - Sealed >= SegMax THEN "sealing" ELSE "up"
        /\ UNCHANGED <<segs, frz, client, forgotten, counts>>
-----------------------------------------------------------------------------
(* Segments.                                                               *)

\* Variant: entries that stay open keep their positions.
NotShifted(e, n) == e

Shifted(e, n) == [e EXCEPT !.pos = @ - n]

\* The n oldest open records become a segment, and the entries point there.
Seal(n) ==
    LET k    == Len(segs) + 1
        last == Sealed + n - 1
    IN  /\ segs' = Append(segs, [first |-> Sealed, last |-> last, status |-> "sealed", index |-> TRUE])
        /\ entries' = [d \in Devs |->
              {IF e.seg # 0 THEN e
               ELSE IF e.off <= last THEN [off |-> e.off, seg |-> k, pos |-> e.off - Sealed]
               ELSE Shifted(e, n) : e \in entries[d]}]

\* While there are enough open records, before the lock is released.
SealFull ==
    /\ pc = "sealing"
    /\ Seal(SegMax)
    /\ pc' = IF Cardinality(Open) - SegMax >= SegMax THEN "sealing" ELSE "up"
    /\ UNCHANGED <<log, ids, seqs, top, frz, client, forgotten, counts>>

\* The janitor seals what has been open for too long.
SealAged ==
    /\ pc = "up"
    /\ Open # {}
    /\ Seal(Cardinality(Open))
    /\ UNCHANGED <<log, ids, seqs, top, frz, pc, client, forgotten, counts>>

\* Segments an eviction was accepted for.
Pending == {k \in DOMAIN segs : segs[k].status \in {"doomed", "away"}}
Tombs   == {k \in DOMAIN segs : segs[k].status = "evicted"}
Listed  == DOMAIN segs \ Tombs

\* Seal the open records, and refer to what is listed and not about to leave.  An
\* order for what is sealed may have passed its check and wait to be accepted.
Freeze ==
    /\ pc = "up"
    /\ frz = NoFreeze
    /\ IF Open = {} THEN UNCHANGED <<segs, entries>> ELSE Seal(Cardinality(Open))
    /\ frz' = [segs |-> DOMAIN segs' \ (Pending \cup Tombs), end |-> NextOffset,
                late |-> {k \in DOMAIN segs : segs[k].status = "sealed"}]
    /\ UNCHANGED <<log, ids, seqs, top, pc, client, forgotten, counts>>

Becomes(k, status) ==
    /\ pc = "up"
    /\ segs' = [segs EXCEPT ![k].status = status]
    /\ UNCHANGED <<log, frz, pc, client, forgotten, crashes>>

\* Damage is found; it may have struck the index as well.
Quarantine(k, readable) ==
    /\ segs[k].status = "sealed"
    /\ faults < MaxFaults
    /\ faults' = faults + 1
    /\ pc = "up"
    /\ segs' = [segs EXCEPT ![k].status = "quarantined", ![k].index = readable]
    /\ UNCHANGED <<log, index, frz, pc, client, forgotten, crashes>>

In(k, d) == {o \in Span(k) : Event(o).dev = d}

\* Variant: positions are counted from 1.
InstalledBefore(k, d) ==
    {e \in entries[d] : e.seg # k} \cup
    {[off |-> o, seg |-> k, pos |-> o - segs[k].first - 1] : o \in In(k, d)}

\* The entries of a device with those of segment k replaced.
Installed(k, d) ==
    {e \in entries[d] : e.seg # k} \cup
    {[off |-> o, seg |-> k, pos |-> o - segs[k].first] : o \in In(k, d)}

\* A repair puts the segment and its index back.
Repair(k) ==
    /\ segs[k].status = "quarantined"
    /\ pc = "up"
    /\ segs' = [segs EXCEPT ![k].status = "sealed", ![k].index = TRUE]
    /\ entries' = [d \in Devs |-> IF In(k, d) = {} THEN entries[d] ELSE Installed(k, d)]
    /\ ids' = [d \in Devs |-> [i \in Ids |->
          LET of == {o \in In(k, d) : Event(o).id = i}
          IN  IF of = {} THEN ids[d][i] ELSE Greatest(of)]]
    /\ seqs' = [d \in Devs |-> seqs[d] \cup {Event(o).seq : o \in In(k, d)}]
    /\ top' = [d \in Devs |->
          IF In(k, d) = {} THEN top[d]
          ELSE Greatest({Event(e.off).ts : e \in entries'[d]})]
    /\ UNCHANGED <<log, frz, pc, client, forgotten, counts>>

\* A job that is to evict the segment is accepted; its directory is moved away;
\* the tombstone is published.  What a freeze refers to does not pass the check of
\* an order; the acceptance, which comes later, does not look again.
Doom(k) ==
    /\ segs[k].status = "sealed"
    /\ k \notin frz.segs \/ k \in frz.late
    /\ faults < MaxFaults
    /\ faults' = faults + 1
    /\ Becomes(k, "doomed")
    /\ UNCHANGED index

Leave(k) ==
    /\ segs[k].status = "doomed"
    /\ Becomes(k, "away")
    /\ UNCHANGED <<index, faults>>

Publish(k) ==
    /\ segs[k].status = "away"
    /\ Becomes(k, "evicted")
    /\ UNCHANGED <<index, faults>>

\* Segments whose index is applied when the service starts.
Indexed == {k \in Listed : segs[k].index}

\* A restart: an eviction under way is completed, the index is built again from
\* the segments, the WAL and the tombstones, in that order.  An order that is not
\* accepted yet is gone.  The client keeps its cursor, a page that was being read
\* fails.
Restart ==
    LET shown  == {o \in 0 .. NextOffset - 1 : o \in Open \/ Where(o) \in Indexed \cup Tombs}
        of(d)  == {o \in shown : Event(o).dev = d}
        tombs(d, i) == {o \in of(d) : Event(o).id = i /\ Where(o) \in Tombs}
        known(d, i) == {o \in of(d) : Event(o).id = i}
    IN  /\ pc = "up"
        /\ crashes < MaxCrashes
        /\ crashes' = crashes + 1
        /\ segs' = [k \in DOMAIN segs |->
              IF segs[k].status = "away" THEN [segs[k] EXCEPT !.status = "evicted"] ELSE segs[k]]
        /\ entries' = [d \in Devs |->
              {[off |-> o, seg |-> Where(o),
                pos |-> IF Where(o) = 0 THEN o - Sealed
                        ELSE o - segs[Where(o)].first] : o \in of(d)}]
        /\ ids' = [d \in Devs |-> [i \in Ids |->
              IF tombs(d, i) # {} THEN Greatest(tombs(d, i))
              ELSE IF known(d, i) # {} THEN Greatest(known(d, i)) ELSE -1]]
        /\ seqs' = [d \in Devs |-> {Event(o).seq : o \in of(d)}]
        /\ top' = [d \in Devs |-> Greatest({Event(o).ts : o \in of(d)})]
        /\ forgotten' = forgotten \cup (0 .. NextOffset - 1 \ shown)
        /\ client' = [client EXCEPT !.at = IF @ = "read" THEN "ask" ELSE @, !.plan = NoPlan]
        /\ frz' = [segs |-> frz.segs, end |-> frz.end, late |-> {}]
        /\ UNCHANGED <<log, pc, faults>>
-----------------------------------------------------------------------------
(* The client.                                                             *)

\* What a page brings: offsets with their events, offsets reported as gaps,
\* and offsets that are passed over in silence.
Gets(new, holes, lost) ==
    [client EXCEPT !.got = @ \cup new, !.holes = @ \cup holes, !.lost = @ \cup lost,
                   !.twice = @ \cup ((new \cup holes) \cap (client.got \cup client.holes)),
                   !.plan = NoPlan]

Reading == UNCHANGED <<log, segs, index, frz, pc, forgotten, counts>>

Begin(kind, dev, limit, base) ==
    /\ pc = "up"
    /\ client = NoClient
    /\ client' = [NoClient EXCEPT !.kind = kind, !.dev = dev, !.limit = limit, !.at = "ask",
                                  !.base = base]
    /\ Reading

BeginDevice(d, limit) == Begin("device", d, limit, {e.off : e \in entries[d]})
BeginHead(limit)      == Begin("head", 0, limit, 0 .. NextOffset - 1)
BeginFrozen(limit)    == frz # NoFreeze /\ Begin("frozen", 0, limit, 0 .. frz.end - 1)

\* Business order: by sequence number, then by arrival.
Reaches(o, seq, off) == Event(o).seq > seq \/ (Event(o).seq = seq /\ o >= off)

\* Variant: the page ends one entry early.
SelectedLess ==
    LET ahead == {e \in entries[client.dev] : Reaches(e.off, client.seq, client.off)}
        upto(e) == {f \in ahead : Reaches(e.off, Event(f.off).seq, f.off)}
    IN  {e \in ahead : Cardinality(upto(e)) < client.limit}

\* The first entries of the device from the cursor on.
Selected ==
    LET ahead == {e \in entries[client.dev] : Reaches(e.off, client.seq, client.off)}
        upto(e) == {f \in ahead : Reaches(e.off, Event(f.off).seq, f.off)}
    IN  {e \in ahead : Cardinality(upto(e)) <= client.limit}

Unread(e) == e.seg # 0 /\ segs[e.seg].status \in {"quarantined", "evicted"}

\* The record an entry leads to.
Found(e) == (IF e.seg = 0 THEN Sealed ELSE segs[e.seg].first) + e.pos

\* Variant: the next page begins at the next sequence number.
AfterSeq(o) == [client EXCEPT !.seq = Event(o).seq + 1, !.off = 0]

\* Variant: the next page begins with the last entry.
AfterAgain(o) == [client EXCEPT !.seq = Event(o).seq, !.off = o]

\* The next page begins behind the last entry.
After(o) == [client EXCEPT !.seq = Event(o).seq, !.off = o + 1]

\* Under the lock, select the page, and take from memory what is open.
PlanDevice ==
    /\ pc = "up"
    /\ client.kind = "device" /\ client.at = "ask"
    /\ client' = [client EXCEPT
          !.at = "read",
          !.more = Cardinality(Selected) = client.limit,
          !.plan = [items |-> {e \in Selected : e.seg # 0 /\ ~Unread(e)},
                    open  |-> {Found(e) : e \in {f \in Selected : f.seg = 0}},
                    gaps  |-> {e.off : e \in {f \in Selected : Unread(f)}},
                    tombs |-> {}]]
    /\ Reading

\* Damage that a reader may meet after the plan: it leads to a quarantine, but
\* for a segment that is about to be evicted.
MayBeDamaged(k) == segs[k].status \in {"quarantined", "doomed"}

\* Without the lock, read the segments.  An entry whose directory is being moved,
\* by an eviction or by the repair of what was quarantined since, is left out;
\* behind a tombstone, or where damage is met, it is a gap.
ReadDevice(damaged, swapped) ==
    LET plan  == client.plan
        at(status) == {e \in plan.items : segs[e.seg].status = status}
        offs  == {e.off : e \in plan.items} \cup plan.open \cup plan.gaps
        last  == CHOOSE o \in offs : \A q \in offs : Reaches(o, Event(q).seq, q)
        next  == IF client.more THEN After(last) ELSE client
        away  == at("away") \cup swapped
        lost  == at("evicted") \cup damaged
        page  == Gets(plan.open \cup {Found(e) : e \in plan.items \ (away \cup lost)},
                      plan.gaps \cup {e.off : e \in lost}, {e.off : e \in away})
    IN  /\ client.kind = "device" /\ client.at = "read"
        /\ \A e \in damaged : MayBeDamaged(e.seg)
        /\ swapped \subseteq at("quarantined") \ damaged
        /\ client' = [page EXCEPT !.at = IF client.more THEN "ask" ELSE "over",
                                  !.seq = next.seq, !.off = next.off]
        /\ Reading

\* A replay looks at the segments a freeze refers to, or at all.
View == IF client.kind = "frozen" THEN frz.segs ELSE DOMAIN segs

PlanReplay ==
    /\ pc = "up"
    /\ client.kind \in {"head", "frozen"} /\ client.at = "ask"
    /\ client' = [client EXCEPT
          !.at = "read",
          !.plan = [items |-> {k \in View : segs[k].status \in {"sealed", "doomed", "away"}},
                    open  |-> IF client.kind = "frozen" THEN {} ELSE Open,
                    gaps  |-> {k \in View : segs[k].status = "quarantined"},
                    tombs |-> View \cap Tombs]]
    /\ Reading

\* The next live offset after a run of tombstones.
CursorAfter(k) ==
    segs[CHOOSE m \in Tombs : /\ m >= k /\ m + 1 \notin Tombs
                              /\ \A i \in k .. m : i \in Tombs].last + 1

Ahead(S) == {k \in S : segs[k].last >= client.off}
Spans(S) == {o \in UNION {Span(k) : k \in S} : o >= client.off}

\* Where the replay meets a tombstone, or a directory that is not there.
Stops ==
    Ahead(client.plan.tombs) \cup
    {k \in Ahead(client.plan.items) : segs[k].status \in {"away", "evicted"}}
Stop == IF Stops = {} THEN Len(segs) + 1 ELSE Least(Stops)

\* What lies before that, when the replay meets the damaged segments: events, and
\* gaps.
Behind(S) == {k \in Ahead(S) : k < Stop}
Readable(damaged) ==
    Spans(Behind(client.plan.items \ damaged)) \cup
    (IF Stops = {} THEN {o \in client.plan.open : o >= client.off} ELSE {})
Gaps(damaged) == client.plan.gaps \cup damaged

ReplayReads(damaged) ==
    /\ client.kind \in {"head", "frozen"} /\ client.at = "read"
    /\ damaged \subseteq client.plan.items
    /\ \A k \in damaged : MayBeDamaged(k)
    /\ Reading

\* The page is full before anything stops it.
ReadFull(damaged) ==
    /\ ReplayReads(damaged)
    /\ Cardinality(Readable(damaged)) >= client.limit
    /\ LET upto(o) == {q \in Readable(damaged) : q <= o}
           last == CHOOSE o \in Readable(damaged) : Cardinality(upto(o)) = client.limit
       IN  client' = [Gets(upto(last), {o \in Spans(Gaps(damaged)) : o < last}, {})
                         EXCEPT !.at = "ask", !.off = last + 1]

\* The end is reached.
ReadAll(damaged) ==
    /\ ReplayReads(damaged)
    /\ Cardinality(Readable(damaged)) < client.limit
    /\ Stops = {}
    /\ client' = [Gets(Readable(damaged), Spans(Gaps(damaged)), {}) EXCEPT !.at = "over"]

\* An evicted range: the answer is where to continue, and nothing of what was
\* read before the range.
ReadGone(damaged) ==
    /\ ReplayReads(damaged)
    /\ Cardinality(Readable(damaged)) < client.limit
    /\ Stop \in Tombs
    /\ LET from == Greatest({client.off, segs[Stop].first})
       IN  client' = [Gets({}, from .. CursorAfter(Stop) - 1,
                           Readable(damaged) \cup Spans(Behind(Gaps(damaged))))
                         EXCEPT !.at = "ask", !.off = CursorAfter(Stop)]

\* A directory that is just being moved, by an eviction or a repair, before the
\* page is full: it is to be asked for again.
ReadRetry(damaged) ==
    /\ ReplayReads(damaged)
    /\ \E k \in Ahead(client.plan.items \ damaged) :
          /\ k <= Stop
          /\ segs[k].status \in {"away", "quarantined"}
          /\ Cardinality({o \in Readable(damaged) : o < segs[k].first}) < client.limit
    /\ client' = [client EXCEPT !.at = "ask", !.plan = NoPlan]
-----------------------------------------------------------------------------
Batches == UNION {[1 .. n -> Events] : n \in 1 .. MaxBatch}

Writing == (\E b \in Batches : Ingest(b)) \/ SealFull \/ SealAged \/ Freeze

Upkeep ==
    \/ \E k \in DOMAIN segs :
          \/ \E readable \in BOOLEAN : Quarantine(k, readable)
          \/ Repair(k) \/ Doom(k) \/ Leave(k) \/ Publish(k)
    \/ Restart

Asking ==
    \/ \E limit \in Limits :
          (\E d \in Devs : BeginDevice(d, limit)) \/ BeginHead(limit) \/ BeginFrozen(limit)
    \/ PlanDevice \/ PlanReplay
    \/ \E damaged \in SUBSET client.plan.items :
          \/ \E swapped \in SUBSET client.plan.items : ReadDevice(damaged, swapped)
          \/ ReadFull(damaged) \/ ReadAll(damaged) \/ ReadGone(damaged) \/ ReadRetry(damaged)

Next == Writing \/ Upkeep \/ Asking

Spec == Init /\ [][Next]_vars
-----------------------------------------------------------------------------
(* Properties.                                                             *)

Offsets == 0 .. MaxLog - 1
Entry   == [off : Offsets, seg : 0 .. MaxLog, pos : Nat]
Segment == [first : Offsets, last : Offsets, index : BOOLEAN,
            status : {"sealed", "quarantined", "doomed", "away", "evicted"}]

\* Each variable has its type; segments follow each other without a hole.
TypeOK ==
    /\ NextOffset <= MaxLog
    /\ \A o \in 0 .. NextOffset - 1 : log[o + 1].ev \in Events /\ log[o + 1].base \in 0 .. o
    /\ segs \in Seq(Segment)
    /\ \A k \in DOMAIN segs :
          /\ segs[k].first = (IF k = 1 THEN 0 ELSE segs[k - 1].last + 1)
          /\ segs[k].first <= segs[k].last /\ segs[k].last < NextOffset
    /\ entries \in [Devs -> SUBSET Entry]
    /\ ids \in [Devs -> [Ids -> Offsets \cup {-1}]]
    /\ pc \in {"up", "sealing"}
    /\ client.at \in {"off", "ask", "read", "over"}
    /\ forgotten \subseteq Offsets

\* An event a device sends again, in whatever batch and after whatever restart,
\* is not stored again, unless the index that knew it was lost.
StoredOnce ==
    \A o, q \in 0 .. NextOffset - 1 :
        o < q /\ Event(o).dev = Event(q).dev /\ Event(o).id = Event(q).id => o \in forgotten

\* The flags of an event tell of what the device had sent in earlier batches,
\* also when it was evicted or restored since.
FlagsTell ==
    forgotten = {} =>
    \A o \in 0 .. NextOffset - 1 :
        LET past == {q \in 0 .. log[o + 1].base - 1 : Event(q).dev = Event(o).dev}
        IN  log[o + 1].flags =
              [conflict |-> \E q \in past : Event(q).seq = Event(o).seq,
               rollback |-> \E q \in past : Event(q).ts > Event(o).ts]

\* The index of a device has each of its events once and leads to its record:
\* seals that move the open buffer, repairs and restarts keep it so.
IndexLeads ==
    \A d \in Devs :
        /\ \A e \in entries[d] : e.seg = Where(e.off) /\ Found(e) = e.off
        /\ {o \in 0 .. NextOffset - 1 : Event(o).dev = d}
              \subseteq {e.off : e \in entries[d]} \cup forgotten
        /\ \A e \in entries[d] : Event(e.off).dev = d

\* What a freeze does not refer to: segments that were about to be evicted.
Hidden == IF client.kind = "frozen"
          THEN {o \in client.base : Where(o) \notin frz.segs} ELSE {}

\* A client that has read to the end was given each event there was when it
\* began, or told of a gap in its place, while segments were sealed, evicted
\* and repaired and the service restarted between its pages.  Left out are the
\* three cases in which the code passes something over.
PagesCover ==
    client.at = "over" =>
        client.base \subseteq client.got \cup client.holes \cup client.lost \cup forgotten \cup Hidden

\* No event comes twice, and none that was reported as a gap.
PagesDisjoint == client.twice = {}

\* "Every surviving offset" is read by following the "accurate resume cursor":
\* a replay to the end of the archive leaves nothing out.
ReplayCovers == client.kind = "head" /\ client.at = "over" => client.lost = {}

\* "(device_id, event_id) exists already": an event that is not stored is
\* stored already, as an event of the same device.
DuplicatesAreStored ==
    [][\A b \in Batches : Ingest(b) =>
          \A i \in DOMAIN b : \E o \in 0 .. Len(log') - 1 :
              log'[o + 1].ev.dev = b[i].dev /\ log'[o + 1].ev.id = b[i].id]_vars
=============================================================================
