------------------------------ MODULE ReadsInv ------------------------------
(***************************************************************************)
(* Why an event is stored once, found through the index and read once: the *)
(* inductive invariant of Reads.                                           *)
(*                                                                         *)
(* World is how the store keeps its events: segments tile the log up to the*)
(* open records (Tiled), an index entry is what its offset says it is      *)
(* (Entered), and an offset whose id, number or clock is not in the index  *)
(* is one a restart forgot (Known, Learnt).                                *)
(*                                                                         *)
(* Pages is what a client is told.  What lies behind its cursor it was     *)
(* answered, and what it was given lies behind its cursor (DeviceCursor,   *)
(* ReplayCursor).  While a page is read without the lock, its plan holds   *)
(* what is to come next, whatever happens to the segments meanwhile        *)
(* (DevicePlan, ReplayPlan).                                               *)
(***************************************************************************)
EXTENDS Reads

\* The records, and the device and the id of each.
Recs   == 0 .. NextOffset - 1
Dev(o) == Event(o).dev
Id(o)  == Event(o).id

Record == [ev : Events, flags : [conflict : BOOLEAN, rollback : BOOLEAN], base : Nat]

\* The log; it is being sealed only when enough is open.
Logged ==
    /\ log \in Seq(Record)
    /\ Len(log) <= MaxLog
    /\ \A o \in Recs : log[o + 1].base <= o
    /\ forgotten \subseteq Recs
    /\ pc \in {"up", "sealing"}
    /\ pc = "sealing" => NextOffset - Sealed >= SegMax

Ranges == [first : Nat, last : Nat, index : BOOLEAN,
           status : {"sealed", "quarantined", "doomed", "away", "evicted"}]

\* Segments cover the log up to the open records, each offset once.
Tiled ==
    /\ segs \in Seq(Ranges)
    /\ \A k \in DOMAIN segs :
          /\ segs[k].first = (IF k = 1 THEN 0 ELSE segs[k - 1].last + 1)
          /\ segs[k].first <= segs[k].last /\ segs[k].last < NextOffset
          /\ k <= segs[k].last + 1
    /\ \A j, k \in DOMAIN segs : j < k => segs[j].last < segs[k].first
    /\ \A o \in 0 .. Sealed - 1 : \E k \in DOMAIN segs : o \in Span(k)

\* The entry of an offset.
Start(k)   == IF k = 0 THEN Sealed ELSE segs[k].first
EntryOf(o) == [off |-> o, seg |-> Where(o), pos |-> o - Start(Where(o))]

\* Entries are those of the device's offsets, without those forgotten.
Entered ==
    /\ DOMAIN entries = Devs
    /\ \A d \in Devs :
          /\ \A e \in entries[d] : e.off \in Recs /\ Dev(e.off) = d /\ e = EntryOf(e.off)
          /\ \A o \in Recs \ forgotten : Dev(o) = d => EntryOf(o) \in entries[d]

\* Ids are known unless forgotten, and not stored again while they are known.
Known ==
    /\ ids \in [Devs -> [Ids -> Offsets \cup {-1}]]
    /\ \A o \in Recs \ forgotten : ids[Dev(o)][Id(o)] # -1
    /\ StoredOnce

\* Numbers and clocks are those of the log, while nothing is forgotten.
Learnt ==
    /\ DOMAIN seqs = Devs
    /\ top \in [Devs -> Nat]
    /\ forgotten = {} =>
          \A d \in Devs :
             /\ seqs[d] = {Event(o).seq : o \in {q \in Recs : Dev(q) = d}}
             /\ \A o \in Recs : Dev(o) = d => Event(o).ts <= top[d]
             /\ top[d] = 0 \/ \E o \in Recs : Dev(o) = d /\ Event(o).ts = top[d]
    /\ FlagsTell

\* A freeze refers to segments there are, up to an offset that is sealed.
Frozen ==
    frz = NoFreeze \/ (/\ frz.segs \subseteq DOMAIN segs
                       /\ frz.end \in Nat /\ frz.end <= Sealed)

\* How the store is.
World == Logged /\ Tiled /\ Entered /\ Known /\ Learnt /\ Frozen

-----------------------------------------------------------------------------
\* What a client was answered, or is excused from.
Answered == client.got \cup client.holes \cup client.lost \cup forgotten \cup Hidden

\* The cursor of a device's client is behind the offset.
Passed(o) == ~Reaches(o, client.seq, client.off)

\* What a client is made of; its plan is the matter of DevicePlan and ReplayPlan.
Client == [plan : {client.plan}, kind : {"none", "device", "head", "frozen"},
           dev : Devs \cup {0}, limit : Nat, at : {"off", "ask", "read", "over"},
           seq : Nat, off : Nat, more : BOOLEAN,
           base : SUBSET Nat, got : SUBSET Nat, holes : SUBSET Nat, lost : SUBSET Nat,
           twice : SUBSET Nat]

IsDevice == client.kind = "device"
IsReplay == client.kind \in {"head", "frozen"}

\* What it is to be given: events there were when it began.
Asks ==
    /\ client \in Client
    /\ client.kind # "none" => client.limit # 0
    /\ client.base \subseteq Recs
    /\ client.kind = "frozen" => frz # NoFreeze /\ client.base \subseteq 0 .. frz.end - 1

\* A device's events behind the cursor were answered, and no others.
DeviceCursor ==
    IsDevice /\ client.at \in {"ask", "read"} =>
        /\ client.dev \in Devs
        /\ \A o \in client.base : Dev(o) = client.dev
        /\ \A o \in client.base : Passed(o) => o \in Answered
        /\ \A o \in client.got \cup client.holes : o \in Recs /\ Passed(o)

\* The offsets of a page of a device.
Planned == {e.off : e \in client.plan.items} \cup client.plan.open \cup client.plan.gaps

\* They lie ahead of the cursor, and what is not among them lies behind the last.
DevicePlan ==
    IsDevice /\ client.at = "read" =>
        /\ \A e \in client.plan.items :
              e.seg \in DOMAIN segs /\ Found(e) = e.off
        /\ Planned \subseteq Recs
        /\ \A o \in Planned : ~Passed(o)
        /\ client.more => Planned # {}
        /\ \A o \in client.base \ forgotten :
              ~Passed(o) =>
              o \in Planned \/ (client.more /\ \A q \in Planned : Reaches(o, Event(q).seq, q))

\* The same of a replay: what lies below the cursor was answered ...
ReplayCursor ==
    IsReplay /\ client.at \in {"ask", "read"} =>
        /\ \A o \in client.base : o < client.off => o \in Answered
        /\ \A o \in client.got \cup client.holes : o < client.off

\* The segments of a page of a replay.
PlannedSegs == client.plan.items \cup client.plan.gaps \cup client.plan.tombs

\* ... and what is to come is in a segment of the plan, or was open.
ReplayPlan ==
    IsReplay /\ client.at = "read" =>
        /\ PlannedSegs \subseteq DOMAIN segs
        /\ client.plan.items \cap client.plan.gaps = {}
        /\ client.plan.open \subseteq Recs
        /\ \A o \in client.plan.open, k \in PlannedSegs : segs[k].last < o
        /\ \A o \in client.base :
              o \in client.plan.open \cup Hidden \/ \E k \in PlannedSegs : o \in Span(k)

Pages == /\ Asks /\ DeviceCursor /\ DevicePlan /\ ReplayCursor /\ ReplayPlan
         /\ PagesCover /\ PagesDisjoint

\* The index is a function of the devices.
Mapped == entries = [d \in Devs |-> entries[d]]

IndInv == World /\ Pages /\ Mapped
=============================================================================
