----------------------------- MODULE PagesProofs -----------------------------
(***************************************************************************)
(* Theorems about the client of Reads that asks for page after page, for   *)
(* every value of the constants.                                           *)
(*                                                                         *)
(* Pages of ReadsInv is kept in three parts: by the steps that do not      *)
(* answer the client, by those that plan a page, and by those that read it.*)
(* That the index and the segments are what a plan relies on is World.     *)
(***************************************************************************)
EXTENDS ReadsProofs

-----------------------------------------------------------------------------
(***************************************************************************)
(* Steps that do not answer the client.                                    *)
(***************************************************************************)

\* The client is as before, or its page failed and is to be asked for again.
SameClient ==
    \/ client' = client
    \/ client' = [client EXCEPT !.at = IF @ = "read" THEN "ask" ELSE @, !.plan = NoPlan]

LEMMA Same ==
    ASSUME client \in Client, SameClient
    PROVE  /\ client' \in Client'
           /\ client'.kind = client.kind /\ client'.dev = client.dev
           /\ client'.limit = client.limit /\ client'.more = client.more
           /\ client'.seq = client.seq /\ client'.off = client.off
           /\ client'.base = client.base /\ client'.got = client.got
           /\ client'.holes = client.holes /\ client'.lost = client.lost
           /\ client'.twice = client.twice
           /\ client'.at = "read" => client' = client
           /\ client'.at = "ask" => client.at \in {"ask", "read"}
           /\ client'.at = "over" => client.at = "over"
<1>1. CASE client' = client
  BY <1>1 DEF Client
<1>2. CASE client' = [client EXCEPT !.at = IF @ = "read" THEN "ask" ELSE @, !.plan = NoPlan]
  BY <1>2 DEF Client
<1> QED BY <1>1, <1>2 DEF SameClient

\* What the freeze of a client does not refer to stays that.
LEMMA HiddenKept ==
    ASSUME World, World', Grows, Asks, client'.kind = client.kind, client'.base = client.base
    PROVE  Hidden' = Hidden
<1>1. Base /\ Base' /\ Facts
  BY WorldFacts DEF World, Base, Logged
<1>2. Stays
  BY <1>1, GrowsStays
<1>3. CASE client.kind # "frozen"
  BY <1>3 DEF Hidden
<1>4. CASE client.kind = "frozen"
  <2>1. frz # NoFreeze /\ frz'.segs = frz.segs /\ client.base \subseteq 0 .. frz.end - 1
        /\ client.base \subseteq Recs
    BY <1>4 DEF Asks, Grows
  <2>2. frz.end \in Nat /\ frz.end <= Sealed /\ Sealed \in Nat
    BY <1>1, <2>1 DEF World, Frozen, Facts, SegFacts
  <2>3. \A o \in client.base : o < Sealed
    BY <2>1, <2>2
  <2>4. \A o \in client.base : Where(o)' = Where(o)
    BY <1>2, <2>1, <2>3 DEF Stays
  <2> QED BY <1>4, <2>1, <2>4 DEF Hidden
<1> QED BY <1>3, <1>4

LEMMA ClientKept ==
    ASSUME World, World', Grows, Pages, SameClient
    PROVE  Pages'
<1>1. Base /\ Base' /\ Facts /\ Facts'
  <2>1. Base /\ Base'
    BY DEF World, Base, Logged
  <2> QED BY <2>1, Now, Then
<1>2. Stays /\ forgotten \subseteq forgotten'
  BY <1>1, GrowsStays DEF Grows
<1>3. client \in Client
  BY DEF Pages, Asks
<1>4. /\ client' \in Client'
      /\ client'.kind = client.kind /\ client'.dev = client.dev
      /\ client'.limit = client.limit /\ client'.more = client.more
      /\ client'.seq = client.seq /\ client'.off = client.off
      /\ client'.base = client.base /\ client'.got = client.got
      /\ client'.holes = client.holes /\ client'.lost = client.lost
      /\ client'.twice = client.twice
      /\ client'.at = "read" => client' = client
      /\ client'.at = "ask" => client.at \in {"ask", "read"}
      /\ client'.at = "over" => client.at = "over"
  BY <1>3, Same
<1>5. Hidden' = Hidden
  BY <1>4, HiddenKept DEF Pages
<1>6. Answered \subseteq Answered'
  BY <1>2, <1>4, <1>5 DEF Answered
<1>7. \A o \in Recs : o \in Recs' /\ (Passed(o)' <=> Passed(o))
  BY <1>2, <1>4 DEF Stays, Passed, Reaches
<1>8. Asks'
  <2>1. client.base \subseteq Recs'
    BY <1>2 DEF Pages, Asks, Stays
  <2>2. client.kind = "frozen" => frz' # NoFreeze /\ frz'.end = frz.end
    BY DEF Pages, Asks, Grows
  <2> QED BY <1>4, <2>1, <2>2 DEF Pages, Asks
<1>9. DeviceCursor'
  <2> SUFFICES ASSUME IsDevice', client'.at \in {"ask", "read"}
               PROVE  /\ client'.dev \in Devs
                      /\ \A o \in client'.base : Dev(o)' = client'.dev
                      /\ \A o \in client'.base : Passed(o)' => o \in Answered'
                      /\ \A o \in client'.got \cup client'.holes : o \in Recs' /\ Passed(o)'
      BY DEF DeviceCursor
  <2>1. IsDevice /\ client.at \in {"ask", "read"}
    BY <1>4 DEF IsDevice
  <2>2. /\ client.dev \in Devs /\ client.base \subseteq Recs
        /\ \A o \in client.base : Dev(o) = client.dev
        /\ \A o \in client.base : Passed(o) => o \in Answered
        /\ \A o \in client.got \cup client.holes : o \in Recs /\ Passed(o)
    BY <2>1 DEF Pages, DeviceCursor, Asks
  <2>3. \A o \in client.base : Dev(o)' = Dev(o)
    BY <1>2, <2>2 DEF Stays
  <2> QED BY <1>4, <1>6, <1>7, <2>2, <2>3
<1>10. DevicePlan'
  <2> SUFFICES ASSUME IsDevice', client'.at = "read"
               PROVE  /\ \A e \in client'.plan.items :
                            e.seg \in DOMAIN segs' /\ Found(e)' = e.off
                      /\ Planned' \subseteq Recs'
                      /\ \A o \in Planned' : ~Passed(o)'
                      /\ client'.more => Planned' # {}
                      /\ \A o \in client'.base \ forgotten' : ~Passed(o)' =>
                            \/ o \in Planned'
                            \/ client'.more /\ \A q \in Planned' : Reaches(o, Event(q).seq, q)'
      BY DEF DevicePlan
  <2>1. IsDevice /\ client.at = "read" /\ client' = client
    BY <1>4 DEF IsDevice
  <2>2. /\ \A e \in client.plan.items : e.seg \in DOMAIN segs /\ Found(e) = e.off
        /\ Planned \subseteq Recs /\ client.base \subseteq Recs
        /\ \A o \in Planned : ~Passed(o)
        /\ client.more => Planned # {}
        /\ \A o \in client.base \ forgotten : ~Passed(o) =>
              \/ o \in Planned
              \/ client.more /\ \A q \in Planned : Reaches(o, Event(q).seq, q)
    BY <2>1 DEF Pages, DevicePlan, Asks
  <2>3. Planned' = Planned
    BY <2>1 DEF Planned
  <2>4. ASSUME NEW e \in client.plan.items PROVE e.seg \in DOMAIN segs' /\ Found(e)' = e.off
    <3>1. e.seg \in DOMAIN segs /\ e.seg # 0 /\ Found(e) = e.off
      BY <1>1, <2>2 DEF Facts, SegFacts
    <3>2. e.seg \in DOMAIN segs' /\ segs'[e.seg].first = segs[e.seg].first
      BY <3>1 DEF Grows
    <3> QED BY <3>1, <3>2 DEF Found
  <2>5. \A o, q \in Recs : Reaches(o, Event(q).seq, q)' <=> Reaches(o, Event(q).seq, q)
    BY <1>2 DEF Stays, Reaches
  <2>6. ASSUME NEW o \in client.base \ forgotten', ~Passed(o)'
        PROVE  \/ o \in Planned
               \/ client.more /\ \A q \in Planned : Reaches(o, Event(q).seq, q)'
    <3>1. o \in Recs /\ o \in client.base \ forgotten /\ ~Passed(o)
      BY <1>2, <1>7, <2>2, <2>6
    <3> QED BY <2>2, <2>5, <3>1
  <2> QED BY <1>7, <2>1, <2>2, <2>3, <2>4, <2>6
<1>11. ReplayCursor'
  BY <1>4, <1>6 DEF Pages, ReplayCursor, IsReplay
<1>12. ReplayPlan'
  <2> SUFFICES ASSUME IsReplay', client'.at = "read"
               PROVE  /\ PlannedSegs' \subseteq DOMAIN segs'
                      /\ client'.plan.items \cap client'.plan.gaps = {}
                      /\ client'.plan.open \subseteq Recs'
                      /\ \A o \in client'.plan.open, k \in PlannedSegs' : segs'[k].last < o
                      /\ \A o \in client'.base : \/ o \in client'.plan.open \cup Hidden'
                                                 \/ \E k \in PlannedSegs' : o \in Span(k)'
      BY DEF ReplayPlan
  <2>1. IsReplay /\ client.at = "read" /\ client' = client
    BY <1>4 DEF IsReplay
  <2>2. PlannedSegs' = PlannedSegs /\ PlannedSegs \subseteq DOMAIN segs
    BY <2>1 DEF PlannedSegs, Pages, ReplayPlan
  <2>3. /\ client.plan.items \cap client.plan.gaps = {}
        /\ client.plan.open \subseteq Recs
        /\ \A o \in client.plan.open, k \in PlannedSegs : segs[k].last < o
        /\ \A o \in client.base : \/ o \in client.plan.open \cup Hidden
                                  \/ \E k \in PlannedSegs : o \in Span(k)
    BY <2>1 DEF Pages, ReplayPlan
  <2>4. \A k \in PlannedSegs : /\ k \in DOMAIN segs' /\ segs'[k].last = segs[k].last
                               /\ Span(k)' = Span(k)
    BY <1>2, <2>2 DEF Grows, Stays
  <2>5. client.plan.open \subseteq Recs'
    BY <1>7, <2>3
  <2>6. \A o \in client.base : \/ o \in client.plan.open \cup Hidden
                               \/ \E k \in PlannedSegs : o \in Span(k)'
    BY <2>3, <2>4
  <2> QED BY <1>5, <2>1, <2>2, <2>3, <2>4, <2>5, <2>6
<1>13. PagesCover'
  <2> SUFFICES ASSUME client'.at = "over"
               PROVE  client'.base \subseteq client'.got \cup client'.holes \cup client'.lost
                                               \cup forgotten' \cup Hidden'
      BY DEF PagesCover
  <2>1. client.base \subseteq client.got \cup client.holes \cup client.lost \cup forgotten \cup Hidden
    BY <1>4 DEF Pages, PagesCover
  <2> QED BY <1>2, <1>4, <1>5, <2>1
<1>14. PagesDisjoint'
  BY <1>4 DEF Pages, PagesDisjoint
<1> QED BY <1>8, <1>9, <1>10, <1>11, <1>12, <1>13, <1>14 DEF Pages

LEMMA WritingPages == ASSUME World, Pages, Writing PROVE Pages'
<1>1. World' /\ Grows
  BY WritingWorld
<1>2. client' = client
  BY DEF Writing, Ingest, SealFull, SealAged, Freeze
<1> QED BY <1>1, <1>2, ClientKept DEF SameClient

LEMMA UpkeepPages == ASSUME World, Pages, Upkeep PROVE Pages'
<1>1. World' /\ Grows
  BY UpkeepWorld
<1>2. SameClient
  BY DEF Upkeep, Quarantine, Repair, Doom, Leave, Publish, Becomes, Restart, SameClient
<1> QED BY <1>1, <1>2, ClientKept

LEMMA RetryPages == ASSUME World, Pages, NEW damaged, ReadRetry(damaged) PROVE Pages'
<1>1. World' /\ Grows
  BY SameWorld DEF ReadRetry, ReplayReads, Reading
<1>2. client.at = "read" /\ client \in Client /\ client' = [client EXCEPT !.at = "ask", !.plan = NoPlan]
  BY DEF ReadRetry, ReplayReads, Pages, Asks
<1>3. SameClient
  BY <1>2 DEF SameClient
<1> QED BY <1>1, <1>3, ClientKept

-----------------------------------------------------------------------------
(***************************************************************************)
(* A client begins.                                                        *)
(***************************************************************************)

\* The client's steps leave alone what it looks at.
LEMMA Still ==
    ASSUME Reading
    PROVE  /\ Recs' = Recs /\ segs' = segs /\ frz' = frz /\ forgotten' = forgotten
           /\ \A o : Event(o)' = Event(o) /\ Dev(o)' = Dev(o)
           /\ \A k : Span(k)' = Span(k)
           /\ \A e : Found(e)' = Found(e)
<1>1. Recs' = Recs /\ segs' = segs /\ frz' = frz /\ forgotten' = forgotten
  BY DEF Reading, Recs, NextOffset
<1>2. Sealed' = Sealed /\ Open' = Open /\ \A k : Span(k)' = Span(k)
  BY DEF Reading, Sealed, Open, NextOffset, Span
<1>3. \A o : Event(o)' = Event(o) /\ Dev(o)' = Dev(o)
  BY DEF Reading, Event, Dev
<1>4. \A e : Found(e)' = Found(e)
  BY <1>1, <1>2 DEF Found
<1> QED BY <1>1, <1>2, <1>3, <1>4

\* What a new client is.
Begun(kind, dev, limit, base) ==
    [NoClient EXCEPT !.kind = kind, !.dev = dev, !.limit = limit, !.at = "ask", !.base = base]

LEMMA BeginPages ==
    ASSUME World, NEW kind \in {"device", "head", "frozen"}, NEW dev \in Devs \cup {0},
           NEW limit \in Limits, NEW base \in SUBSET Recs, Begin(kind, dev, limit, base),
           kind = "frozen" => frz # NoFreeze /\ base \subseteq 0 .. frz.end - 1,
           kind = "device" => dev \in Devs /\ \A o \in base : Dev(o) = dev
    PROVE  Pages'
<1>1. Base /\ Facts
  BY WorldFacts
<1>2. /\ Recs' = Recs /\ frz' = frz /\ \A o : Event(o)' = Event(o) /\ Dev(o)' = Dev(o)
  BY Still DEF Begin
<1>3. /\ client'.kind = kind /\ client'.dev = dev /\ client'.limit = limit
      /\ client'.at = "ask" /\ client'.base = base
      /\ client'.seq = 0 /\ client'.off = 0 /\ client'.more = FALSE
      /\ client'.got = {} /\ client'.holes = {} /\ client'.lost = {} /\ client'.twice = {}
  BY DEF Begin, NoClient
<1>4. limit \in Nat \ {0} /\ base \in SUBSET Nat
  BY ConstantsAssumption DEF Recs
<1>5. client' \in Client'
  <2>1. client' = [plan |-> NoPlan, kind |-> kind, dev |-> dev, limit |-> limit,
                   at |-> "ask", seq |-> 0, off |-> 0, more |-> FALSE, base |-> base,
                   got |-> {}, holes |-> {}, lost |-> {}, twice |-> {}]
    BY DEF Begin, NoClient
  <2>2. limit \in Nat /\ base \in SUBSET Nat /\ kind \in {"none", "device", "head", "frozen"}
    BY <1>4
  <2>3. client'.plan = NoPlan
    BY <2>1
  <2> HIDE DEF NoPlan
  <2> QED BY <2>1, <2>2, <2>3 DEF Client
<1>6. Asks'
  BY <1>2, <1>3, <1>4, <1>5 DEF Asks
<1>7. \A o \in base : ~Passed(o)'
  <2> SUFFICES ASSUME NEW o \in base PROVE ~Passed(o)'
      OBVIOUS
  <2>1. Event(o)'.seq \in Nat \ {0}
    BY <1>1, <1>2 DEF Facts, LogFacts
  <2> QED BY <1>3, <2>1 DEF Passed, Reaches
<1>8. DeviceCursor'
  BY <1>2, <1>3, <1>7 DEF DeviceCursor, IsDevice
<1>9. ReplayCursor'
  <2>1. \A o \in client'.base : ~ (o < client'.off)
    BY <1>3, <1>4
  <2> QED BY <1>3, <2>1 DEF ReplayCursor
<1>10. DevicePlan' /\ ReplayPlan' /\ PagesCover' /\ PagesDisjoint'
  BY <1>3 DEF DevicePlan, ReplayPlan, PagesCover, PagesDisjoint
<1> QED BY <1>6, <1>8, <1>9, <1>10 DEF Pages

LEMMA BeginDevicePages ==
    ASSUME World, NEW d \in Devs, NEW limit \in Limits, BeginDevice(d, limit)
    PROVE  Pages'
<1>1. \A e \in entries[d] : e.off \in Recs /\ Dev(e.off) = d
  BY DEF World, Entered
<1>2. PICK base : base = {e.off : e \in entries[d]}
  OBVIOUS
<1>3. base \in SUBSET Recs /\ \A o \in base : Dev(o) = d
  BY <1>1, <1>2
<1>4. Begin("device", d, limit, base)
  BY <1>2 DEF BeginDevice
<1> QED BY <1>3, <1>4, BeginPages

LEMMA BeginReplayPages ==
    ASSUME World, NEW limit \in Limits, BeginHead(limit) \/ BeginFrozen(limit)
    PROVE  Pages'
<1>1. Base /\ Facts
  BY WorldFacts
<1>2. CASE BeginHead(limit)
  <2>1. Recs \in SUBSET Recs /\ Begin("head", 0, limit, Recs)
    BY <1>2 DEF BeginHead, Recs
  <2> QED BY <2>1, BeginPages
<1>3. CASE BeginFrozen(limit)
  <2>1. PICK base : base = 0 .. frz.end - 1
    OBVIOUS
  <2>2. frz # NoFreeze /\ Begin("frozen", 0, limit, base)
    BY <1>3, <2>1 DEF BeginFrozen
  <2>3. frz.end \in Nat /\ frz.end <= Sealed /\ Sealed <= NextOffset
        /\ Sealed \in Nat /\ NextOffset \in Nat
    BY <1>1, <2>2 DEF World, Frozen, Facts, SegFacts, LogFacts
  <2>4. base \in SUBSET Recs /\ base \subseteq 0 .. frz.end - 1
    BY <2>1, <2>3 DEF Recs
  <2> QED BY <2>2, <2>4, BeginPages
<1> QED BY <1>2, <1>3
-----------------------------------------------------------------------------
(***************************************************************************)
(* Pages of a device.                                                      *)
(***************************************************************************)

\* The entries of a device are finite in number and in a total order.
LEMMA EntriesOrdered ==
    ASSUME World, NEW d \in Devs, NEW ahead \in SUBSET entries[d],
           NEW upto, upto = [e \in ahead |->
                               {f \in ahead : Reaches(e.off, Event(f.off).seq, f.off)}]
    PROVE  IsFiniteSet(ahead) /\ Orders(upto, ahead)
<1>1. Base /\ Facts
  BY WorldFacts
<1>2. \A e \in ahead : e.off \in Recs /\ e = EntryOf(e.off)
  BY DEF World, Entered
<1>3. IsFiniteSet(ahead)
  <2>1. PICK S : S = {e.off : e \in ahead}
    OBVIOUS
  <2>2. S \in SUBSET Recs
    BY <1>2, <2>1
  <2>3. IsFiniteSet(S)
    BY <1>1, <2>2, Finite
  <2>4. PICK f : f = [o \in S |-> EntryOf(o)]
    OBVIOUS
  <2>5. f \in Surjection(S, ahead)
    <3>1. \A o \in S : f[o] \in ahead
      BY <1>2, <2>1, <2>4
    <3>2. \A e \in ahead : e.off \in S /\ f[e.off] = e
      BY <1>2, <2>1, <2>4
    <3> QED BY <2>4, <3>1, <3>2 DEF Surjection
  <2> QED BY <2>3, <2>5, FS_Surjection
<1>4. \A e \in ahead : e.off \in Nat /\ Event(e.off).seq \in Nat
  BY <1>1, <1>2 DEF Facts, LogFacts
<1>5. upto \in [ahead -> SUBSET ahead]
  OBVIOUS
<1>6. \A e, f \in ahead :
        f \in upto[e] <=> \/ Event(f.off).seq < Event(e.off).seq
                          \/ Event(f.off).seq = Event(e.off).seq /\ f.off <= e.off
  BY <1>4 DEF Reaches
<1>7. \A e \in ahead : e \in upto[e]
  BY <1>4, <1>6
<1>8. \A e, f \in ahead : e \in upto[f] \/ f \in upto[e]
  BY <1>4, <1>6
<1>9. \A e, f \in ahead : e \in upto[f] => upto[e] \subseteq upto[f]
  <2> SUFFICES ASSUME NEW e \in ahead, NEW f \in ahead, e \in upto[f], NEW g \in upto[e]
               PROVE  g \in upto[f]
      OBVIOUS
  <2>1. g \in ahead
    BY <1>5
  <2> QED BY <1>4, <1>6, <2>1
<1>10. \A e, f \in ahead : e \in upto[f] /\ f \in upto[e] => e = f
  <2> SUFFICES ASSUME NEW e \in ahead, NEW f \in ahead, e \in upto[f], f \in upto[e]
               PROVE  e = f
      OBVIOUS
  <2>1. e.off = f.off
    BY <1>4, <1>6
  <2> QED BY <1>2, <2>1
<1>11. Orders(upto, ahead)
  BY <1>5, <1>7, <1>8, <1>9, <1>10 DEF Orders
<1> QED BY <1>3, <1>11

\* A page is selected: no more entries than asked for, and nothing before the
\* last of them is left out.
LEMMA SelectedFirst ==
    ASSUME World, client.dev \in Devs, client.limit \in Nat
    PROVE  /\ \A e \in Selected : /\ e \in entries[client.dev]
                                  /\ Reaches(e.off, client.seq, client.off)
           /\ IsFiniteSet(Selected)
           /\ \A e \in entries[client.dev] : Reaches(e.off, client.seq, client.off) =>
                 \/ e \in Selected
                 \/ /\ Cardinality(Selected) = client.limit
                    /\ \A f \in Selected : Reaches(e.off, Event(f.off).seq, f.off)
<1>1. PICK ahead : ahead = {e \in entries[client.dev] : Reaches(e.off, client.seq, client.off)}
  OBVIOUS
<1>2. PICK upto : upto = [e \in ahead |->
                            {f \in ahead : Reaches(e.off, Event(f.off).seq, f.off)}]
  OBVIOUS
<1>3. ahead \in SUBSET entries[client.dev]
  BY <1>1
<1>4. IsFiniteSet(ahead) /\ Orders(upto, ahead)
  BY <1>2, <1>3, EntriesOrdered
<1>0. PICK limit \in Nat : limit = client.limit
  OBVIOUS
<1>5. PICK P : P = {e \in ahead : Cardinality(upto[e]) <= limit}
  OBVIOUS
<1>6. Selected = P
  BY <1>0, <1>1, <1>2, <1>5 DEF Selected
<1>7. /\ \A e \in P, f \in ahead \ P : e \in upto[f]
      /\ IsFiniteSet(P) /\ Cardinality(P) <= limit
      /\ Cardinality(P) < limit => P = ahead
  BY <1>0, <1>4, <1>5, Prefix
<1>8. Cardinality(P) \in Nat
  BY <1>7, FS_CardinalityType
<1>9. ASSUME NEW e \in ahead, e \notin P
      PROVE  /\ Cardinality(P) = limit
             /\ \A f \in P : Reaches(e.off, Event(f.off).seq, f.off)
  <2>1. Cardinality(P) = limit
    BY <1>7, <1>8, <1>9
  <2> QED BY <1>2, <1>7, <1>9, <2>1
<1> QED BY <1>0, <1>1, <1>5, <1>6, <1>7, <1>9

\* Where the open records are not concerned, an entry's place is a segment.
LEMMA EntryFacts ==
    ASSUME World, NEW d \in Devs, NEW e \in entries[d]
    PROVE  /\ e.off \in Recs /\ Dev(e.off) = d /\ e = EntryOf(e.off) /\ Found(e) = e.off
           /\ e.seg # 0 => e.seg \in DOMAIN segs
<1>1. Base /\ Facts
  BY WorldFacts
<1>2. e.off \in Recs /\ Dev(e.off) = d /\ e = EntryOf(e.off)
  BY DEF World, Entered
<1>3. PICK o \in Recs : o = e.off /\ e = EntryOf(o)
  BY <1>2
<1>4. Found(e) = o /\ e.seg = Where(o) /\ Where(o) \in DOMAIN segs \cup {0}
  BY <1>1, <1>3 DEF Facts, LeadFacts
<1> QED BY <1>2, <1>3, <1>4

LEMMA PlanDevicePages == ASSUME World, Pages, PlanDevice PROVE Pages'
<1>1. /\ Recs' = Recs /\ segs' = segs /\ frz' = frz /\ forgotten' = forgotten
      /\ \A o : Event(o)' = Event(o) /\ Dev(o)' = Dev(o)
      /\ \A e : Found(e)' = Found(e)
  BY Still DEF PlanDevice
<1>2. /\ client \in Client /\ client.kind = "device" /\ client.at = "ask"
      /\ client.dev \in Devs /\ client.limit \in Nat \ {0} /\ client.base \subseteq Recs
      /\ \A o \in client.base : Dev(o) = client.dev
  BY DEF PlanDevice, Pages, Asks, DeviceCursor, IsDevice, Client
<1>3. PICK plan : plan = [items |-> {e \in Selected : e.seg # 0 /\ ~Unread(e)},
                          open  |-> {Found(e) : e \in {f \in Selected : f.seg = 0}},
                          gaps  |-> {e.off : e \in {f \in Selected : Unread(f)}},
                          tombs |-> {}]
  OBVIOUS
<1>4. PICK more \in BOOLEAN : more = (Cardinality(Selected) = client.limit)
  OBVIOUS
<1>5. client' = [client EXCEPT !.at = "read", !.more = more, !.plan = plan]
  BY <1>3, <1>4 DEF PlanDevice
<1>6. /\ client' \in Client'
      /\ client'.kind = client.kind /\ client'.dev = client.dev
      /\ client'.limit = client.limit /\ client'.more = more
      /\ client'.seq = client.seq /\ client'.off = client.off
      /\ client'.base = client.base /\ client'.got = client.got
      /\ client'.holes = client.holes /\ client'.lost = client.lost
      /\ client'.twice = client.twice /\ client'.at = "read" /\ client'.plan = plan
  BY <1>2, <1>5 DEF Client
<1>7. /\ \A e \in Selected : /\ e \in entries[client.dev]
                             /\ Reaches(e.off, client.seq, client.off)
      /\ \A e \in entries[client.dev] : Reaches(e.off, client.seq, client.off) =>
            \/ e \in Selected
            \/ more /\ \A f \in Selected : Reaches(e.off, Event(f.off).seq, f.off)
  BY <1>2, <1>4, SelectedFirst
<1>8. \A e \in Selected : /\ e.off \in Recs /\ Dev(e.off) = client.dev
                          /\ e = EntryOf(e.off) /\ Found(e) = e.off
                          /\ e.seg # 0 => e.seg \in DOMAIN segs
  BY <1>2, <1>7, EntryFacts
<1>9. PICK offs : offs = {e.off : e \in Selected}
  OBVIOUS
<1>10. Planned' = offs
  <2>1. Planned' = {e.off : e \in plan.items} \cup plan.open \cup plan.gaps
    BY <1>6 DEF Planned
  <2>2. \A e \in Selected : e.seg = 0 \/ Unread(e) \/ e \in plan.items
    BY <1>3
  <2>3. \A e \in plan.items : e \in Selected
    BY <1>3
  <2>4. \A e \in Selected : e.seg = 0 => e.off \in plan.open
    BY <1>3, <1>8
  <2>5. \A e \in Selected : Unread(e) => e.off \in plan.gaps
    BY <1>3
  <2>6. \A o \in plan.open \cup plan.gaps : \E e \in Selected : o = e.off
    BY <1>3, <1>8
  <2> QED BY <1>9, <2>1, <2>2, <2>3, <2>4, <2>5, <2>6
<1>11. \A o : /\ Passed(o)' <=> Passed(o)
              /\ Passed(o) <=> ~Reaches(o, client.seq, client.off)
  BY <1>1, <1>6 DEF Passed, Reaches
<1>12. Asks'
  BY <1>1, <1>2, <1>6 DEF Asks
<1>13. DeviceCursor'
  <2>1. client.base \subseteq Recs /\ Answered' = Answered
    BY <1>1, <1>2, <1>6 DEF Answered, Hidden
  <2>2. /\ \A o \in client.base : Passed(o) => o \in Answered
        /\ \A o \in client.got \cup client.holes : o \in Recs /\ Passed(o)
    BY <1>2 DEF Pages, DeviceCursor, IsDevice
  <2> QED BY <1>1, <1>2, <1>6, <1>11, <2>1, <2>2 DEF DeviceCursor
<1>14. DevicePlan'
  <2>1. \A e \in plan.items : e.seg \in DOMAIN segs /\ Found(e)' = e.off
    BY <1>1, <1>3, <1>8
  <2>2. offs \subseteq Recs /\ \A o \in offs : ~Passed(o)'
    BY <1>7, <1>8, <1>9, <1>11
  <2>3. ASSUME more PROVE offs # {}
    <3>1. Selected # {}
      BY <1>2, <1>4, <2>3, FS_EmptySet
    <3> QED BY <1>9, <3>1
  <2>4. ASSUME NEW o \in client.base \ forgotten, ~Passed(o)'
        PROVE  o \in offs \/ (more /\ \A q \in offs : Reaches(o, Event(q).seq, q)')
    <3>1. o \in Recs \ forgotten /\ Dev(o) = client.dev
      BY <1>2
    <3>2. PICK e \in entries[client.dev] : e = EntryOf(o) /\ e.off = o
      <4>1. EntryOf(o) \in entries[client.dev]
        BY <1>2, <3>1 DEF World, Entered
      <4>2. EntryOf(o).off = o
        BY DEF EntryOf
      <4> QED BY <4>1, <4>2
    <3>3. Reaches(e.off, client.seq, client.off)
      BY <1>11, <2>4, <3>2
    <3>4. \A q : Reaches(o, Event(q).seq, q)' <=> Reaches(o, Event(q).seq, q)
      BY <1>1 DEF Reaches
    <3> QED BY <1>7, <1>9, <3>2, <3>3, <3>4
  <2> QED BY <1>1, <1>6, <1>10, <2>1, <2>2, <2>3, <2>4 DEF DevicePlan
<1>15. ReplayCursor' /\ ReplayPlan' /\ PagesCover' /\ PagesDisjoint'
  BY <1>2, <1>6 DEF ReplayCursor, ReplayPlan, IsReplay, PagesCover, PagesDisjoint, Pages
<1> QED BY <1>12, <1>13, <1>14, <1>15 DEF Pages

\* The last offset of a page, in business order.
LastPlanned == CHOOSE o \in Planned : \A q \in Planned : Reaches(o, Event(q).seq, q)

LEMMA LastIsPlanned ==
    ASSUME World, Planned \subseteq Recs, Planned # {}
    PROVE  LastPlanned \in Planned /\ \A q \in Planned : Reaches(LastPlanned, Event(q).seq, q)
<1>1. Base /\ Facts
  BY WorldFacts
<1>2. PICK S : S = Planned
  OBVIOUS
<1>3. S \in SUBSET Recs /\ S # {}
  BY <1>2
<1>4. IsFiniteSet(S) /\ S \in SUBSET S
  BY <1>1, <1>3, Finite
<1>5. PICK upto : upto = [o \in S |-> {q \in S : Reaches(o, Event(q).seq, q)}]
  OBVIOUS
<1>6. \A o \in S : o \in Nat /\ Event(o).seq \in Nat
  BY <1>1, <1>3 DEF Facts, LogFacts
<1>7. Orders(upto, S)
  <2>1. upto \in [S -> SUBSET S]
    BY <1>5
  <2>2. \A o, q \in S : q \in upto[o] <=> \/ Event(q).seq < Event(o).seq
                                          \/ Event(q).seq = Event(o).seq /\ q <= o
    BY <1>5, <1>6 DEF Reaches
  <2>3. \A o \in S : o \in upto[o]
    BY <1>6, <2>2
  <2>4. \A o, q \in S : o \in upto[q] \/ q \in upto[o]
    BY <1>6, <2>2
  <2>5. \A o, q \in S : o \in upto[q] => upto[o] \subseteq upto[q]
    <3> SUFFICES ASSUME NEW o \in S, NEW q \in S, o \in upto[q], NEW r \in upto[o]
                 PROVE  r \in upto[q]
        OBVIOUS
    <3>1. r \in S
      BY <2>1
    <3> QED BY <1>6, <2>2, <3>1
  <2>6. \A o, q \in S : o \in upto[q] /\ q \in upto[o] => o = q
    BY <1>6, <2>2
  <2> QED BY <2>1, <2>3, <2>4, <2>5, <2>6 DEF Orders
<1>8. HasLast(upto, S)
  BY <1>3, <1>4, <1>7, LastOf
<1>9. \E o \in S : \A q \in S : Reaches(o, Event(q).seq, q)
  BY <1>5, <1>8 DEF HasLast
<1>10. LastPlanned = CHOOSE o \in S : \A q \in S : Reaches(o, Event(q).seq, q)
  BY <1>2 DEF LastPlanned
<1> QED BY <1>2, <1>9, <1>10

LEMMA ReadDevicePages ==
    ASSUME World, Pages,
           NEW damaged \in SUBSET client.plan.items, NEW swapped \in SUBSET client.plan.items,
           ReadDevice(damaged, swapped)
    PROVE  Pages'
<1>0. Base /\ Facts
  BY WorldFacts
<1>1. /\ Recs' = Recs /\ segs' = segs /\ frz' = frz /\ forgotten' = forgotten
      /\ \A o : Event(o)' = Event(o) /\ Dev(o)' = Dev(o)
  BY Still DEF ReadDevice
<1>2. /\ client \in Client /\ client.kind = "device" /\ client.at = "read"
      /\ client.dev \in Devs /\ client.limit # 0 /\ client.base \subseteq Recs
      /\ \A o \in client.base : Dev(o) = client.dev
  BY DEF ReadDevice, Pages, Asks, DeviceCursor, IsDevice
<1>3. /\ \A o \in client.base : Passed(o) => o \in Answered
      /\ \A o \in client.got \cup client.holes : o \in Recs /\ Passed(o)
  BY <1>2 DEF Pages, DeviceCursor, IsDevice
<1>4. /\ \A e \in client.plan.items : Found(e) = e.off
      /\ Planned \subseteq Recs
      /\ \A o \in Planned : ~Passed(o)
      /\ client.more => Planned # {}
      /\ \A o \in client.base \ forgotten : ~Passed(o) =>
            o \in Planned \/ (client.more /\ \A q \in Planned : Reaches(o, Event(q).seq, q))
  BY <1>2 DEF Pages, DevicePlan, IsDevice
<1>5. \E away, missed \in SUBSET client.plan.items :
         \E page :
            /\ page = Gets(client.plan.open \cup {Found(e) : e \in client.plan.items \ (away \cup missed)},
                           client.plan.gaps \cup {e.off : e \in missed}, {e.off : e \in away})
            /\ client' = [page EXCEPT
                  !.at = IF client.more THEN "ask" ELSE "over",
                  !.seq = (IF client.more THEN After(LastPlanned) ELSE client).seq,
                  !.off = (IF client.more THEN After(LastPlanned) ELSE client).off]
  <2>1. PICK away : away = {e \in client.plan.items : segs[e.seg].status = "away"} \cup swapped
    OBVIOUS
  <2>2. PICK missed : missed = {e \in client.plan.items : segs[e.seg].status = "evicted"} \cup damaged
    OBVIOUS
  <2>3. away \in SUBSET client.plan.items /\ missed \in SUBSET client.plan.items
    BY <2>1, <2>2
  <2> QED BY <2>1, <2>2, <2>3 DEF ReadDevice, LastPlanned, Planned
<1>6. PICK away, missed \in SUBSET client.plan.items :
         \E page :
            /\ page = Gets(client.plan.open \cup {Found(e) : e \in client.plan.items \ (away \cup missed)},
                           client.plan.gaps \cup {e.off : e \in missed}, {e.off : e \in away})
            /\ client' = [page EXCEPT
                  !.at = IF client.more THEN "ask" ELSE "over",
                  !.seq = (IF client.more THEN After(LastPlanned) ELSE client).seq,
                  !.off = (IF client.more THEN After(LastPlanned) ELSE client).off]
  BY <1>5
<1>7. PICK new : new = client.plan.open \cup {Found(e) : e \in client.plan.items \ (away \cup missed)}
  OBVIOUS
<1>8. PICK holes : holes = client.plan.gaps \cup {e.off : e \in missed}
  OBVIOUS
<1>9. PICK lost : lost = {e.off : e \in away}
  OBVIOUS
<1>10. new \cup holes \cup lost = Planned
  <2>1. \A e \in client.plan.items : e.off \in new \cup holes \cup lost
    BY <1>4, <1>7, <1>8, <1>9
  <2>2. \A o \in new \cup holes \cup lost :
           o \in client.plan.open \cup client.plan.gaps \/ \E e \in client.plan.items : o = e.off
    BY <1>4, <1>7, <1>8, <1>9
  <2>3. client.plan.open \subseteq new /\ client.plan.gaps \subseteq holes
    BY <1>7, <1>8
  <2> QED BY <2>1, <2>2, <2>3 DEF Planned
<1>11. PICK seq, off : /\ seq = IF client.more THEN Event(LastPlanned).seq ELSE client.seq
                       /\ off = IF client.more THEN LastPlanned + 1 ELSE client.off
  OBVIOUS
<1>12. PICK at : at = IF client.more THEN "ask" ELSE "over"
  OBVIOUS
<1>13. client' = [client EXCEPT
          !.got = @ \cup new, !.holes = @ \cup holes, !.lost = @ \cup lost,
          !.twice = @ \cup ((new \cup holes) \cap (client.got \cup client.holes)),
          !.plan = NoPlan, !.at = at, !.seq = seq, !.off = off]
  <2>1. (IF client.more THEN After(LastPlanned) ELSE client).seq = seq
        /\ (IF client.more THEN After(LastPlanned) ELSE client).off = off
    BY <1>2, <1>11 DEF After, Client
  <2>2. client' = [Gets(new, holes, lost) EXCEPT !.at = at, !.seq = seq, !.off = off]
    BY <1>6, <1>7, <1>8, <1>9, <1>12, <2>1
  <2> QED BY <1>2, <2>2 DEF Gets, Client
<1>14. client.more => /\ LastPlanned \in Planned
                      /\ \A q \in Planned : Reaches(LastPlanned, Event(q).seq, q)
  BY <1>4, LastIsPlanned
<1>15. new \subseteq Nat /\ holes \subseteq Nat /\ lost \subseteq Nat
  <2>1. \A o \in Planned : o \in Nat
    BY <1>0, <1>4 DEF Facts, LogFacts
  <2>2. \A o \in new \cup holes \cup lost : o \in Nat
    BY <1>10, <2>1
  <2> QED BY <2>2
<1>16. seq \in Nat /\ off \in Nat
  <2>1. CASE client.more
    <3>1. LastPlanned \in Recs
      BY <1>4, <1>14, <2>1
    <3> QED BY <1>0, <1>11, <2>1, <3>1 DEF Facts, LogFacts
  <2>2. CASE ~client.more
    BY <1>2, <1>11, <2>2 DEF Client
  <2> QED BY <2>1, <2>2
<1>17. /\ client'.kind = client.kind /\ client'.dev = client.dev /\ client'.limit = client.limit
       /\ client'.base = client.base /\ client'.got = client.got \cup new
       /\ client'.holes = client.holes \cup holes /\ client'.lost = client.lost \cup lost
       /\ client'.twice = client.twice \cup ((new \cup holes) \cap (client.got \cup client.holes))
       /\ client'.at = at /\ client'.seq = seq /\ client'.off = off
  BY <1>2, <1>13 DEF Client
<1>18. client' \in Client'
  <2>1. client'.twice \in SUBSET Nat
    BY <1>2, <1>15, <1>17 DEF Client
  <2>2. client.got \cup new \in SUBSET Nat /\ client.holes \cup holes \in SUBSET Nat
        /\ client.lost \cup lost \in SUBSET Nat
    BY <1>2, <1>15 DEF Client
  <2>3. at \in {"off", "ask", "read", "over"}
    BY <1>12
  <2>4. client' = [plan |-> client'.plan, kind |-> client.kind, dev |-> client.dev,
                   limit |-> client.limit, at |-> at, seq |-> seq, off |-> off,
                   more |-> client.more, base |-> client.base, got |-> client.got \cup new,
                   holes |-> client.holes \cup holes, lost |-> client.lost \cup lost,
                   twice |-> client'.twice]
    BY <1>2, <1>13 DEF Client
  <2> QED BY <1>2, <1>16, <2>1, <2>2, <2>3, <2>4 DEF Client
<1>19. Asks'
  BY <1>1, <1>2, <1>17, <1>18 DEF Asks, Pages
<1>20. Answered \subseteq Answered' /\ Planned \subseteq Answered'
  BY <1>1, <1>2, <1>10, <1>17 DEF Answered, Hidden
<1>21. ASSUME NEW o \in client.base, ~Passed(o), o \notin Answered'
       PROVE  client.more /\ \A q \in Planned : Reaches(o, Event(q).seq, q)
  <2>1. o \notin forgotten /\ o \notin Planned
    BY <1>20, <1>21 DEF Answered
  <2> QED BY <1>4, <1>21, <2>1
<1>22. DeviceCursor'
  <2> SUFFICES ASSUME at = "ask"
               PROVE  /\ \A o \in client.base : Passed(o)' => o \in Answered'
                      /\ \A o \in client.got \cup new \cup client.holes \cup holes : o \in Recs /\ Passed(o)'
      BY <1>1, <1>2, <1>12, <1>17 DEF DeviceCursor
  <2>1. client.more
    BY <1>12
  <2>2. PICK last \in Recs : last = LastPlanned
    BY <1>4, <1>14, <2>1
  <2>3. last \in Nat /\ Event(last).seq \in Nat
    BY <1>0, <2>2 DEF Facts, LogFacts
  <2>4. \A o \in Recs : o \in Nat /\ Event(o).seq \in Nat
    BY <1>0 DEF Facts, LogFacts
  <2>5. \A o \in Recs : Passed(o)' <=> \/ Event(o).seq < Event(last).seq
                                       \/ Event(o).seq = Event(last).seq /\ o <= last
    BY <1>1, <1>11, <1>17, <2>1, <2>2, <2>3, <2>4 DEF Passed, Reaches
  <2>6. \A o \in Recs : Passed(o) <=> \/ Event(o).seq < client.seq
                                      \/ Event(o).seq = client.seq /\ o < client.off
    <3>1. client.seq \in Nat /\ client.off \in Nat
      BY <1>2 DEF Client
    <3> QED BY <2>4, <3>1 DEF Passed, Reaches
  <2>7. \A o \in Recs : Passed(o) => Passed(o)'
    <3>1. ~Passed(last)
      BY <1>4, <1>14, <2>1, <2>2
    <3>2. client.seq \in Nat /\ client.off \in Nat
      BY <1>2 DEF Client
    <3> QED BY <2>2, <2>3, <2>4, <2>5, <2>6, <3>1, <3>2
  <2>8. \A o \in Planned : Passed(o)'
    <3>1. \A o \in Planned : Reaches(last, Event(o).seq, o) /\ o \in Recs
      BY <1>4, <1>14, <2>1, <2>2
    <3> QED BY <2>3, <2>4, <2>5, <3>1 DEF Reaches
  <2>9. ASSUME NEW o \in client.base, Passed(o)' PROVE o \in Answered'
    <3>1. SUFFICES ASSUME o \notin Answered' PROVE FALSE
      OBVIOUS
    <3>2. o \in Recs /\ ~Passed(o)
      BY <1>2, <1>3, <1>20, <3>1
    <3>3. Reaches(o, Event(last).seq, last)
      BY <1>14, <1>21, <2>1, <2>2, <3>1, <3>2
    <3>4. o = last
      BY <2>3, <2>4, <2>5, <2>9, <3>2, <3>3 DEF Reaches
    <3> QED BY <1>14, <1>20, <2>1, <2>2, <3>1, <3>4
  <2>10. \A o \in new \cup holes : o \in Recs /\ Passed(o)'
    BY <1>4, <1>10, <2>8
  <2> QED BY <1>3, <2>7, <2>9, <2>10
<1>23. PagesCover'
  <2> SUFFICES ASSUME at = "over", NEW o \in client.base PROVE o \in Answered'
      BY <1>17 DEF PagesCover, Answered
  <2>1. ~client.more
    BY <1>12
  <2> QED BY <1>3, <1>20, <1>21, <2>1
<1>24. PagesDisjoint'
  <2>1. client.twice = {}
    BY DEF Pages, PagesDisjoint
  <2>2. \A o \in new \cup holes : o \notin client.got \cup client.holes
    BY <1>3, <1>4, <1>10
  <2> QED BY <1>17, <2>1, <2>2 DEF PagesDisjoint
<1>25. DevicePlan' /\ ReplayCursor' /\ ReplayPlan'
  BY <1>2, <1>12, <1>17 DEF DevicePlan, ReplayCursor, ReplayPlan, IsReplay
<1> QED BY <1>19, <1>22, <1>23, <1>24, <1>25 DEF Pages
-----------------------------------------------------------------------------
(***************************************************************************)
(* Pages of a replay.                                                      *)
(***************************************************************************)

LEMMA PlanReplayPages == ASSUME World, Pages, PlanReplay PROVE Pages'
<1>1. Base /\ Facts /\ World' /\ Grows
  BY WorldFacts, SameWorld DEF PlanReplay, Reading
<1>2. /\ Recs' = Recs /\ segs' = segs /\ frz' = frz /\ forgotten' = forgotten
      /\ \A k : Span(k)' = Span(k)
  BY Still DEF PlanReplay
<1>3. /\ client \in Client /\ client.kind \in {"head", "frozen"} /\ client.at = "ask"
      /\ client.limit # 0 /\ client.base \subseteq Recs
      /\ client.kind = "frozen" => frz # NoFreeze /\ client.base \subseteq 0 .. frz.end - 1
  BY DEF PlanReplay, Pages, Asks
<1>4. PICK plan : plan = [items |-> {k \in View : segs[k].status \in {"sealed", "doomed", "away"}},
                          open  |-> IF client.kind = "frozen" THEN {} ELSE Open,
                          gaps  |-> {k \in View : segs[k].status = "quarantined"},
                          tombs |-> View \cap Tombs]
  OBVIOUS
<1>5. client' = [client EXCEPT !.at = "read", !.plan = plan]
  BY <1>4 DEF PlanReplay
<1>6. /\ client' \in Client'
      /\ client'.kind = client.kind /\ client'.limit = client.limit
      /\ client'.off = client.off /\ client'.base = client.base /\ client'.got = client.got
      /\ client'.holes = client.holes /\ client'.lost = client.lost
      /\ client'.twice = client.twice /\ client'.at = "read" /\ client'.plan = plan
  BY <1>3, <1>5 DEF Client
<1>7. Hidden' = Hidden
  BY <1>1, <1>6, HiddenKept DEF Pages
<1>8. View \subseteq DOMAIN segs
  BY <1>1, <1>3 DEF View, World, Frozen
<1>9. PlannedSegs' = View
  <2>1. PlannedSegs' = plan.items \cup plan.gaps \cup plan.tombs
    BY <1>6 DEF PlannedSegs
  <2>2. \A k \in View : segs[k].status \in {"sealed", "quarantined", "doomed", "away", "evicted"}
    BY <1>1, <1>8 DEF Facts, SegFacts, Ranges
  <2>3. \A k \in View : k \in plan.items \cup plan.gaps \cup plan.tombs
    BY <1>4, <1>8, <2>2 DEF Tombs
  <2>4. plan.items \cup plan.gaps \cup plan.tombs \subseteq View
    BY <1>4
  <2> QED BY <2>1, <2>3, <2>4
<1>10. Asks'
  BY <1>2, <1>3, <1>6 DEF Asks
<1>11. ReplayCursor'
  <2>1. Answered' = Answered
    BY <1>2, <1>6, <1>7 DEF Answered
  <2> QED BY <1>3, <1>6, <2>1 DEF ReplayCursor, IsReplay, Pages
<1>12. ReplayPlan'
  <2>1. plan.items \cap plan.gaps = {}
    BY <1>4
  <2>2. plan.open \subseteq Recs /\ \A o \in plan.open : Sealed <= o /\ o \in Nat
    <3>1. plan.open \subseteq Open /\ Open \subseteq Recs
      BY <1>1, <1>4 DEF Facts, PlaceFacts
    <3>2. \A o \in Recs : o \in Nat
      BY <1>1 DEF Facts, LogFacts
    <3> QED BY <1>1, <3>1, <3>2 DEF Facts, PlaceFacts
  <2>3. \A o \in plan.open, k \in View : segs[k].last < o
    <3>1. \A k \in View : segs[k].last \in Nat /\ segs[k].last < Sealed /\ Sealed \in Nat
      BY <1>1, <1>8 DEF Facts, SegFacts
    <3> QED BY <2>2, <3>1
  <2>4. ASSUME NEW o \in client.base
        PROVE  o \in plan.open \cup Hidden \/ \E k \in View : o \in Span(k)'
    <3>1. o \in Recs /\ o \in Nat
      BY <1>1, <1>3 DEF Facts, LogFacts
    <3>2. o < Sealed => Where(o) \in DOMAIN segs /\ o \in Span(Where(o))
      BY <1>1, <3>1 DEF Facts, PlaceFacts
    <3>3. CASE client.kind = "frozen"
      <4>1. o \in 0 .. frz.end - 1 /\ frz.end \in Nat /\ frz.end <= Sealed /\ Sealed \in Nat
        BY <1>1, <1>3, <3>3 DEF World, Frozen, Facts, SegFacts
      <4>2. o < Sealed
        BY <4>1
      <4>3. o \in Hidden \/ Where(o) \in View
        BY <3>3 DEF Hidden, View
      <4> QED BY <1>2, <3>2, <4>2, <4>3
    <3>4. CASE client.kind # "frozen"
      <4>1. plan.open = Open /\ View = DOMAIN segs
        BY <1>4, <3>4 DEF View
      <4>2. o \in Open \/ o < Sealed
        BY <1>1, <3>1 DEF Facts, PlaceFacts, SegFacts
      <4> QED BY <1>2, <3>2, <4>1, <4>2
    <3> QED BY <3>3, <3>4
  <2> QED BY <1>2, <1>6, <1>7, <1>8, <1>9, <2>1, <2>2, <2>3, <2>4 DEF ReplayPlan
<1>13. DeviceCursor' /\ DevicePlan' /\ PagesCover' /\ PagesDisjoint'
  BY <1>3, <1>6 DEF DeviceCursor, DevicePlan, IsDevice, PagesCover, PagesDisjoint, Pages
<1> QED BY <1>10, <1>11, <1>12, <1>13 DEF Pages

\* What a replay that has a plan knows.
Planning ==
    /\ PlannedSegs \subseteq DOMAIN segs
    /\ client.plan.items \cap client.plan.gaps = {}
    /\ client.plan.open \subseteq Recs
    /\ \A o \in client.plan.open, k \in PlannedSegs : segs[k].last < o
    /\ \A o \in client.base :
          o \in client.plan.open \cup Hidden \/ \E k \in PlannedSegs : o \in Span(k)
    /\ client \in Client /\ client.limit # 0 /\ client.base \subseteq Recs
    /\ \A o \in client.base : o < client.off => o \in Answered
    /\ \A o \in client.got \cup client.holes : o < client.off

\* Where a replay stops.
LEMMA Stopping ==
    ASSUME World, Planning
    PROVE  /\ Stops \subseteq PlannedSegs
           /\ Stops = {} => \A k \in DOMAIN segs : k < Stop
           /\ Stops = {} => Stop \notin DOMAIN segs
           /\ Stops # {} => Stop \in Stops /\ \A k \in Stops : Stop <= k
           /\ Stop \in Nat
<1>1. Base /\ Facts
  BY WorldFacts
<1>2. Stops \subseteq PlannedSegs
  BY DEF Stops, Ahead, PlannedSegs
<1>3. DOMAIN segs = 1 .. Len(segs) /\ Len(segs) \in Nat
  BY <1>1 DEF Facts, SegFacts
<1>4. CASE Stops = {}
  BY <1>2, <1>3, <1>4 DEF Stop
<1>5. CASE Stops # {}
  <2>1. PICK S : S = Stops
    OBVIOUS
  <2>2. IsFiniteSet(1 .. Len(segs))
    BY <1>3, FS_Interval
  <2>3. S \in SUBSET (1 .. Len(segs)) /\ S # {}
    BY <1>2, <1>3, <1>5, <2>1 DEF Planning
  <2>4. IsFiniteSet(S)
    BY <2>2, <2>3, FS_Subset
  <2>5. S \in SUBSET Int
    BY <2>3
  <2>6. \E m \in S : \A x \in S : m <= x
    BY <2>3, <2>4, <2>5, LeastNumber
  <2>7. Stop = CHOOSE m \in S : \A x \in S : m <= x
    BY <1>5, <2>1 DEF Stop, Least
  <2>8. Stop \in S /\ \A x \in S : Stop <= x
    BY <2>6, <2>7
  <2> QED BY <1>2, <1>3, <1>5, <2>1, <2>3, <2>8
<1> QED BY <1>2, <1>4, <1>5

\* What is read of a plan, in the order of the archive: the events of its
\* segments up to where the replay stops, then the open records.
LEMMA Reached ==
    ASSUME World, Planning, NEW damaged
    PROVE  /\ Readable(damaged) \in SUBSET Recs /\ Readable(damaged) \in SUBSET Nat
           /\ IsFiniteSet(Readable(damaged))
           /\ \A o \in Readable(damaged) :
                 /\ client.off <= o
                 /\ \/ Stops = {} /\ o \in client.plan.open
                    \/ \E k \in client.plan.items \ damaged : k < Stop /\ o \in Span(k)
           /\ \A k \in client.plan.items \ damaged : k < Stop =>
                 \A o \in Span(k) : client.off <= o => o \in Readable(damaged)
           /\ Stops = {} => \A o \in client.plan.open : client.off <= o => o \in Readable(damaged)
           /\ \A k \in client.plan.tombs : \A o \in Span(k) : client.off <= o => k \in Stops
<1>1. Base /\ Facts
  BY WorldFacts
<1>2. client.off \in Nat /\ client.plan.open \subseteq Recs
  BY DEF Planning, Client
<1>3. \A o \in Recs : o \in Nat
  BY <1>1 DEF Facts, LogFacts
<1>4. \A k \in PlannedSegs : /\ k \in DOMAIN segs /\ segs[k].first \in Nat /\ segs[k].last \in Nat
                             /\ Span(k) \subseteq Recs
  BY <1>1 DEF Planning, Facts, SegFacts, PlaceFacts
<1>5. \A k \in PlannedSegs : \A o \in Span(k) : client.off <= o => segs[k].last >= client.off
  BY <1>2, <1>4 DEF Span
<1>6. \A k \in client.plan.items \ damaged : k \in PlannedSegs
  BY DEF PlannedSegs
<1>7. \A k \in client.plan.tombs : k \in PlannedSegs
  BY DEF PlannedSegs
<1>8. \A o : o \in Spans(Behind(client.plan.items \ damaged)) <=>
             \E k \in client.plan.items \ damaged : /\ k < Stop /\ segs[k].last >= client.off
                                          /\ o \in Span(k) /\ o >= client.off
  BY DEF Spans, Behind, Ahead
<1>9. ASSUME NEW o \in Readable(damaged)
      PROVE  /\ o \in Recs /\ client.off <= o
             /\ \/ Stops = {} /\ o \in client.plan.open
                \/ \E k \in client.plan.items \ damaged : k < Stop /\ o \in Span(k)
  <2>1. CASE o \in Spans(Behind(client.plan.items \ damaged))
    <3>1. PICK k \in client.plan.items \ damaged : k < Stop /\ o \in Span(k) /\ o >= client.off
      BY <1>8, <2>1
    <3>2. o \in Recs /\ o \in Nat
      BY <1>3, <1>4, <1>6, <3>1
    <3> QED BY <1>2, <3>1, <3>2
  <2>2. CASE Stops = {} /\ o \in client.plan.open /\ o >= client.off
    BY <1>2, <1>3, <2>2
  <2> QED BY <2>1, <2>2 DEF Readable
<1>10. Readable(damaged) \in SUBSET Recs
  BY <1>9
<1>11. Readable(damaged) \in SUBSET Nat /\ IsFiniteSet(Readable(damaged))
  BY <1>1, <1>10, Finite
<1>12. ASSUME NEW k \in client.plan.items \ damaged, k < Stop, NEW o \in Span(k), client.off <= o
       PROVE  o \in Readable(damaged)
  <2>1. o \in Nat /\ segs[k].last >= client.off
    BY <1>3, <1>4, <1>5, <1>6, <1>12
  <2>2. o \in Spans(Behind(client.plan.items \ damaged))
    BY <1>2, <1>8, <1>12, <2>1
  <2> QED BY <2>2 DEF Readable
<1>13. ASSUME Stops = {}, NEW o \in client.plan.open, client.off <= o PROVE o \in Readable(damaged)
  BY <1>2, <1>3, <1>13 DEF Readable
<1>14. ASSUME NEW k \in client.plan.tombs, NEW o \in Span(k), client.off <= o PROVE k \in Stops
  BY <1>5, <1>7, <1>14 DEF Stops, Ahead
<1> QED BY <1>9, <1>10, <1>11, <1>12, <1>13, <1>14

LEMMA ReplayPlanning ==
    ASSUME World, Pages, NEW damaged, ReplayReads(damaged) PROVE Planning
BY DEF Planning, Pages, ReplayReads, ReplayPlan, ReplayCursor, IsReplay, Asks

\* A page brings what lies between the old and the new cursor, or all to the
\* end, and nothing else.
Brings(new, holes, lost, at, off) ==
    /\ new \in SUBSET Nat /\ holes \in SUBSET Nat /\ lost \in SUBSET Nat
    /\ at \in {"ask", "over"} /\ off \in Nat
    /\ client' = [client EXCEPT
          !.got = @ \cup new, !.holes = @ \cup holes, !.lost = @ \cup lost,
          !.twice = @ \cup ((new \cup holes) \cap (client.got \cup client.holes)),
          !.plan = NoPlan, !.at = at, !.off = off]
    /\ \A o \in new \cup holes : client.off <= o /\ (at = "ask" => o < off)
    /\ at = "ask" => client.off <= off
    /\ \A o \in client.base \ Hidden :
          client.off <= o /\ (at = "ask" => o < off) => o \in new \cup holes \cup lost

LEMMA ReplayAnswers ==
    ASSUME World, Pages, NEW damaged, ReplayReads(damaged),
           NEW new, NEW holes, NEW lost, NEW at, NEW off, Brings(new, holes, lost, at, off)
    PROVE  Pages'
<1> USE DEF Brings
<1>1. Base /\ Facts /\ World' /\ Grows
  BY WorldFacts, SameWorld DEF ReplayReads, Reading
<1>2. Recs' = Recs /\ frz' = frz /\ forgotten' = forgotten
  BY Still DEF ReplayReads
<1>3. Planning /\ client.kind \in {"head", "frozen"}
  BY ReplayPlanning DEF ReplayReads
<1>4. /\ client \in Client /\ client.limit # 0 /\ client.base \subseteq Recs
      /\ \A o \in client.base : o < client.off => o \in Answered
      /\ \A o \in client.got \cup client.holes : o < client.off
      /\ client.off \in Nat
  BY <1>3 DEF Planning, Client
<1>5. /\ client'.kind = client.kind /\ client'.limit = client.limit
      /\ client'.base = client.base /\ client'.got = client.got \cup new
      /\ client'.holes = client.holes \cup holes /\ client'.lost = client.lost \cup lost
      /\ client'.twice = client.twice \cup ((new \cup holes) \cap (client.got \cup client.holes))
      /\ client'.at = at /\ client'.off = off
  BY <1>4 DEF Client
<1>6. client' \in Client'
  <2>1. client'.twice \in SUBSET Nat
    BY <1>4, <1>5 DEF Client
  <2>2. client.got \cup new \in SUBSET Nat /\ client.holes \cup holes \in SUBSET Nat
        /\ client.lost \cup lost \in SUBSET Nat
    BY <1>4 DEF Client
  <2>3. client' = [plan |-> client'.plan, kind |-> client.kind, dev |-> client.dev,
                   limit |-> client.limit, at |-> at, seq |-> client.seq, off |-> off,
                   more |-> client.more, base |-> client.base, got |-> client.got \cup new,
                   holes |-> client.holes \cup holes, lost |-> client.lost \cup lost,
                   twice |-> client'.twice]
    BY <1>4 DEF Client
  <2> QED BY <1>4, <2>1, <2>2, <2>3 DEF Client
<1>7. Asks'
  BY <1>2, <1>4, <1>5, <1>6 DEF Asks, Pages
<1>8. Hidden' = Hidden
  BY <1>1, <1>5, HiddenKept DEF Pages
<1>9. Answered \subseteq Answered' /\ new \cup holes \cup lost \subseteq Answered'
      /\ Hidden \subseteq Answered'
  BY <1>2, <1>5, <1>8 DEF Answered
<1>10. \A o \in client.base : o \in Nat
  BY <1>1, <1>4 DEF Facts, LogFacts
<1>11. ASSUME NEW o \in client.base, at = "ask" => o < off PROVE o \in Answered'
  <2>1. CASE o < client.off
    BY <1>4, <1>9, <2>1
  <2>2. CASE client.off <= o
    BY <1>9, <1>11, <2>2
  <2> QED BY <1>4, <1>10, <2>1, <2>2
<1>12. ReplayCursor'
  <2> SUFFICES ASSUME at = "ask"
               PROVE  /\ \A o \in client.base : o < off => o \in Answered'
                      /\ \A o \in client.got \cup new \cup (client.holes \cup holes) : o < off
      BY <1>5 DEF ReplayCursor
  <2>1. \A o \in client.got \cup client.holes : o < off
    <3>1. \A o \in client.got \cup client.holes : o \in Nat /\ o < client.off
      BY <1>4 DEF Client
    <3> QED BY <1>4, <3>1
  <2> QED BY <1>11, <2>1
<1>13. PagesCover'
  BY <1>5, <1>11 DEF PagesCover, Answered
<1>14. PagesDisjoint'
  <2>1. client.twice = {}
    BY DEF Pages, PagesDisjoint
  <2>2. ASSUME NEW o \in new \cup holes, o \in client.got \cup client.holes PROVE FALSE
    BY <1>4, <2>2
  <2> QED BY <1>5, <2>1, <2>2 DEF PagesDisjoint
<1>15. DeviceCursor' /\ DevicePlan' /\ ReplayPlan'
  BY <1>3, <1>5 DEF DeviceCursor, DevicePlan, ReplayPlan, IsDevice
<1> QED BY <1>7, <1>12, <1>13, <1>14, <1>15 DEF Pages

\* Segments and open records follow each other.
LEMMA Follows ==
    ASSUME World, Planning
    PROVE  /\ \A j, k \in PlannedSegs : \A o \in Span(j), q \in Span(k) :
                 /\ j < k => o < q
                 /\ o = q => j = k
           /\ \A k \in PlannedSegs : \A o \in Span(k), q \in client.plan.open : o < q
           /\ \A k \in PlannedSegs : /\ k \in Nat
                                     /\ segs[k].first \in Span(k) /\ segs[k].last \in Span(k)
                                     /\ \A o \in Span(k) : /\ o \in Nat
                                                           /\ segs[k].first <= o /\ o <= segs[k].last
           /\ \A o \in client.plan.open \cup client.base : o \in Nat
           /\ client.off \in Nat
<1>1. Base /\ Facts
  BY WorldFacts
<1>2. PlannedSegs \subseteq DOMAIN segs /\ client.off \in Nat
  BY DEF Planning, Client
<1>3. \A k \in PlannedSegs : /\ k \in Nat /\ segs[k].first \in Nat /\ segs[k].last \in Nat
                             /\ segs[k].first <= segs[k].last
  BY <1>1, <1>2 DEF Facts, SegFacts
<1>4. \A k \in PlannedSegs : /\ segs[k].first \in Span(k) /\ segs[k].last \in Span(k)
                             /\ \A o \in Span(k) : /\ o \in Nat
                                                   /\ segs[k].first <= o /\ o <= segs[k].last
  BY <1>3 DEF Span
<1>5. \A o \in client.plan.open \cup client.base : o \in Nat
  BY <1>1 DEF Planning, Facts, LogFacts
<1>6. ASSUME NEW j \in PlannedSegs, NEW k \in PlannedSegs, NEW o \in Span(j), NEW q \in Span(k), j < k
      PROVE  o < q
  <2>1. segs[j].last < segs[k].first
    BY <1>1, <1>2, <1>6 DEF Facts, SegFacts
  <2> QED BY <1>3, <1>4, <2>1
<1>7. ASSUME NEW j \in PlannedSegs, NEW k \in PlannedSegs, NEW o \in Span(j), o \in Span(k)
      PROVE  j = k
  <2>1. j \in Nat /\ k \in Nat /\ o \in Nat /\ ~ (o < o)
    BY <1>3, <1>4
  <2> QED BY <1>6, <1>7, <2>1
<1>8. ASSUME NEW k \in PlannedSegs, NEW o \in Span(k), NEW q \in client.plan.open PROVE o < q
  <2>1. segs[k].last < q
    BY DEF Planning
  <2> QED BY <1>3, <1>4, <1>5, <2>1
<1> QED BY <1>2, <1>3, <1>4, <1>5, <1>6, <1>7, <1>8

LEMMA ReadFullPages ==
    ASSUME World, Pages, NEW damaged \in SUBSET client.plan.items, ReadFull(damaged)
    PROVE  Pages'
<1>1. Planning /\ ReplayReads(damaged)
  BY ReplayPlanning DEF ReadFull
<1>2. /\ Readable(damaged) \in SUBSET Nat /\ IsFiniteSet(Readable(damaged))
      /\ \A o \in Readable(damaged) :
            /\ client.off <= o
            /\ \/ Stops = {} /\ o \in client.plan.open
               \/ \E k \in client.plan.items \ damaged : k < Stop /\ o \in Span(k)
      /\ \A k \in client.plan.items \ damaged : k < Stop =>
            \A o \in Span(k) : client.off <= o => o \in Readable(damaged)
      /\ Stops = {} => \A o \in client.plan.open : client.off <= o => o \in Readable(damaged)
      /\ \A k \in client.plan.tombs : \A o \in Span(k) : client.off <= o => k \in Stops
  BY <1>1, Reached
<1>3. PICK R : R = Readable(damaged)
  OBVIOUS
<1>4. PICK limit : limit = client.limit
  OBVIOUS
<1>5. limit \in 1 .. Cardinality(R)
  <2>1. limit \in Nat \ {0} /\ Cardinality(R) \in Nat
    BY <1>1, <1>2, <1>3, <1>4, FS_CardinalityType DEF Planning, Client
  <2> QED BY <1>3, <1>4, <2>1 DEF ReadFull
<1>6. R \in SUBSET Int /\ IsFiniteSet(R)
  BY <1>2, <1>3
<1>7. \E o \in R : Cardinality({q \in R : q <= o}) = limit
  BY <1>5, <1>6, NthNumber
<1>8. PICK last : last = CHOOSE o \in R : Cardinality({q \in R : q <= o}) = limit
  OBVIOUS
<1>9. last \in Readable(damaged) /\ last \in Nat /\ client.off <= last
  BY <1>2, <1>3, <1>7, <1>8
<1>10. PICK new : new = {q \in Readable(damaged) : q <= last}
  OBVIOUS
<1>11. PICK holes : holes = {o \in Spans(Gaps(damaged)) : o < last}
  OBVIOUS
<1>12. client' = [Gets(new, holes, {}) EXCEPT !.at = "ask", !.off = last + 1]
  BY <1>3, <1>4, <1>8, <1>10, <1>11 DEF ReadFull
<1>13. /\ \A j, k \in PlannedSegs : \A o \in Span(j), q \in Span(k) :
             /\ j < k => o < q
             /\ o = q => j = k
       /\ \A k \in PlannedSegs : \A o \in Span(k), q \in client.plan.open : o < q
       /\ \A k \in PlannedSegs : /\ k \in Nat
                                 /\ \A o \in Span(k) : o \in Nat
       /\ \A o \in client.plan.open \cup client.base : o \in Nat
       /\ client.off \in Nat
  BY <1>1, Follows
<1>14. \A o : o \in Spans(Gaps(damaged)) <=> \E k \in Gaps(damaged) : o \in Span(k) /\ o >= client.off
  BY DEF Spans
<1>15. \A k \in (client.plan.items \ damaged) \cup Gaps(damaged) \cup client.plan.tombs : k \in PlannedSegs
  BY DEF PlannedSegs, Gaps
<1>16. new \in SUBSET Nat /\ \A o \in new : client.off <= o /\ o < last + 1
  <2>1. \A o \in new : o \in Nat /\ client.off <= o /\ o <= last
    BY <1>2, <1>10
  <2> QED BY <1>9, <2>1
<1>17. holes \in SUBSET Nat /\ \A o \in holes : client.off <= o /\ o < last + 1
  <2>1. \A o \in holes : o \in Nat /\ client.off <= o /\ o < last
    BY <1>11, <1>13, <1>14, <1>15
  <2> QED BY <1>9, <2>1
\* A record that is passed over lies before one that was read.
<1>18. ASSUME NEW k \in PlannedSegs, NEW o \in Span(k), o <= last PROVE k < Stop
  <2>1. Stop \in Nat /\ k \in DOMAIN segs /\ (Stops = {} => \A i \in DOMAIN segs : i < Stop)
    BY <1>1, Stopping DEF Planning
  <2>2. CASE Stops = {}
    BY <2>1, <2>2
  <2>3. CASE Stops # {}
    <3>1. PICK j \in client.plan.items \ damaged : j < Stop /\ last \in Span(j)
      BY <1>2, <1>9, <2>3
    <3>2. ~ (j < k)
      BY <1>9, <1>13, <1>15, <1>18, <3>1
    <3> QED BY <1>13, <1>15, <2>1, <3>1, <3>2
  <2> QED BY <2>2, <2>3
<1>19. ASSUME NEW o \in client.base \ Hidden, client.off <= o, o < last + 1
       PROVE  o \in new \cup holes \cup {}
  <2>1. o \in Nat /\ o <= last
    BY <1>9, <1>13, <1>19
  <2>2. CASE o \in client.plan.open
    <3>1. Stops = {}
      <4>1. SUFFICES ASSUME NEW j \in client.plan.items \ damaged, last \in Span(j) PROVE FALSE
        BY <1>2, <1>9
      <4>2. last < o
        BY <1>13, <1>15, <2>2, <4>1
      <4> QED BY <1>9, <2>1, <4>2
    <3> QED BY <1>2, <1>10, <1>19, <2>1, <2>2, <3>1
  <2>3. ASSUME NEW k \in PlannedSegs, o \in Span(k) PROVE o \in new \cup holes
    <3>1. k < Stop
      BY <1>18, <2>1, <2>3
    <3>2. CASE k \in client.plan.items \ damaged
      BY <1>2, <1>10, <1>19, <2>1, <2>3, <3>1, <3>2
    <3>3. CASE k \in Gaps(damaged)
      <4>1. o # last
        <5>1. SUFFICES ASSUME o = last PROVE FALSE
          OBVIOUS
        <5>2. last \notin client.plan.open
          BY <1>13, <2>3, <5>1
        <5>3. PICK j \in client.plan.items \ damaged : last \in Span(j)
          BY <1>2, <1>9, <5>2
        <5>4. j = k
          BY <1>13, <1>15, <2>3, <5>1, <5>3
        <5> QED BY <1>1, <3>3, <5>3, <5>4 DEF Planning, Gaps
      <4>2. o < last /\ o >= client.off
        BY <1>9, <1>13, <1>19, <2>1, <4>1
      <4> QED BY <1>11, <1>14, <2>3, <3>3, <4>2
    <3>4. CASE k \in client.plan.tombs
      <4>1. k \in Stops
        BY <1>2, <1>19, <2>3, <3>4
      <4>2. Stop <= k /\ Stop \in Nat /\ k \in Nat
        BY <1>1, <1>13, <4>1, Stopping
      <4> QED BY <3>1, <4>2
    <3> QED BY <2>3, <3>2, <3>3, <3>4 DEF PlannedSegs, Gaps
  <2> QED BY <1>1, <1>19, <2>2, <2>3 DEF Planning
<1>20. PICK off \in Nat : off = last + 1 /\ client.off <= off
  BY <1>9, <1>13
<1>21. client' = [client EXCEPT
          !.got = @ \cup new, !.holes = @ \cup holes, !.lost = @ \cup {},
          !.twice = @ \cup ((new \cup holes) \cap (client.got \cup client.holes)),
          !.plan = NoPlan, !.at = "ask", !.off = off]
  BY <1>1, <1>12, <1>20 DEF Gets, Planning, Client
<1>22. "ask" \in {"ask", "over"} /\ {} \in SUBSET Nat
  OBVIOUS
<1>23. \A o \in new \cup holes : client.off <= o /\ o < off
  BY <1>16, <1>17, <1>20
<1>24. \A o \in client.base \ Hidden : client.off <= o /\ o < off => o \in new \cup holes \cup {}
  BY <1>19, <1>20
<1>25. Brings(new, holes, {}, "ask", off)
  BY <1>16, <1>17, <1>20, <1>21, <1>22, <1>23, <1>24 DEF Brings
<1> QED BY <1>1, <1>25, ReplayAnswers

LEMMA ReadAllPages ==
    ASSUME World, Pages, NEW damaged \in SUBSET client.plan.items, ReadAll(damaged)
    PROVE  Pages'
<1>1. Planning /\ ReplayReads(damaged) /\ Stops = {}
  BY ReplayPlanning DEF ReadAll
<1>2. /\ Readable(damaged) \in SUBSET Nat
      /\ \A o \in Readable(damaged) : client.off <= o
      /\ \A k \in client.plan.items \ damaged : k < Stop =>
            \A o \in Span(k) : client.off <= o => o \in Readable(damaged)
      /\ \A o \in client.plan.open : client.off <= o => o \in Readable(damaged)
      /\ \A k \in client.plan.tombs : \A o \in Span(k) : client.off <= o => k \in Stops
  BY <1>1, Reached
<1>3. PICK holes : holes = Spans(Gaps(damaged))
  OBVIOUS
<1>4. /\ \A k \in PlannedSegs : \A o \in Span(k) : o \in Nat
      /\ \A o \in client.base : o \in Nat
      /\ client.off \in Nat
  BY <1>1, Follows
<1>5. \A o : o \in holes <=> \E k \in Gaps(damaged) : o \in Span(k) /\ o >= client.off
  BY <1>3 DEF Spans
<1>6. holes \in SUBSET Nat /\ \A o \in holes : client.off <= o
  <2>1. \A o \in holes : o \in Nat /\ client.off <= o
    BY <1>4, <1>5 DEF PlannedSegs, Gaps
  <2> QED BY <2>1
<1>7. ASSUME NEW o \in client.base \ Hidden, client.off <= o
      PROVE  o \in Readable(damaged) \cup holes \cup {}
  <2>1. ASSUME NEW k \in PlannedSegs, o \in Span(k) PROVE o \in Readable(damaged) \cup holes
    <3>1. k < Stop
      BY <1>1, Stopping DEF Planning
    <3>2. CASE k \in client.plan.items \ damaged
      BY <1>2, <1>7, <2>1, <3>1, <3>2
    <3>3. CASE k \in Gaps(damaged)
      BY <1>4, <1>5, <1>7, <2>1, <3>3
    <3>4. CASE k \in client.plan.tombs
      BY <1>1, <1>2, <1>7, <2>1, <3>4
    <3> QED BY <3>2, <3>3, <3>4 DEF PlannedSegs, Gaps
  <2> QED BY <1>1, <1>2, <1>7, <2>1 DEF Planning
<1>8. client' = [client EXCEPT
          !.got = @ \cup Readable(damaged), !.holes = @ \cup holes, !.lost = @ \cup {},
          !.twice = @ \cup ((Readable(damaged) \cup holes) \cap (client.got \cup client.holes)),
          !.plan = NoPlan, !.at = "over", !.off = client.off]
  BY <1>1, <1>3 DEF ReadAll, Gets, Planning, Client
<1>9. "over" \in {"ask", "over"} /\ "over" # "ask" /\ {} \in SUBSET Nat
  OBVIOUS
<1>10. Brings(Readable(damaged), holes, {}, "over", client.off)
  BY <1>2, <1>4, <1>6, <1>7, <1>8, <1>9 DEF Brings
<1> QED BY <1>1, <1>10, ReplayAnswers

\* A run of tombstones has an end.
LEMMA AfterTombs ==
    ASSUME World, NEW k \in Tombs
    PROVE  \E m \in DOMAIN segs : k <= m /\ CursorAfter(k) = segs[m].last + 1
<1>1. Base /\ Facts
  BY WorldFacts
<1>2. DOMAIN segs = 1 .. Len(segs) /\ Len(segs) \in Nat
  BY <1>1 DEF Facts, SegFacts
<1>3. Tombs \subseteq 1 .. Len(segs)
  BY <1>2 DEF Tombs
<1>4. PICK Q : Q = {i \in k .. Len(segs) : i + 1 \notin Tombs}
  OBVIOUS
<1>5. k \in 1 .. Len(segs)
  BY <1>3
<1>6. Q \in SUBSET (k .. Len(segs)) /\ Q \in SUBSET Int /\ Q # {}
  <2>1. Len(segs) \in Q
    BY <1>2, <1>3, <1>4, <1>5
  <2>2. \A i \in Q : i \in k .. Len(segs) /\ i \in Int
    BY <1>2, <1>4, <1>5
  <2> QED BY <2>1, <2>2
<1>7. IsFiniteSet(Q)
  <2>1. IsFiniteSet(k .. Len(segs))
    BY <1>2, <1>5, FS_Interval
  <2> QED BY <1>6, <2>1, FS_Subset
<1>8. PICK m \in Q : \A x \in Q : m <= x
  BY <1>6, <1>7, LeastNumber
<1>9. m \in k .. Len(segs) /\ m + 1 \notin Tombs
  BY <1>4
<1>10. ASSUME NEW i \in k .. m PROVE i \in Tombs
  <2>1. CASE i = k
    BY <2>1
  <2>2. CASE i # k
    <3>1. i - 1 \in k .. Len(segs) /\ i - 1 < m
      BY <1>2, <1>5, <1>9, <2>2
    <3>2. i - 1 \notin Q
      BY <1>5, <1>8, <1>9, <3>1
    <3>3. (i - 1) + 1 \in Tombs
      BY <1>4, <3>1, <3>2
    <3> QED BY <1>5, <1>9, <3>3
  <2> QED BY <2>1, <2>2
<1>11. m \in Tombs /\ m >= k
  BY <1>5, <1>9, <1>10
<1>12. \E n \in Tombs : n >= k /\ n + 1 \notin Tombs /\ \A i \in k .. n : i \in Tombs
  BY <1>9, <1>10, <1>11
<1>13. PICK n : n = CHOOSE j \in Tombs : j >= k /\ j + 1 \notin Tombs /\ \A i \in k .. j : i \in Tombs
  OBVIOUS
<1>14. n \in Tombs /\ n >= k
  BY <1>12, <1>13
<1>15. CursorAfter(k) = segs[n].last + 1
  BY <1>13 DEF CursorAfter
<1>16. n \in DOMAIN segs /\ k <= n
  BY <1>2, <1>3, <1>5, <1>14
<1> QED BY <1>15, <1>16

LEMMA ReadGonePages ==
    ASSUME World, Pages, NEW damaged \in SUBSET client.plan.items, ReadGone(damaged)
    PROVE  Pages'
<1>0. Base /\ Facts
  BY WorldFacts
<1>1. Planning /\ ReplayReads(damaged) /\ Stop \in Tombs
  BY ReplayPlanning DEF ReadGone
<1>2. /\ Readable(damaged) \in SUBSET Nat
      /\ \A k \in client.plan.items \ damaged : k < Stop =>
            \A o \in Span(k) : client.off <= o => o \in Readable(damaged)
      /\ \A k \in client.plan.tombs : \A o \in Span(k) : client.off <= o => k \in Stops
  BY <1>1, Reached
<1>3. /\ \A j, k \in PlannedSegs : \A o \in Span(j), q \in Span(k) : j < k => o < q
      /\ \A k \in PlannedSegs : \A o \in Span(k), q \in client.plan.open : o < q
      /\ \A k \in PlannedSegs : /\ k \in Nat
                                /\ segs[k].first \in Span(k) /\ segs[k].last \in Span(k)
                                /\ \A o \in Span(k) : /\ o \in Nat
                                                      /\ segs[k].first <= o /\ o <= segs[k].last
      /\ \A o \in client.base : o \in Nat
      /\ client.off \in Nat
  BY <1>1, Follows
<1>4. /\ Stops # {} /\ Stop \in Stops /\ Stop \in PlannedSegs /\ Stop \in Nat
      /\ \A k \in Stops : Stop <= k
  <2>1. Stop \in DOMAIN segs
    BY <1>1 DEF Tombs
  <2> QED BY <1>1, <2>1, Stopping
<1>5. PICK first, last \in Nat : /\ first = segs[Stop].first /\ last = segs[Stop].last
                                 /\ first <= last /\ client.off <= last
  <2>1. segs[Stop].first \in Nat /\ segs[Stop].last \in Nat /\ segs[Stop].first <= segs[Stop].last
    BY <1>3, <1>4
  <2>2. segs[Stop].last >= client.off
    BY <1>4 DEF Stops, Ahead
  <2> QED BY <1>3, <2>1, <2>2
<1>6. PICK m \in DOMAIN segs : Stop <= m /\ CursorAfter(Stop) = segs[m].last + 1
  BY <1>1, AfterTombs
<1>7. PICK off \in Nat : off = CursorAfter(Stop) /\ last < off
  <2>1. segs[m].last \in Nat /\ segs[m].first \in Nat /\ segs[m].first <= segs[m].last
    BY <1>0 DEF Facts, SegFacts
  <2>2. Stop = m \/ Stop < m
    <3>1. m \in Nat
      BY <1>0 DEF Facts, SegFacts
    <3> QED BY <1>4, <1>6, <3>1
  <2>3. Stop < m => segs[Stop].last < segs[m].first
    BY <1>0, <1>1, <1>4 DEF Facts, SegFacts, Planning
  <2>4. last <= segs[m].last
    BY <1>5, <2>1, <2>2, <2>3
  <2> QED BY <1>6, <2>1, <2>4
<1>8. PICK from \in Nat : /\ from = Greatest({client.off, first})
                          /\ client.off <= from /\ (from = client.off \/ from = first)
  <2>1. PICK S : S = {client.off, first}
    OBVIOUS
  <2>2. S \in SUBSET Nat /\ S # {}
    BY <1>3, <1>5, <2>1
  <2>3. IsFiniteSet(S)
    <3>1. IsFiniteSet({} \cup {first})
      BY FS_EmptySet, FS_AddElement
    <3>2. IsFiniteSet(({} \cup {first}) \cup {client.off})
      BY <3>1, FS_AddElement
    <3>3. S = ({} \cup {first}) \cup {client.off}
      BY <2>1
    <3> QED BY <3>2, <3>3
  <2>4. Greatest(S) \in S /\ \A x \in S : x <= Greatest(S)
    BY <2>2, <2>3, GreatestIs
  <2> QED BY <2>1, <2>2, <2>4
<1>9. PICK lost : lost = Readable(damaged) \cup Spans(Behind(Gaps(damaged)))
  OBVIOUS
<1>10. PICK holes : holes = from .. off - 1
  OBVIOUS
<1>11. client' = [Gets({}, holes, lost) EXCEPT !.at = "ask", !.off = off]
  BY <1>5, <1>7, <1>8, <1>9, <1>10 DEF ReadGone
<1>12. \A o : o \in Spans(Behind(Gaps(damaged))) <=>
              \E k \in Gaps(damaged) : /\ k < Stop /\ segs[k].last >= client.off
                                          /\ o \in Span(k) /\ o >= client.off
  BY DEF Spans, Behind, Ahead
<1>13. lost \in SUBSET Nat
  <2>1. \A o \in Spans(Behind(Gaps(damaged))) : o \in Nat
    BY <1>3, <1>12 DEF PlannedSegs, Gaps
  <2> QED BY <1>2, <1>9, <2>1
<1>14. holes \in SUBSET Nat /\ \A o \in holes : client.off <= o /\ o < off
  <2>1. \A o \in holes : o \in Nat /\ client.off <= o /\ o < off
    BY <1>3, <1>8, <1>10
  <2> QED BY <2>1
<1>15. ASSUME NEW o \in client.base \ Hidden, client.off <= o, o < off
       PROVE  o \in {} \cup holes \cup lost
  <2>1. o \in Nat
    BY <1>3
  <2>2. CASE first <= o
    BY <1>3, <1>8, <1>10, <1>15, <2>1, <2>2
  <2>3. CASE ~ (first <= o)
    <3>1. o \notin client.plan.open
      BY <1>3, <1>4, <1>5, <2>1, <2>3
    <3>2. PICK k \in PlannedSegs : o \in Span(k)
      BY <1>1, <1>15, <3>1 DEF Planning
    <3>3. k < Stop
      <4>1. k # Stop
        BY <1>3, <1>5, <2>3, <3>2
      <4>2. ~ (Stop < k)
        <5>1. SUFFICES ASSUME Stop < k PROVE FALSE
          OBVIOUS
        <5>2. first < o
          BY <1>3, <1>4, <1>5, <3>2, <5>1
        <5> QED BY <1>5, <2>1, <2>3, <5>2
      <4> QED BY <1>3, <1>4, <4>1, <4>2
    <3>4. CASE k \in client.plan.items \ damaged
      BY <1>2, <1>9, <1>15, <3>2, <3>3, <3>4
    <3>5. CASE k \in Gaps(damaged)
      <4>1. o <= segs[k].last /\ segs[k].last \in Nat
        BY <1>3, <3>2
      <4>2. segs[k].last >= client.off /\ o >= client.off
        BY <1>3, <1>15, <2>1, <4>1
      <4> QED BY <1>9, <1>12, <3>2, <3>3, <3>5, <4>2
    <3>6. CASE k \in client.plan.tombs
      <4>1. Stop <= k /\ k \in Nat
        BY <1>2, <1>3, <1>4, <1>15, <3>2, <3>6
      <4> QED BY <1>4, <3>3, <4>1
    <3> QED BY <3>2, <3>4, <3>5, <3>6 DEF PlannedSegs, Gaps
  <2> QED BY <2>2, <2>3
<1>16. client' = [client EXCEPT
          !.got = @ \cup {}, !.holes = @ \cup holes, !.lost = @ \cup lost,
          !.twice = @ \cup (({} \cup holes) \cap (client.got \cup client.holes)),
          !.plan = NoPlan, !.at = "ask", !.off = off]
  BY <1>1, <1>11 DEF Gets, Planning, Client
<1>17. /\ "ask" \in {"ask", "over"} /\ {} \in SUBSET Nat
       /\ client.off <= off
       /\ \A o \in {} \cup holes : client.off <= o /\ o < off
  <2>1. client.off <= off
    BY <1>3, <1>5, <1>7
  <2>2. {} \cup holes = holes
    OBVIOUS
  <2> QED BY <1>14, <2>1, <2>2
<1>18. Brings({}, holes, lost, "ask", off)
  BY <1>7, <1>13, <1>14, <1>15, <1>16, <1>17 DEF Brings
<1> QED BY <1>1, <1>18, ReplayAnswers
-----------------------------------------------------------------------------
(***************************************************************************)
(* All steps.                                                              *)
(***************************************************************************)

LEMMA InitPages == Init => Pages
<1> SUFFICES ASSUME Init PROVE Pages
    OBVIOUS
<1>1. client = NoClient
  BY DEF Init
<1>2. /\ client.kind = "none" /\ client.at = "off" /\ client.base = {} /\ client.twice = {}
  BY <1>1 DEF NoClient
<1>3. client \in Client
  <2>1. client = [plan |-> NoPlan, kind |-> "none", dev |-> 0, limit |-> 0, at |-> "off", seq |-> 0,
                  off |-> 0, more |-> FALSE, base |-> {}, got |-> {}, holes |-> {}, lost |-> {},
                  twice |-> {}]
    BY <1>1 DEF NoClient
  <2>2. client.plan = NoPlan
    BY <2>1
  <2> HIDE DEF NoPlan
  <2> QED BY <2>1, <2>2 DEF Client
<1>4. Asks
  BY <1>2, <1>3 DEF Asks
<1>5. DeviceCursor /\ DevicePlan /\ ReplayCursor /\ ReplayPlan
  BY <1>2 DEF DeviceCursor, DevicePlan, ReplayCursor, ReplayPlan
<1>6. PagesCover /\ PagesDisjoint
  BY <1>2 DEF PagesCover, PagesDisjoint
<1> QED BY <1>4, <1>5, <1>6 DEF Pages

LEMMA AskingPages == ASSUME World, Pages, Asking PROVE Pages'
<1>1. ASSUME NEW limit \in Limits, NEW d \in Devs, BeginDevice(d, limit) PROVE Pages'
  BY <1>1, BeginDevicePages
<1>2. ASSUME NEW limit \in Limits, BeginHead(limit) \/ BeginFrozen(limit) PROVE Pages'
  BY <1>2, BeginReplayPages
<1>3. ASSUME NEW damaged \in SUBSET client.plan.items, NEW swapped \in SUBSET client.plan.items,
             ReadDevice(damaged, swapped)
      PROVE  Pages'
  BY <1>3, ReadDevicePages
<1>4. CASE PlanDevice
  BY <1>4, PlanDevicePages
<1>5. CASE PlanReplay
  BY <1>5, PlanReplayPages
<1>6. ASSUME NEW damaged \in SUBSET client.plan.items, ReadFull(damaged) PROVE Pages'
  BY <1>6, ReadFullPages
<1>7. ASSUME NEW damaged \in SUBSET client.plan.items, ReadAll(damaged) PROVE Pages'
  BY <1>7, ReadAllPages
<1>8. ASSUME NEW damaged \in SUBSET client.plan.items, ReadGone(damaged) PROVE Pages'
  BY <1>8, ReadGonePages
<1>9. ASSUME NEW damaged \in SUBSET client.plan.items, ReadRetry(damaged) PROVE Pages'
  BY <1>9, RetryPages
<1> QED BY <1>1, <1>2, <1>3, <1>4, <1>5, <1>6, <1>7, <1>8, <1>9 DEF Asking

LEMMA MappedKept == Mapped /\ [Next]_vars => Mapped'
<1> SUFFICES ASSUME Mapped, [Next]_vars PROVE Mapped'
    OBVIOUS
<1>1. CASE entries' = entries
  BY <1>1 DEF Mapped
<1>2. CASE \E b \in Batches : Ingest(b)
  BY <1>2 DEF Ingest, Mapped
<1>3. CASE \E n : Seal(n)
  BY <1>3 DEF Seal, Mapped
<1>4. CASE \E k \in DOMAIN segs : Repair(k)
  BY <1>4 DEF Repair, Mapped
<1>5. CASE Restart
  BY <1>5 DEF Restart, Mapped
<1>6. CASE Asking
  BY <1>1, <1>6, AskingReads DEF Reading, index
<1>7. CASE Writing
  BY <1>1, <1>2, <1>3, <1>7 DEF Writing, SealFull, SealAged, Freeze
<1>8. CASE Upkeep
  BY <1>1, <1>4, <1>5, <1>8 DEF Upkeep, Quarantine, Doom, Leave, Publish, index
<1>9. CASE UNCHANGED vars
  BY <1>1, <1>9 DEF vars, index
<1> QED BY <1>6, <1>7, <1>8, <1>9 DEF Next

LEMMA NextInv == IndInv /\ [Next]_vars => IndInv'
<1> SUFFICES ASSUME World, Pages, [Next]_vars PROVE World' /\ Pages'
    BY MappedKept DEF IndInv
<1>1. World' /\ Grows
  BY NextWorld
<1>2. CASE Writing
  BY <1>1, <1>2, WritingPages
<1>3. CASE Upkeep
  BY <1>1, <1>3, UpkeepPages
<1>4. CASE Asking
  BY <1>1, <1>4, AskingPages
<1>5. CASE UNCHANGED vars
  BY <1>1, <1>5, ClientKept DEF vars, SameClient
<1> QED BY <1>1, <1>2, <1>3, <1>4, <1>5 DEF Next

\* While segments are sealed, damaged, repaired and evicted between its pages
\* and during them, the client's answers, plan and cursor fit together.
THEOREM PagesHold == Spec => []IndInv
<1>1. Init => Mapped
  BY DEF Init, Mapped
<1>2. Init => IndInv
  BY <1>1, InitWorld, InitPages DEF IndInv
<1> QED BY <1>2, NextInv, PTL DEF Spec

\* A client that has read to the end was given every event there was when it
\* began, or told that it is missing, but for the cases PagesCover names.
THEOREM NothingPassedOver == Spec => []PagesCover
<1>1. IndInv => PagesCover
  BY DEF IndInv, Pages
<1> QED BY <1>1, PagesHold, PTL

\* No event is given twice, however the index and the segments change between
\* two pages.
THEOREM NothingReadTwice == Spec => []PagesDisjoint
<1>1. IndInv => PagesDisjoint
  BY DEF IndInv, Pages
<1> QED BY <1>1, PagesHold, PTL

\* Every variable of Reads has its type.
THEOREM ReadsTypes == Spec => []TypeOK
<1>1. ASSUME IndInv PROVE TypeOK
  <2>1. World /\ Pages /\ Base /\ Facts
    BY <1>1, WorldFacts DEF IndInv
  <2>2. NextOffset <= MaxLog /\ NextOffset \in Nat /\ MaxLog \in Nat
    BY <2>1, ConstantsAssumption DEF World, Logged, NextOffset, Facts, LogFacts
  <2>3. \A o \in Recs : o \in Offsets
    BY <2>2 DEF Recs, Offsets
  <2>4. ASSUME NEW o \in 0 .. NextOffset - 1
        PROVE  log[o + 1].ev \in Events /\ log[o + 1].base \in 0 .. o
    <3>1. o \in Recs
      BY DEF Recs
    <3>2. log[o + 1] \in Record /\ log[o + 1].base <= o /\ o \in Nat
      BY <2>1, <3>1 DEF World, Logged, Facts, LogFacts
    <3> QED BY <3>2 DEF Record
  <2>5. \A k \in DOMAIN segs : segs[k] \in Segment
    <3> SUFFICES ASSUME NEW k \in DOMAIN segs PROVE segs[k] \in Segment
        OBVIOUS
    <3>1. segs[k] \in Ranges /\ segs[k].first <= segs[k].last /\ segs[k].last < NextOffset
      BY <2>1 DEF World, Tiled, Facts, SegFacts
    <3>2. segs[k].first \in Offsets /\ segs[k].last \in Offsets
      BY <2>2, <3>1 DEF Ranges, Offsets
    <3> QED BY <3>1, <3>2 DEF Ranges, Segment
  <2>6. segs \in Seq(Segment)
    <3>1. segs \in Seq(Ranges)
      BY <2>1 DEF World, Tiled
    <3> QED BY <2>5, <3>1
  <2>7. \A k \in DOMAIN segs :
           /\ segs[k].first = (IF k = 1 THEN 0 ELSE segs[k - 1].last + 1)
           /\ segs[k].first <= segs[k].last /\ segs[k].last < NextOffset
    BY <2>1 DEF World, Tiled
  <2>8. ASSUME NEW d \in Devs, NEW e \in entries[d] PROVE e \in Entry
    <3>1. PICK o \in Recs : e = EntryOf(o)
      BY <2>1 DEF World, Entered
    <3>2. EntryOf(o).pos \in Nat /\ Where(o) \in DOMAIN segs \cup {0}
      BY <2>1, <3>1 DEF Facts, LeadFacts
    <3>3. Where(o) \in 0 .. MaxLog
      BY <2>1, <2>2, <3>2 DEF Facts, SegFacts
    <3> QED BY <2>3, <3>1, <3>2, <3>3 DEF EntryOf, Entry
  <2>9. entries \in [Devs -> SUBSET Entry]
    <3>1. \A d \in Devs : entries[d] \in SUBSET Entry
      BY <2>8
    <3>2. entries = [d \in Devs |-> entries[d]]
      BY <1>1 DEF IndInv, Mapped
    <3> QED BY <3>1, <3>2
  <2> QED BY <2>1, <2>2, <2>3, <2>4, <2>6, <2>7, <2>9
          DEF TypeOK, World, Logged, Known, Pages, Asks, Client
<1> QED BY <1>1, PagesHold, PTL
=============================================================================
