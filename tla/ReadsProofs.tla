---------------------------- MODULE ReadsProofs ----------------------------
(***************************************************************************)
(* Theorems about Reads, for every value of its constants.                 *)
(*                                                                         *)
(* The store keeps World of ReadsInv, and what follows from it of event    *)
(* ids, flags and the index.  The client that reads is the matter of       *)
(* PagesProofs.                                                            *)
(***************************************************************************)
EXTENDS ReadsInv, FiniteOrder

-----------------------------------------------------------------------------
(***************************************************************************)
(* What the invariant says of a state.                                     *)
(***************************************************************************)

Base == log \in Seq(Record) /\ Tiled

LogFacts ==
    /\ NextOffset \in Nat
    /\ \A o \in Recs :
          /\ o \in Nat /\ log[o + 1] \in Record
          /\ Event(o) \in Events /\ Dev(o) \in Devs /\ Id(o) \in Ids
          /\ Event(o).seq \in Nat \ {0} /\ Event(o).ts \in Nat \ {0}

SegFacts ==
    /\ Len(segs) \in Nat /\ DOMAIN segs = 1 .. Len(segs) /\ 0 \notin DOMAIN segs
    /\ \A k \in DOMAIN segs :
          /\ segs[k] \in Ranges
          /\ segs[k].first \in Nat /\ segs[k].last \in Nat
          /\ segs[k].first <= segs[k].last /\ segs[k].last < Sealed
          /\ k <= segs[k].last + 1
    /\ Sealed \in Nat /\ Sealed <= NextOffset
    /\ Len(segs) <= Sealed
    /\ \A j, k \in DOMAIN segs : j < k => segs[j].last < segs[k].first

\* Where an offset is.
PlaceFacts ==
    /\ Open \subseteq Recs
    /\ \A o \in Open : Where(o) = 0
    /\ \A k \in DOMAIN segs : \A o \in Span(k) :
          o \in Recs /\ o \in Nat /\ o < Sealed /\ o \notin Open /\ Where(o) = k
    /\ \A o \in Recs : o < Sealed => Where(o) \in DOMAIN segs /\ o \in Span(Where(o))
    /\ \A o \in Recs : o \in Open <=> Sealed <= o

\* An entry leads to its record.
LeadFacts ==
    \A o \in Recs :
        /\ EntryOf(o).off = o /\ EntryOf(o).seg = Where(o) /\ Found(EntryOf(o)) = o
        /\ EntryOf(o).pos \in Nat
        /\ Where(o) \in DOMAIN segs \cup {0}
        /\ Where(o) = 0 <=> o \in Open
        /\ Where(o) # 0 => o \in Span(Where(o))

LEMMA Records ==
    ASSUME log \in Seq(Record) PROVE LogFacts
<1>1. NextOffset \in Nat
  BY DEF NextOffset
<1>2. ASSUME NEW o \in Recs PROVE o \in Nat /\ log[o + 1] \in Record
  BY <1>1 DEF Recs, NextOffset
<1>3. ASSUME NEW o \in Recs PROVE Event(o) \in Events
  BY <1>2 DEF Event, Record
<1>4. ASSUME NEW o \in Recs PROVE Dev(o) \in Devs /\ Id(o) \in Ids
  BY <1>3 DEF Dev, Id, Devs, Ids
<1>5. ASSUME NEW o \in Recs
      PROVE  Event(o).seq \in Nat \ {0} /\ Event(o).ts \in Nat \ {0}
  BY <1>3, ConstantsAssumption
<1> QED BY <1>1, <1>2, <1>3, <1>4, <1>5 DEF LogFacts

LEMMA Tiles ==
    ASSUME NextOffset \in Nat, Tiled PROVE SegFacts
<1>1. Len(segs) \in Nat /\ DOMAIN segs = 1 .. Len(segs)
  BY DEF Tiled
<1>2. \A k \in DOMAIN segs : segs[k] \in Ranges
  BY DEF Tiled
<1>3. \A k \in DOMAIN segs : segs[k].first \in Nat /\ segs[k].last \in Nat
  BY <1>2 DEF Ranges
<1>4. \A k \in DOMAIN segs :
        /\ segs[k].first <= segs[k].last /\ segs[k].last < NextOffset /\ k <= segs[k].last + 1
  BY DEF Tiled
<1>5. \A j, k \in DOMAIN segs : j < k => segs[j].last < segs[k].first
  BY DEF Tiled
<1>6. CASE segs = <<>>
  <2>1. Sealed = 0 /\ Len(segs) = 0
    BY <1>6 DEF Sealed
  <2> QED BY <1>1, <1>2, <1>3, <2>1 DEF SegFacts
<1>7. CASE segs # <<>>
  <2>1. Len(segs) \in DOMAIN segs
    BY <1>1, <1>7 DEF Tiled
  <2>2. Sealed = segs[Len(segs)].last + 1
    BY <1>7 DEF Sealed
  <2>3. Sealed \in Nat /\ Sealed <= NextOffset /\ Len(segs) <= Sealed
    BY <1>3, <1>4, <2>1, <2>2
  <2>4. ASSUME NEW k \in DOMAIN segs PROVE segs[k].last < Sealed
    <3>1. k = Len(segs) \/ k < Len(segs)
      BY <1>1
    <3>2. CASE k < Len(segs)
      <4>1. segs[k].last < segs[Len(segs)].first
        BY <1>5, <2>1, <3>2
      <4> QED BY <1>3, <1>4, <2>1, <2>2, <4>1
    <3> QED BY <1>3, <2>2, <3>1, <3>2
  <2> QED BY <1>1, <1>2, <1>3, <1>4, <1>5, <2>3, <2>4 DEF SegFacts
<1> QED BY <1>6, <1>7 DEF SegFacts

LEMMA Places ==
    ASSUME NextOffset \in Nat, Tiled PROVE PlaceFacts
<1>1. /\ DOMAIN segs = 1 .. Len(segs) /\ Len(segs) \in Nat
      /\ Sealed \in Nat /\ Sealed <= NextOffset
      /\ \A k \in DOMAIN segs :
            /\ segs[k].first \in Nat /\ segs[k].last \in Nat /\ segs[k].last < Sealed
      /\ \A j, k \in DOMAIN segs : j < k => segs[j].last < segs[k].first
  BY Tiles DEF SegFacts
<1>2. ASSUME NEW k \in DOMAIN segs, NEW o \in Span(k)
      PROVE  o \in Recs /\ o \in Nat /\ o < Sealed /\ o \notin Open
  BY <1>1 DEF Span, Recs, Open
<1>3. ASSUME NEW k \in DOMAIN segs, NEW o \in Span(k), NEW j \in DOMAIN segs, o \in Span(j)
      PROVE  j = k
  <2>1. j \in Int /\ k \in Int
    BY <1>1
  <2>2. CASE j < k
    BY <1>1, <1>3, <2>2 DEF Span
  <2>3. CASE k < j
    BY <1>1, <1>3, <2>3 DEF Span
  <2> QED BY <2>1, <2>2, <2>3
<1>4. ASSUME NEW k \in DOMAIN segs, NEW o \in Span(k) PROVE Where(o) = k
  <2>1. Where(o) = CHOOSE j \in DOMAIN segs : o \in Span(j)
    BY <1>2 DEF Where
  <2> QED BY <1>3, <2>1
<1>5. ASSUME NEW o \in Recs, o < Sealed
      PROVE  Where(o) \in DOMAIN segs /\ o \in Span(Where(o))
  <2>1. o \in 0 .. Sealed - 1
    BY <1>1, <1>5 DEF Recs
  <2>2. PICK k \in DOMAIN segs : o \in Span(k)
    BY <2>1 DEF Tiled
  <2> QED BY <1>4, <2>2
<1>6. Open \subseteq Recs /\ \A o \in Recs : o \in Open <=> Sealed <= o
  BY <1>1 DEF Open, Recs
<1>7. \A o \in Open : Where(o) = 0
  BY DEF Where
<1> QED BY <1>2, <1>4, <1>5, <1>6, <1>7 DEF PlaceFacts

LEMMA Leads ==
    ASSUME NextOffset \in Nat, Tiled PROVE LeadFacts
<1> SUFFICES ASSUME NEW o \in Recs
             PROVE  /\ EntryOf(o).off = o /\ EntryOf(o).seg = Where(o)
                    /\ Found(EntryOf(o)) = o /\ EntryOf(o).pos \in Nat
                    /\ Where(o) \in DOMAIN segs \cup {0}
                    /\ Where(o) = 0 <=> o \in Open
                    /\ Where(o) # 0 => o \in Span(Where(o))
    BY DEF LeadFacts
<1>1. /\ Sealed \in Nat /\ 0 \notin DOMAIN segs
      /\ \A k \in DOMAIN segs : segs[k].first \in Nat /\ segs[k].last \in Nat
  BY Tiles DEF SegFacts
<1>2. o \in Nat
  BY DEF Recs
<1>3. EntryOf(o).off = o /\ EntryOf(o).seg = Where(o) /\ EntryOf(o).pos = o - Start(Where(o))
  BY DEF EntryOf
<1>4. CASE o < Sealed
  <2>1. Where(o) \in DOMAIN segs /\ o \in Span(Where(o)) /\ o \notin Open
    BY <1>4, Places DEF PlaceFacts
  <2>2. Start(Where(o)) = segs[Where(o)].first
    BY <1>1, <2>1 DEF Start
  <2>3. Found(EntryOf(o)) = o
    BY <1>1, <1>2, <1>3, <2>1, <2>2 DEF Found
  <2>4. EntryOf(o).pos \in Nat
    BY <1>1, <1>2, <1>3, <2>1, <2>2 DEF Span
  <2> QED BY <1>1, <1>3, <2>1, <2>3, <2>4
<1>5. CASE ~ (o < Sealed)
  <2>1. o \in Open /\ Where(o) = 0
    BY <1>1, <1>2, <1>5, Places DEF PlaceFacts
  <2>2. Start(Where(o)) = Sealed
    BY <2>1 DEF Start
  <2> QED BY <1>1, <1>2, <1>3, <1>5, <2>1, <2>2 DEF Found
<1> QED BY <1>4, <1>5

Facts == LogFacts /\ SegFacts /\ PlaceFacts /\ LeadFacts

LEMMA Now == Base => Facts
<1> SUFFICES ASSUME Base PROVE Facts
    OBVIOUS
<1>1. LogFacts
  BY Records DEF Base
<1>2. NextOffset \in Nat /\ Tiled
  BY <1>1 DEF Base, LogFacts
<1> QED BY <1>1, <1>2, Tiles, Places, Leads DEF Facts

LEMMA Then == Base' => Facts'
BY Now, PTL

-----------------------------------------------------------------------------
(***************************************************************************)
(* Segments.                                                               *)
(***************************************************************************)

\* What no step takes back.
Grows ==
    /\ NextOffset <= NextOffset' /\ \A o \in Recs : log'[o + 1] = log[o + 1]
    /\ DOMAIN segs \subseteq DOMAIN segs'
    /\ \A k \in DOMAIN segs : segs'[k].first = segs[k].first /\ segs'[k].last = segs[k].last
    /\ Sealed <= Sealed'
    /\ frz = NoFreeze \/ (frz' # NoFreeze /\ frz'.segs = frz.segs /\ frz'.end = frz.end)
    /\ forgotten \subseteq forgotten'

\* An offset that was sealed stays where it was.
Stays ==
    /\ Recs \subseteq Recs'
    /\ \A o \in Recs : Event(o)' = Event(o) /\ Dev(o)' = Dev(o) /\ Id(o)' = Id(o)
    /\ \A k \in DOMAIN segs : Span(k)' = Span(k)
    /\ \A o \in Recs : o < Sealed => Where(o)' = Where(o)

LEMMA GrowsStays == ASSUME Base, Base', Grows PROVE Stays
<1>1. Facts /\ Facts'
  BY Now, Then
<1>2. Recs \subseteq Recs'
  <2>1. NextOffset \in Nat /\ NextOffset' \in Nat
    BY <1>1 DEF Facts, LogFacts
  <2>2. NextOffset <= NextOffset'
    BY DEF Grows
  <2>3. ASSUME NEW o \in Recs PROVE o \in Recs'
    BY <2>1, <2>2 DEF Recs, NextOffset
  <2> QED BY <2>3
<1>3. \A o \in Recs : Event(o)' = Event(o)
  BY DEF Event, Grows
<1>4. \A k \in DOMAIN segs : Span(k)' = Span(k)
  BY DEF Span, Grows
<1>5. ASSUME NEW o \in Recs, o < Sealed PROVE Where(o)' = Where(o)
  <2>1. Where(o) \in DOMAIN segs /\ o \in Span(Where(o))
    BY <1>1, <1>5 DEF Facts, PlaceFacts
  <2>3. \A k \in DOMAIN segs' : \A q \in Span(k)' : Where(q)' = k
    BY <1>1 DEF Facts, PlaceFacts
  <2>4. PICK k : k = Where(o)
    OBVIOUS
  <2>5. k \in DOMAIN segs' /\ o \in Span(k)'
    BY <1>4, <2>1, <2>4 DEF Grows
  <2> QED BY <2>3, <2>4, <2>5
<1> QED BY <1>2, <1>3, <1>4, <1>5 DEF Stays, Dev, Id

\* The status of segments changes, and nothing else.
Relabels ==
    /\ segs' \in Seq(Ranges) /\ DOMAIN segs' = DOMAIN segs
    /\ \A k \in DOMAIN segs : segs'[k].first = segs[k].first /\ segs'[k].last = segs[k].last

LEMMA Relabelled ==
    ASSUME Base, log' = log, Relabels
    PROVE  /\ Base' /\ Sealed' = Sealed /\ Recs' = Recs /\ Open' = Open
           /\ \A o \in Recs : Where(o)' = Where(o) /\ EntryOf(o)' = EntryOf(o)
<1>1. Facts /\ NextOffset' = NextOffset
  BY Now DEF NextOffset
<1>2. Len(segs') = Len(segs)
  BY <1>1 DEF Relabels, Facts, SegFacts
<1>3. \A k \in DOMAIN segs : Span(k)' = Span(k)
  BY DEF Span, Relabels
<1>4. Sealed' = Sealed
  <2>1. CASE segs = <<>>
    BY <1>1, <1>2, <2>1 DEF Sealed, Relabels, Facts, SegFacts
  <2>2. CASE segs # <<>>
    <3>1. Len(segs) \in DOMAIN segs /\ segs' # <<>>
      BY <1>1, <1>2, <2>2 DEF Relabels, Facts, SegFacts, Base, Tiled
    <3> QED BY <1>2, <2>2, <3>1 DEF Sealed, Relabels
  <2> QED BY <2>1, <2>2
<1>5. Recs' = Recs /\ Open' = Open
  BY <1>1, <1>4 DEF Recs, Open
<1>6. Tiled'
  <2>1. \A k \in DOMAIN segs :
          /\ segs[k].first = (IF k = 1 THEN 0 ELSE segs[k - 1].last + 1)
          /\ segs[k].first <= segs[k].last /\ segs[k].last < NextOffset
          /\ k <= segs[k].last + 1
    BY DEF Base, Tiled
  <2>2. \A k \in DOMAIN segs : k # 1 => k - 1 \in DOMAIN segs
    BY <1>1 DEF Facts, SegFacts
  <2>3. \A k \in DOMAIN segs' :
          /\ segs'[k].first = (IF k = 1 THEN 0 ELSE segs'[k - 1].last + 1)
          /\ segs'[k].first <= segs'[k].last /\ segs'[k].last < NextOffset'
          /\ k <= segs'[k].last + 1
    BY <1>1, <2>1, <2>2 DEF Relabels
  <2>4. \A j, k \in DOMAIN segs' : j < k => segs'[j].last < segs'[k].first
    BY <1>1 DEF Relabels, Facts, SegFacts
  <2>5. \A o \in 0 .. Sealed' - 1 : \E k \in DOMAIN segs' : o \in Span(k)'
    <3>1. \A o \in 0 .. Sealed - 1 : \E k \in DOMAIN segs : o \in Span(k)
      BY DEF Base, Tiled
    <3> QED BY <1>3, <1>4, <3>1 DEF Relabels
  <2> QED BY <2>3, <2>4, <2>5 DEF Tiled, Relabels
<1>7. Base' /\ Facts'
  <2>1. Base'
    BY <1>6 DEF Base
  <2> QED BY <2>1, Then
<1>8. ASSUME NEW o \in Recs PROVE Where(o)' = Where(o) /\ EntryOf(o)' = EntryOf(o)
  <2>1. Where(o)' = Where(o)
    <3>1. CASE o \in Open
      BY <1>1, <1>5, <1>7, <3>1 DEF Facts, PlaceFacts
    <3>2. CASE o \notin Open
      <4>1. PICK k : k = Where(o)
        OBVIOUS
      <4>2. k \in DOMAIN segs' /\ o \in Span(k)'
        BY <1>1, <1>3, <3>2, <4>1 DEF Relabels, Facts, PlaceFacts, LeadFacts
      <4> QED BY <1>7, <4>1, <4>2 DEF Facts, PlaceFacts
    <3> QED BY <3>1, <3>2
  <2>2. Start(Where(o))' = Start(Where(o))
    <3>1. Where(o) \in DOMAIN segs \cup {0}
      BY <1>1 DEF Facts, LeadFacts
    <3> QED BY <1>1, <1>4, <2>1, <3>1 DEF Start, Relabels, Facts, SegFacts
  <2> QED BY <2>1, <2>2 DEF EntryOf
<1> QED BY <1>4, <1>5, <1>7, <1>8

\* The n oldest open records become a segment.
LEMMA Appended ==
    ASSUME Base, log' = log, NEW n \in Nat \ {0}, Sealed + n <= NextOffset,
           segs' = Append(segs, [first |-> Sealed, last |-> Sealed + n - 1,
                                 status |-> "sealed", index |-> TRUE])
    PROVE  /\ Base' /\ Sealed' = Sealed + n /\ Recs' = Recs
           /\ DOMAIN segs' = DOMAIN segs \cup {Len(segs) + 1}
           /\ \A k \in DOMAIN segs : segs'[k] = segs[k]
           /\ segs'[Len(segs) + 1].first = Sealed
           /\ \A o \in Recs :
                 Where(o)' = IF o \in Open /\ o < Sealed + n THEN Len(segs) + 1 ELSE Where(o)
<1> DEFINE r == [first |-> Sealed, last |-> Sealed + n - 1, status |-> "sealed", index |-> TRUE]
<1>0. PICK k0 : k0 = Len(segs) + 1
  OBVIOUS
<1>1. Facts /\ NextOffset' = NextOffset /\ NextOffset \in Nat /\ Recs' = Recs
  BY Now DEF NextOffset, Facts, LogFacts, Recs
<1>2. Len(segs) \in Nat /\ DOMAIN segs = 1 .. Len(segs) /\ Sealed \in Nat /\ Len(segs) <= Sealed
  BY <1>1 DEF Facts, SegFacts
<1>3. r \in Ranges /\ segs \in Seq(Ranges)
  BY <1>2 DEF Ranges, Base, Tiled
<1>4. /\ segs' \in Seq(Ranges) /\ Len(segs') = k0 /\ segs'[k0] = r
      /\ DOMAIN segs' = 1 .. k0
      /\ \A k \in DOMAIN segs : segs'[k] = segs[k]
  <2> HIDE DEF r
  <2>1. segs' = Append(segs, r)
    BY DEF r
  <2> QED BY <1>0, <1>2, <1>3, <2>1
<1>5. segs'[k0].first = Sealed /\ segs'[k0].last = Sealed + n - 1
  BY <1>4
<1> HIDE DEF r
<1>6. DOMAIN segs' = DOMAIN segs \cup {k0} /\ k0 \notin DOMAIN segs
  BY <1>0, <1>2, <1>4
<1>7. Sealed' = Sealed + n
  <2>1. segs' # <<>>
    BY <1>0, <1>2, <1>4
  <2>2. Sealed' = segs'[k0].last + 1
    BY <1>4, <2>1 DEF Sealed
  <2> QED BY <1>2, <1>5, <2>2
<1>8. Span(k0)' = Sealed .. Sealed + n - 1 /\ \A k \in DOMAIN segs : Span(k)' = Span(k)
  BY <1>4, <1>5 DEF Span
<1>9. Tiled'
  <2>1. k0 # 1 => segs[k0 - 1].last + 1 = Sealed /\ segs'[k0 - 1] = segs[k0 - 1]
    <3>1. k0 # 1 => segs # <<>> /\ k0 - 1 \in DOMAIN segs /\ k0 - 1 = Len(segs)
      BY <1>0, <1>2
    <3> QED BY <1>4, <3>1 DEF Sealed
  <2>2. k0 = 1 => Sealed = 0
    <3>1. k0 = 1 => segs = <<>>
      BY <1>0, <1>2, <1>3
    <3> QED BY <3>1 DEF Sealed
  <2>3. \A k \in DOMAIN segs :
          /\ segs[k].first = (IF k = 1 THEN 0 ELSE segs[k - 1].last + 1)
          /\ segs[k].first <= segs[k].last /\ segs[k].last < NextOffset
          /\ k <= segs[k].last + 1
    BY DEF Base, Tiled
  <2>4. \A k \in DOMAIN segs : k # 1 => k - 1 \in DOMAIN segs
    BY <1>2
  <2>5. \A k \in DOMAIN segs' :
          /\ segs'[k].first = (IF k = 1 THEN 0 ELSE segs'[k - 1].last + 1)
          /\ segs'[k].first <= segs'[k].last /\ segs'[k].last < NextOffset'
          /\ k <= segs'[k].last + 1
    <3> SUFFICES ASSUME NEW k \in DOMAIN segs'
                 PROVE  /\ segs'[k].first = (IF k = 1 THEN 0 ELSE segs'[k - 1].last + 1)
                        /\ segs'[k].first <= segs'[k].last /\ segs'[k].last < NextOffset'
                        /\ k <= segs'[k].last + 1
        OBVIOUS
    <3>1. CASE k \in DOMAIN segs
      BY <1>1, <1>4, <2>3, <2>4, <3>1
    <3>2. CASE k = k0
      <4>1. segs'[k].first = Sealed /\ segs'[k].last = Sealed + n - 1
        BY <1>5, <3>2
      <4>2. k # 1 => segs'[k - 1].last + 1 = Sealed
        BY <2>1, <3>2
      <4>3. k = 1 => Sealed = 0
        BY <2>2, <3>2
      <4>4. k <= Sealed + 1 /\ Sealed <= Sealed + n - 1 /\ Sealed + n - 1 < NextOffset
        BY <1>0, <1>1, <1>2, <3>2
      <4>5. k <= segs'[k].last + 1 /\ k \in Int
        BY <1>0, <1>2, <3>2, <4>1, <4>4
      <4> QED BY <1>1, <4>1, <4>2, <4>3, <4>4, <4>5
    <3> QED BY <1>6, <3>1, <3>2
  <2>6. \A j, k \in DOMAIN segs' : j < k => segs'[j].last < segs'[k].first
    <3> SUFFICES ASSUME NEW j \in DOMAIN segs', NEW k \in DOMAIN segs', j < k
                 PROVE  segs'[j].last < segs'[k].first
        OBVIOUS
    <3>1. j \in DOMAIN segs
      BY <1>0, <1>2, <1>4
    <3>2. CASE k \in DOMAIN segs
      BY <1>1, <1>4, <3>1, <3>2 DEF Facts, SegFacts
    <3>3. CASE k = k0
      BY <1>1, <1>4, <1>5, <3>1, <3>3 DEF Facts, SegFacts
    <3> QED BY <1>6, <3>2, <3>3
  <2>7. \A o \in 0 .. Sealed + n - 1 : \E k \in DOMAIN segs' : o \in Span(k)'
    <3> SUFFICES ASSUME NEW o \in 0 .. Sealed + n - 1
                 PROVE  \E k \in DOMAIN segs' : o \in Span(k)'
        OBVIOUS
    <3>1. CASE o < Sealed
      <4>1. o \in 0 .. Sealed - 1
        BY <1>2, <3>1
      <4>2. \E k \in DOMAIN segs : o \in Span(k)
        BY <4>1 DEF Base, Tiled
      <4> QED BY <1>6, <1>8, <4>2
    <3>2. CASE ~ (o < Sealed)
      <4>1. o \in Span(k0)'
        BY <1>2, <1>8, <3>2
      <4> QED BY <1>6, <4>1
    <3> QED BY <3>1, <3>2
  <2>8. \A o \in 0 .. Sealed' - 1 : \E k \in DOMAIN segs' : o \in Span(k)'
    <3>1. 0 .. Sealed' - 1 = 0 .. Sealed + n - 1
      BY <1>2, <1>7
    <3> QED BY <2>7, <3>1
  <2>9. segs' \in Seq(Ranges)
    BY <1>4
  <2> QED BY <2>5, <2>6, <2>8, <2>9 DEF Tiled
<1>10. Base' /\ Facts'
  <2>1. Base'
    BY <1>9 DEF Base
  <2> QED BY <2>1, Then
<1>11. ASSUME NEW o \in Recs
       PROVE  Where(o)' = IF o \in Open /\ o < Sealed + n THEN k0 ELSE Where(o)
  <2>0. o \in Nat /\ o < NextOffset /\ o \in Recs'
    BY <1>1 DEF Recs
  <2>1. CASE o \in Open /\ o < Sealed + n
    <3>1. Sealed <= o
      BY <1>1, <2>1 DEF Facts, PlaceFacts
    <3>2. o \in Span(k0)'
      BY <1>2, <1>8, <2>0, <2>1, <3>1
    <3> QED BY <1>6, <1>10, <2>1, <3>2 DEF Facts, PlaceFacts
  <2>2. CASE o \in Open /\ ~ (o < Sealed + n)
    <3>1. o \in Open'
      BY <1>1, <1>2, <1>7, <2>0, <2>2 DEF Open
    <3>2. Where(o)' = 0 /\ Where(o) = 0
      BY <1>1, <1>10, <2>2, <3>1 DEF Facts, PlaceFacts
    <3> QED BY <2>2, <3>2
  <2>3. CASE o \notin Open
    <3>1. PICK k : k = Where(o)
      OBVIOUS
    <3>2. k \in DOMAIN segs' /\ o \in Span(k)'
      BY <1>1, <1>6, <1>8, <2>3, <3>1 DEF Facts, LeadFacts
    <3>3. Where(o)' = k
      BY <1>10, <3>2 DEF Facts, PlaceFacts
    <3> QED BY <2>3, <3>1, <3>3
  <2> QED BY <2>1, <2>2, <2>3
<1> QED BY <1>0, <1>1, <1>4, <1>5, <1>6, <1>7, <1>10, <1>11

\* The entry of an offset after a seal.
Resealed(e, n) ==
    IF e.seg # 0 THEN e
    ELSE IF e.off <= Sealed + n - 1
         THEN [off |-> e.off, seg |-> Len(segs) + 1, pos |-> e.off - Sealed]
    ELSE Shifted(e, n)

LEMMA SealKeeps ==
    ASSUME Base, Entered, log' = log, forgotten' = forgotten,
           NEW n \in Nat \ {0}, Sealed + n <= NextOffset, Seal(n)
    PROVE  /\ Base' /\ Entered' /\ Sealed' = Sealed + n
           /\ DOMAIN segs' = DOMAIN segs \cup {Len(segs) + 1}
           /\ \A k \in DOMAIN segs : segs'[k] = segs[k]
<1> DEFINE k0 == Len(segs) + 1
<1>1. /\ Base' /\ Sealed' = Sealed + n /\ Recs' = Recs
      /\ DOMAIN segs' = DOMAIN segs \cup {k0}
      /\ \A k \in DOMAIN segs : segs'[k] = segs[k]
      /\ segs'[k0].first = Sealed
      /\ \A o \in Recs : Where(o)' = IF o \in Open /\ o < Sealed + n THEN k0 ELSE Where(o)
  <2>1. segs' = Append(segs, [first |-> Sealed, last |-> Sealed + n - 1,
                              status |-> "sealed", index |-> TRUE])
    BY DEF Seal
  <2> QED BY <2>1, Appended
<1>2. Facts /\ Facts'
  BY <1>1, Now, Then
<1>3. Sealed \in Nat /\ Len(segs) \in Nat /\ 0 \notin DOMAIN segs
  BY <1>2 DEF Facts, SegFacts
<1>4. ASSUME NEW o \in Recs PROVE Resealed(EntryOf(o), n) = EntryOf(o)'
  <2>1. o \in Nat /\ EntryOf(o).off = o /\ EntryOf(o).seg = Where(o)
    BY <1>2 DEF Facts, LogFacts, LeadFacts
  <2>2. o \in Open <=> Where(o) = 0
    BY <1>2 DEF Facts, LeadFacts
  <2>3. Where(o) \in DOMAIN segs \cup {0}
    BY <1>2 DEF Facts, LeadFacts
  <2>4. CASE Where(o) # 0
    <3>1. Where(o)' = Where(o)
      BY <1>1, <2>2, <2>4
    <3>2. PICK k \in DOMAIN segs : k = Where(o)
      BY <2>3, <2>4
    <3>3. Start(k) = segs[k].first /\ Start(k)' = segs'[k].first
      BY <1>3 DEF Start
    <3>4. EntryOf(o) = [off |-> o, seg |-> k, pos |-> o - segs[k].first]
      BY <3>2, <3>3 DEF EntryOf
    <3>5. EntryOf(o)' = [off |-> o, seg |-> k, pos |-> o - segs'[k].first]
      BY <3>1, <3>2, <3>3 DEF EntryOf
    <3>6. EntryOf(o)' = EntryOf(o)
      BY <1>1, <3>4, <3>5
    <3> QED BY <2>1, <2>4, <3>6 DEF Resealed
  <2>5. CASE Where(o) = 0 /\ o < Sealed + n
    <3>1. Where(o)' = k0
      BY <1>1, <2>2, <2>5
    <3>2. PICK k : k = k0
      OBVIOUS
    <3>3. Start(k)' = Sealed
      BY <1>1, <1>3, <3>2 DEF Start
    <3>4. EntryOf(o)' = [off |-> o, seg |-> k, pos |-> o - Sealed]
      BY <3>1, <3>2, <3>3 DEF EntryOf
    <3>5. o <= Sealed + n - 1
      BY <1>3, <2>1, <2>5
    <3> QED BY <2>1, <2>5, <3>2, <3>4, <3>5 DEF Resealed
  <2>6. CASE Where(o) = 0 /\ ~ (o < Sealed + n)
    <3>1. Where(o)' = 0
      BY <1>1, <2>6
    <3>2. Start(0) = Sealed /\ Start(0)' = Sealed + n
      BY <1>1 DEF Start
    <3>3. EntryOf(o) = [off |-> o, seg |-> 0, pos |-> o - Sealed]
      BY <2>6, <3>2 DEF EntryOf
    <3>4. EntryOf(o)' = [off |-> o, seg |-> 0, pos |-> o - (Sealed + n)]
      BY <3>1, <3>2 DEF EntryOf
    <3>5. Shifted(EntryOf(o), n) = [off |-> o, seg |-> 0, pos |-> (o - Sealed) - n]
      BY <3>3 DEF Shifted
    <3>6. (o - Sealed) - n = o - (Sealed + n)
      BY <1>3, <2>1
    <3>7. ~ (o <= Sealed + n - 1)
      BY <1>3, <2>1, <2>6
    <3> QED BY <2>1, <2>6, <3>4, <3>5, <3>6, <3>7 DEF Resealed
  <2> QED BY <2>4, <2>5, <2>6
<1>5. entries' = [d \in Devs |-> {Resealed(e, n) : e \in entries[d]}]
  BY DEF Seal, Resealed
<1>6. Entered'
  <2>1. DOMAIN entries' = Devs
    BY <1>5
  <2>2. \A o \in Recs : Dev(o)' = Dev(o)
    BY DEF Dev, Event
  <2>3. ASSUME NEW d \in Devs, NEW e \in entries'[d]
        PROVE  e.off \in Recs' /\ Dev(e.off)' = d /\ e = EntryOf(e.off)'
    <3>1. PICK f \in entries[d] : e = Resealed(f, n)
      BY <1>5, <2>3
    <3>2. f.off \in Recs /\ Dev(f.off) = d /\ f = EntryOf(f.off)
      BY DEF Entered
    <3>3. PICK o \in Recs : o = f.off
      BY <3>2
    <3>4. e = EntryOf(o)'
      BY <1>4, <3>1, <3>2, <3>3
    <3>5. EntryOf(o)'.off = o
      BY <1>1, <1>2 DEF Facts, LeadFacts
    <3> QED BY <1>1, <2>2, <3>2, <3>3, <3>4, <3>5
  <2>4. ASSUME NEW d \in Devs, NEW o \in (Recs \ forgotten)', Dev(o)' = d
        PROVE  EntryOf(o)' \in entries'[d]
    <3>1. o \in Recs \ forgotten /\ Dev(o) = d
      BY <1>1, <2>2, <2>4
    <3>2. EntryOf(o) \in entries[d]
      BY <3>1 DEF Entered
    <3> QED BY <1>4, <1>5, <3>1, <3>2
  <2> QED BY <2>1, <2>3, <2>4 DEF Entered
<1> QED BY <1>1, <1>6

-----------------------------------------------------------------------------
(***************************************************************************)
(* Steps of the archive that leave the log alone.                          *)
(***************************************************************************)

LEMMA WorldFacts == ASSUME World PROVE Base /\ Facts
<1>1. Base
  BY DEF World, Logged, Tiled, Base
<1> QED BY <1>1, Now

LEMMA OpenCount == ASSUME Base PROVE Cardinality(Open) = NextOffset - Sealed
<1>1. NextOffset \in Nat /\ Sealed \in Nat /\ Sealed <= NextOffset
  BY Now DEF Facts, LogFacts, SegFacts
<1>2. Cardinality(Open) = IF Sealed > NextOffset - 1 THEN 0 ELSE NextOffset - 1 - Sealed + 1
  BY <1>1, FS_Interval DEF Open
<1> QED BY <1>1, <1>2

LEMMA LearntKept ==
    ASSUME World, UNCHANGED <<log, ids, seqs, top, forgotten>>
    PROVE  /\ Known' /\ Learnt' /\ Recs' = Recs
           /\ \A o \in Recs : Event(o)' = Event(o) /\ Dev(o)' = Dev(o) /\ Id(o)' = Id(o)
<1>1. Recs' = Recs /\ NextOffset' = NextOffset
  BY DEF Recs, NextOffset
<1>2. \A o \in Recs : Event(o)' = Event(o) /\ Dev(o)' = Dev(o) /\ Id(o)' = Id(o)
  BY DEF Event, Dev, Id
<1>3. Known'
  BY DEF World, Known, StoredOnce, NextOffset, Recs, Event, Dev, Id
<1>4. Learnt'
  BY DEF World, Learnt, FlagsTell, NextOffset, Recs, Event, Dev
<1> QED BY <1>1, <1>2, <1>3, <1>4

LEMMA SealWorld ==
    ASSUME World, NEW n \in Nat \ {0}, Sealed + n <= NextOffset, Seal(n),
           UNCHANGED <<log, ids, seqs, top, forgotten>>,
           pc' \in {"up", "sealing"},
           pc' = "sealing" => NextOffset - (Sealed + n) >= SegMax,
           frz' = frz \/ (/\ frz = NoFreeze
                          /\ frz'.segs \subseteq DOMAIN segs'
                          /\ frz'.end = Sealed + n)
    PROVE  World' /\ Grows
<1>1. Base /\ Facts
  BY WorldFacts
<1>2. Sealed \in Nat /\ NextOffset \in Nat
  BY <1>1 DEF Facts, SegFacts, LogFacts
<1>3. /\ Base' /\ Entered' /\ Sealed' = Sealed + n
      /\ DOMAIN segs' = DOMAIN segs \cup {Len(segs) + 1}
      /\ \A k \in DOMAIN segs : segs'[k] = segs[k]
  BY <1>1, SealKeeps DEF World
<1>4. Known' /\ Learnt' /\ Recs' = Recs /\ NextOffset' = NextOffset
  BY LearntKept DEF NextOffset
<1>5. Logged'
  <2>1. log' \in Seq(Record)
    BY <1>3 DEF Base
  <2>2. \A o \in Recs' : log'[o + 1].base <= o
    BY <1>4 DEF World, Logged
  <2>3. NextOffset' - Sealed' = NextOffset - (Sealed + n)
    BY <1>3, <1>4
  <2>4. Len(log') <= MaxLog /\ forgotten' \subseteq Recs'
    BY <1>4 DEF World, Logged
  <2> QED BY <2>1, <2>2, <2>3, <2>4 DEF Logged
<1>6. Frozen'
  <2>1. CASE frz' = frz
    BY <1>2, <1>3, <2>1 DEF World, Frozen, NoFreeze
  <2>2. CASE /\ frz'.segs \subseteq DOMAIN segs' /\ frz'.end = Sealed + n
    BY <1>2, <1>3, <2>2 DEF Frozen
  <2> QED BY <2>1, <2>2
<1>7. Grows
  BY <1>2, <1>3, <1>4 DEF Grows
<1> QED BY <1>3, <1>4, <1>5, <1>6, <1>7 DEF World, Base

LEMMA SealFullWorld == ASSUME World, SealFull PROVE World' /\ Grows
<1>1. Base /\ Facts
  BY WorldFacts
<1>2. Sealed \in Nat /\ NextOffset \in Nat /\ SegMax \in Nat \ {0}
  BY <1>1, ConstantsAssumption DEF Facts, SegFacts, LogFacts
<1>3. Sealed + SegMax <= NextOffset
  BY <1>2 DEF World, Logged, SealFull
<1>4. Cardinality(Open) = NextOffset - Sealed
  BY <1>1, OpenCount
<1>5. pc' \in {"up", "sealing"} /\ pc' = "sealing" => NextOffset - (Sealed + SegMax) >= SegMax
  BY <1>2, <1>4 DEF SealFull
<1> QED BY <1>2, <1>3, <1>5, SealWorld DEF SealFull

LEMMA SealAgedWorld == ASSUME World, SealAged PROVE World' /\ Grows
<1>1. Base /\ Facts
  BY WorldFacts
<1>2. Sealed \in Nat /\ NextOffset \in Nat /\ Sealed <= NextOffset
  BY <1>1 DEF Facts, SegFacts, LogFacts
<1>3. Cardinality(Open) = NextOffset - Sealed
  BY <1>1, OpenCount
<1>4. NextOffset - Sealed \in Nat \ {0}
  BY <1>2 DEF SealAged, Open
<1>5. Sealed + Cardinality(Open) <= NextOffset /\ Cardinality(Open) \in Nat \ {0}
  BY <1>2, <1>3, <1>4
<1> QED BY <1>5, SealWorld DEF SealAged

LEMMA RelabelWorld ==
    ASSUME World, Relabels, UNCHANGED <<log, index, pc, forgotten>>,
           frz' = frz \/ (/\ frz = NoFreeze
                          /\ frz'.segs \subseteq DOMAIN segs
                          /\ frz'.end = Sealed)
    PROVE  World' /\ Grows
<1>1. Base /\ Facts
  BY WorldFacts
<1>2. /\ Base' /\ Sealed' = Sealed /\ Recs' = Recs
      /\ \A o \in Recs : EntryOf(o)' = EntryOf(o)
  BY <1>1, Relabelled
<1>3. UNCHANGED <<entries, ids, seqs, top>>
  BY DEF index
<1>4. /\ Known' /\ Learnt' /\ NextOffset' = NextOffset
      /\ \A o \in Recs : Dev(o)' = Dev(o)
  BY <1>3, LearntKept DEF NextOffset
<1>5. Logged'
  BY <1>2, <1>4 DEF World, Logged, Base
<1>6. Entered'
  <2>1. DOMAIN entries' = Devs
    BY <1>3 DEF World, Entered
  <2>2. ASSUME NEW d \in Devs, NEW e \in entries'[d]
        PROVE  e.off \in Recs' /\ Dev(e.off)' = d /\ e = EntryOf(e.off)'
    <3>1. e.off \in Recs /\ Dev(e.off) = d /\ e = EntryOf(e.off)
      BY <1>3 DEF World, Entered
    <3>2. PICK o \in Recs : o = e.off
      BY <3>1
    <3> QED BY <1>2, <1>4, <3>1, <3>2
  <2>3. ASSUME NEW d \in Devs, NEW o \in (Recs \ forgotten)', Dev(o)' = d
        PROVE  EntryOf(o)' \in entries'[d]
    <3>1. o \in Recs \ forgotten /\ Dev(o) = d
      BY <1>2, <1>4, <2>3
    <3> QED BY <1>2, <1>3, <3>1 DEF World, Entered
  <2> QED BY <2>1, <2>2, <2>3 DEF Entered
<1>7. Frozen'
  <2>1. Sealed \in Nat
    BY <1>1 DEF Facts, SegFacts
  <2> QED BY <1>2, <2>1 DEF World, Frozen, Relabels, NoFreeze
<1>8. Grows
  <2>1. Sealed \in Nat /\ NextOffset \in Nat
    BY <1>1 DEF Facts, SegFacts, LogFacts
  <2> QED BY <1>2, <1>4, <2>1 DEF Grows, Relabels
<1> QED BY <1>2, <1>4, <1>5, <1>6, <1>7, <1>8 DEF World, Base

\* A segment gets another status.
LEMMA Marked ==
    ASSUME Base, NEW k \in DOMAIN segs, NEW status, NEW readable \in BOOLEAN,
           status \in {"sealed", "quarantined", "doomed", "away", "evicted"},
           \/ segs' = [segs EXCEPT ![k].status = status]
           \/ segs' = [segs EXCEPT ![k].status = status, ![k].index = readable]
    PROVE  Relabels
<1>1. \A j \in DOMAIN segs : segs[j] \in Ranges
  BY Now DEF Facts, SegFacts
<1>2. DOMAIN segs = 1 .. Len(segs) /\ Len(segs) \in Nat
  BY Now DEF Facts, SegFacts
<1>3. \E r \in Ranges : /\ r.first = segs[k].first /\ r.last = segs[k].last
                        /\ segs' = [segs EXCEPT ![k] = r]
  <2>1. CASE segs' = [segs EXCEPT ![k].status = status]
    <3>1. [segs[k] EXCEPT !.status = status] \in Ranges
      BY <1>1 DEF Ranges
    <3>2. segs' = [segs EXCEPT ![k] = [segs[k] EXCEPT !.status = status]]
      BY <2>1
    <3> QED BY <1>1, <3>1, <3>2 DEF Ranges
  <2>2. CASE segs' = [segs EXCEPT ![k].status = status, ![k].index = readable]
    <3>1. [segs[k] EXCEPT !.status = status, !.index = readable] \in Ranges
      BY <1>1 DEF Ranges
    <3>2. segs' = [segs EXCEPT ![k] = [segs[k] EXCEPT !.status = status, !.index = readable]]
      BY <2>2
    <3> QED BY <1>1, <3>1, <3>2 DEF Ranges
  <2> QED BY <2>1, <2>2
<1>4. PICK r \in Ranges : /\ r.first = segs[k].first /\ r.last = segs[k].last
                          /\ segs' = [segs EXCEPT ![k] = r]
  BY <1>3
<1>5. DOMAIN segs' = DOMAIN segs /\ \A j \in DOMAIN segs : segs'[j] = IF j = k THEN r ELSE segs[j]
  BY <1>4
<1>6. segs' \in Seq(Ranges)
  BY <1>4 DEF Base, Tiled
<1> QED BY <1>4, <1>5, <1>6 DEF Relabels

LEMMA QuarantineWorld ==
    ASSUME World, NEW k \in DOMAIN segs, NEW readable \in BOOLEAN, Quarantine(k, readable)
    PROVE  World' /\ Grows
<1>1. Relabels
  BY WorldFacts, Marked DEF Quarantine
<1> QED BY <1>1, RelabelWorld DEF Quarantine

LEMMA EvictWorld ==
    ASSUME World, NEW k \in DOMAIN segs, Doom(k) \/ Leave(k) \/ Publish(k)
    PROVE  World' /\ Grows
<1>1. PICK status \in {"doomed", "away", "evicted"} : Becomes(k, status) /\ UNCHANGED index
  BY DEF Doom, Leave, Publish
<1>2. Relabels
  <2>1. Base /\ TRUE \in BOOLEAN
    BY WorldFacts
  <2>2. status \in {"sealed", "quarantined", "doomed", "away", "evicted"}
    OBVIOUS
  <2> QED BY <1>1, <2>1, <2>2, Marked DEF Becomes
<1> QED BY <1>1, <1>2, RelabelWorld DEF Becomes

LEMMA FreezeWorld == ASSUME World, Freeze PROVE World' /\ Grows
<1>1. Base /\ Facts
  BY WorldFacts
<1>2. Sealed \in Nat /\ NextOffset \in Nat /\ Sealed <= NextOffset
  BY <1>1 DEF Facts, SegFacts, LogFacts
<1>3. Cardinality(Open) = NextOffset - Sealed
  BY <1>1, OpenCount
<1>4. /\ UNCHANGED <<log, ids, seqs, top, pc, forgotten>>
      /\ frz = NoFreeze /\ frz'.segs \subseteq DOMAIN segs' /\ frz'.end = NextOffset
      /\ pc = "up"
  BY DEF Freeze
<1>5. CASE Open = {}
  <2>1. UNCHANGED <<segs, entries>>
    BY <1>5 DEF Freeze
  <2>2. NextOffset = Sealed
    BY <1>2, <1>5 DEF Open
  <2>3. Relabels
    BY <1>1, <2>1 DEF Relabels, Base, Tiled
  <2> QED BY <1>4, <2>1, <2>2, <2>3, RelabelWorld DEF index
<1>6. CASE Open # {}
  <2>1. Seal(Cardinality(Open))
    BY <1>6 DEF Freeze
  <2>2. NextOffset - Sealed \in Nat \ {0}
    BY <1>2, <1>6 DEF Open
  <2>3. /\ Cardinality(Open) \in Nat \ {0}
        /\ Sealed + Cardinality(Open) = NextOffset
    BY <1>2, <1>3, <2>2
  <2> QED BY <1>2, <1>4, <2>1, <2>3, SealWorld
<1> QED BY <1>5, <1>6

LEMMA GreatestIs ==
    ASSUME NEW S \in SUBSET Nat, IsFiniteSet(S)
    PROVE  /\ Greatest(S) \in Nat
           /\ S # {} => Greatest(S) \in S
           /\ \A x \in S : x <= Greatest(S)
<1>1. CASE S = {}
  BY <1>1 DEF Greatest
<1>2. CASE S # {}
  <2>1. \E m \in S : \A x \in S : x <= m
    <3>1. S \in SUBSET Int
      OBVIOUS
    <3> QED BY <1>2, <3>1, GreatestNumber
  <2>2. Greatest(S) = CHOOSE x \in S : \A y \in S : y <= x
    BY <1>2 DEF Greatest
  <2> QED BY <2>1, <2>2
<1> QED BY <1>1, <1>2

LEMMA Finite ==
    ASSUME Base
    PROVE  /\ IsFiniteSet(Recs)
           /\ \A S \in SUBSET Recs :
                 /\ IsFiniteSet(S) /\ S \in SUBSET Nat
                 /\ IsFiniteSet({Event(o).ts : o \in S}) /\ {Event(o).ts : o \in S} \in SUBSET Nat
<1>1. NextOffset \in Nat /\ \A o \in Recs : o \in Nat /\ Event(o).ts \in Nat
  BY Now DEF Facts, LogFacts
<1>2. IsFiniteSet(Recs)
  BY <1>1, FS_Interval DEF Recs
<1>3. ASSUME NEW S \in SUBSET Recs
      PROVE  /\ IsFiniteSet(S) /\ S \in SUBSET Nat
             /\ IsFiniteSet({Event(o).ts : o \in S}) /\ {Event(o).ts : o \in S} \in SUBSET Nat
  <2>1. IsFiniteSet(S)
    BY <1>2, FS_Subset
  <2>2. PICK T : T = {Event(o).ts : o \in S}
    OBVIOUS
  <2>3. PICK f : f = [o \in S |-> Event(o).ts]
    OBVIOUS
  <2>4. f \in Surjection(S, T)
    BY <2>2, <2>3 DEF Surjection
  <2>5. IsFiniteSet(T)
    BY <2>1, <2>4, FS_Surjection
  <2> QED BY <1>1, <2>1, <2>2, <2>5
<1> QED BY <1>2, <1>3

LEMMA FlagsKept ==
    ASSUME FlagsTell, log' = log, forgotten' = {} => forgotten = {}
    PROVE  FlagsTell'
<1>1. NextOffset' = NextOffset /\ \A o : Event(o)' = Event(o)
  BY DEF NextOffset, Event
<1> QED BY <1>1 DEF FlagsTell

LEMMA RepairWorld == ASSUME World, NEW k \in DOMAIN segs, Repair(k) PROVE World' /\ Grows
<1> DEFINE Mine(d) == {o \in Recs : Dev(o) = d}
<1>1. Base /\ Facts
  BY WorldFacts
<1>2. UNCHANGED <<log, frz, pc, forgotten>> /\ NextOffset' = NextOffset
  BY DEF Repair, NextOffset
<1>3. Relabels
  <2>1. segs' = [segs EXCEPT ![k].status = "sealed", ![k].index = TRUE]
    BY DEF Repair
  <2>2. TRUE \in BOOLEAN
    OBVIOUS
  <2> QED BY <1>1, <2>1, <2>2, Marked
<1>4. /\ Base' /\ Sealed' = Sealed /\ Recs' = Recs
      /\ \A o \in Recs : EntryOf(o)' = EntryOf(o)
      /\ \A o \in Recs : Event(o)' = Event(o) /\ Dev(o)' = Dev(o) /\ Id(o)' = Id(o)
  BY <1>1, <1>2, <1>3, Relabelled DEF Event, Dev, Id
<1>5. ASSUME NEW d \in Devs
      PROVE  /\ In(k, d) \in SUBSET Mine(d)
             /\ \A o \in In(k, d) : [off |-> o, seg |-> k, pos |-> o - segs[k].first] = EntryOf(o)
             /\ \A o \in Mine(d) : Where(o) = k => o \in In(k, d)
  <2>1. ASSUME NEW o \in In(k, d)
        PROVE  /\ o \in Mine(d)
               /\ [off |-> o, seg |-> k, pos |-> o - segs[k].first] = EntryOf(o)
    <3>1. o \in Span(k) /\ Event(o).dev = d
      BY DEF In
    <3>2. o \in Recs /\ Where(o) = k /\ k # 0
      BY <1>1, <3>1 DEF Facts, PlaceFacts, SegFacts
    <3> QED BY <3>1, <3>2 DEF EntryOf, Start, Dev
  <2>2. ASSUME NEW o \in Mine(d), Where(o) = k PROVE o \in In(k, d)
    <3>1. o \in Span(k)
      BY <1>1, <2>2 DEF Facts, LeadFacts, SegFacts
    <3> QED BY <3>1 DEF In, Dev
  <2> QED BY <2>1, <2>2
<1>6. Entered'
  <2>1. DOMAIN entries' = Devs
    BY DEF Repair
  <2>2. ASSUME NEW d \in Devs, NEW e \in entries'[d]
        PROVE  e.off \in Recs' /\ Dev(e.off)' = d /\ e = EntryOf(e.off)'
    <3>1. e \in entries[d] \/ \E o \in In(k, d) : e = [off |-> o, seg |-> k, pos |-> o - segs[k].first]
      BY DEF Repair, Installed
    <3>2. e.off \in Recs /\ Dev(e.off) = d /\ e = EntryOf(e.off)
      <4>1. CASE e \in entries[d]
        BY <4>1 DEF World, Entered
      <4>2. CASE \E o \in In(k, d) : e = [off |-> o, seg |-> k, pos |-> o - segs[k].first]
        BY <1>5, <4>2
      <4> QED BY <3>1, <4>1, <4>2
    <3>3. PICK o \in Recs : o = e.off
      BY <3>2
    <3> QED BY <1>4, <3>2, <3>3
  <2>3. ASSUME NEW d \in Devs, NEW o \in (Recs \ forgotten)', Dev(o)' = d
        PROVE  EntryOf(o)' \in entries'[d]
    <3>1. o \in Recs \ forgotten /\ Dev(o) = d
      BY <1>2, <1>4, <2>3
    <3>2. EntryOf(o) \in entries[d]
      BY <3>1 DEF World, Entered
    <3>3. EntryOf(o).seg = Where(o)
      BY <1>1, <3>1 DEF Facts, LeadFacts
    <3>4. CASE Where(o) # k
      BY <1>4, <3>1, <3>2, <3>3, <3>4 DEF Repair, Installed
    <3>5. CASE Where(o) = k
      <4>1. o \in In(k, d)
        BY <1>5, <3>1, <3>5
      <4>2. EntryOf(o) \in Installed(k, d)
        BY <1>5, <4>1 DEF Installed
      <4>3. entries'[d] = Installed(k, d)
        BY <4>1 DEF Repair
      <4> QED BY <1>4, <3>1, <4>2, <4>3
    <3> QED BY <3>4, <3>5
  <2> QED BY <2>1, <2>2, <2>3 DEF Entered
<1>7. Known'
  <2>1. ASSUME NEW d \in Devs, NEW i \in Ids
        PROVE  /\ ids'[d][i] \in Offsets \cup {-1}
               /\ ids'[d][i] = ids[d][i] \/ ids'[d][i] # -1
    <3> DEFINE of == {o \in In(k, d) : Event(o).id = i}
    <3>1. ids'[d][i] = IF of = {} THEN ids[d][i] ELSE Greatest(of)
      BY DEF Repair
    <3>2. of \in SUBSET Recs
      BY <1>5
    <3> HIDE DEF of
    <3>3. IsFiniteSet(of) /\ of \in SUBSET Nat
      BY <1>1, <3>2, Finite
    <3>4. CASE of = {}
      BY <3>1, <3>4 DEF World, Known
    <3>5. CASE of # {}
      <4>1. Greatest(of) \in Recs
        BY <3>2, <3>3, <3>5, GreatestIs
      <4>2. Recs \subseteq Offsets /\ -1 \notin Recs
        <5>1. NextOffset \in Nat /\ NextOffset <= MaxLog /\ MaxLog \in Nat
          BY <1>1, ConstantsAssumption DEF Facts, LogFacts, World, Logged, NextOffset
        <5> QED BY <5>1 DEF Recs, Offsets
      <4> QED BY <3>1, <3>5, <4>1, <4>2
    <3> QED BY <3>4, <3>5
  <2>2. ids' \in [Devs -> [Ids -> Offsets \cup {-1}]]
    <3>1. \A d \in Devs : ids'[d] = [i \in Ids |-> ids'[d][i]]
      BY DEF Repair
    <3>2. ids' = [d \in Devs |-> ids'[d]]
      BY DEF Repair
    <3> QED BY <2>1, <3>1, <3>2
  <2>3. \A o \in Recs' \ forgotten' : ids'[Dev(o)'][Id(o)'] # -1
    <3> SUFFICES ASSUME NEW o \in Recs \ forgotten PROVE ids'[Dev(o)][Id(o)] # -1
        BY <1>2, <1>4
    <3>1. Dev(o) \in Devs /\ Id(o) \in Ids /\ ids[Dev(o)][Id(o)] # -1
      BY <1>1 DEF Facts, LogFacts, World, Known
    <3> QED BY <2>1, <3>1
  <2>4. StoredOnce'
    BY <1>2 DEF World, Known, StoredOnce, NextOffset, Event
  <2> QED BY <2>2, <2>3, <2>4 DEF Known
<1>8. Learnt'
  <2>0. ASSUME NEW d \in Devs, In(k, d) # {}
        PROVE  \E S \in SUBSET Mine(d) :
                 /\ top'[d] = Greatest({Event(o).ts : o \in S})
                 /\ forgotten = {} => S = Mine(d)
    <3> DEFINE S == {e.off : e \in entries'[d]}
    <3>1. top'[d] = Greatest({Event(e.off).ts : e \in entries'[d]})
      BY <2>0 DEF Repair
    <3>2. {Event(e.off).ts : e \in entries'[d]} = {Event(o).ts : o \in S}
      OBVIOUS
    <3>3. S \in SUBSET Mine(d)
      BY <1>4, <1>6 DEF Entered
    <3>4. ASSUME forgotten = {}, NEW o \in Mine(d) PROVE o \in S
      <4>1. EntryOf(o)' \in entries'[d] /\ EntryOf(o)' = EntryOf(o)
        BY <1>2, <1>4, <1>6, <3>4 DEF Entered
      <4>2. EntryOf(o).off = o
        BY <1>1 DEF Facts, LeadFacts
      <4> QED BY <4>1, <4>2
    <3> QED BY <3>1, <3>2, <3>3, <3>4
  <2>1. ASSUME NEW d \in Devs
        PROVE  /\ top'[d] \in Nat
               /\ forgotten = {} =>
                     /\ \A o \in Mine(d) : Event(o).ts <= top'[d]
                     /\ top'[d] = 0 \/ \E o \in Mine(d) : Event(o).ts = top'[d]
    <3>1. CASE In(k, d) = {}
      <4>1. top'[d] = top[d]
        BY <3>1 DEF Repair
      <4> QED BY <4>1 DEF World, Learnt
    <3>2. CASE In(k, d) # {}
      <4>1. PICK S \in SUBSET Mine(d) :
              /\ top'[d] = Greatest({Event(o).ts : o \in S})
              /\ forgotten = {} => S = Mine(d)
        BY <2>0, <3>2
      <4>2. PICK T : T = {Event(o).ts : o \in S}
        OBVIOUS
      <4>3. IsFiniteSet(T) /\ T \in SUBSET Nat
        BY <1>1, <4>2, Finite
      <4>4. Greatest(T) \in Nat /\ (T # {} => Greatest(T) \in T) /\ \A x \in T : x <= Greatest(T)
        BY <4>3, GreatestIs
      <4>5. top'[d] = Greatest(T) /\ (T = {} => Greatest(T) = 0)
        BY <4>1, <4>2 DEF Greatest
      <4> QED BY <4>1, <4>2, <4>4, <4>5
    <3> QED BY <3>1, <3>2
  <2>2. DOMAIN seqs' = Devs /\ top' \in [Devs -> Nat]
    <3>1. DOMAIN top' = Devs /\ top' = [d \in Devs |-> top'[d]] /\ DOMAIN seqs' = Devs
      BY DEF Repair
    <3> QED BY <2>1, <3>1
  <2>3. ASSUME forgotten = {}, NEW d \in Devs
        PROVE  seqs'[d] = {Event(o).seq : o \in Mine(d)}
    <3>1. seqs[d] = {Event(o).seq : o \in Mine(d)}
      BY <2>3 DEF World, Learnt
    <3>2. seqs'[d] = seqs[d] \cup {Event(o).seq : o \in In(k, d)}
      BY DEF Repair
    <3>3. In(k, d) \in SUBSET Mine(d)
      BY <1>5
    <3> QED BY <3>1, <3>2, <3>3
  <2>4. FlagsTell'
    BY <1>2, FlagsKept DEF World, Learnt
  <2>5. ASSUME forgotten' = {}, NEW d \in Devs
        PROVE  /\ seqs'[d] = {Event(o)'.seq : o \in {q \in Recs' : Dev(q)' = d}}
               /\ \A o \in Recs' : Dev(o)' = d => Event(o)'.ts <= top'[d]
               /\ top'[d] = 0 \/ \E o \in Recs' : Dev(o)' = d /\ Event(o)'.ts = top'[d]
    <3>1. forgotten = {}
      BY <1>2, <2>5
    <3>2. {Event(o)'.seq : o \in {q \in Recs' : Dev(q)' = d}} = {Event(o).seq : o \in Mine(d)}
      BY <1>4
    <3>3. seqs'[d] = {Event(o).seq : o \in Mine(d)}
      BY <2>3, <3>1
    <3>4. /\ \A o \in Mine(d) : Event(o).ts <= top'[d]
          /\ top'[d] = 0 \/ \E o \in Mine(d) : Event(o).ts = top'[d]
      BY <2>1, <3>1
    <3> QED BY <1>4, <3>2, <3>3, <3>4
  <2> QED BY <2>2, <2>4, <2>5 DEF Learnt
<1>9. Logged'
  BY <1>2, <1>4 DEF World, Logged, Base
<1>10. Frozen'
  BY <1>2, <1>3, <1>4 DEF World, Frozen, Relabels
<1>11. Grows
  <2>1. Sealed \in Nat /\ NextOffset \in Nat
    BY <1>1 DEF Facts, SegFacts, LogFacts
  <2> QED BY <1>2, <1>3, <1>4, <2>1 DEF Grows, Relabels
<1> QED BY <1>4, <1>6, <1>7, <1>8, <1>9, <1>10, <1>11 DEF World, Base

LEMMA RestartWorld == ASSUME World, Restart PROVE World' /\ Grows
<1> DEFINE shown == {o \in 0 .. NextOffset - 1 : o \in Open \/ Where(o) \in Indexed \cup Tombs}
           of(d) == {o \in shown : Event(o).dev = d}
           known(d, i) == {o \in of(d) : Event(o).id = i}
           tombs(d, i) == {o \in of(d) : Event(o).id = i /\ Where(o) \in Tombs}
<1>1. Base /\ Facts
  BY WorldFacts
<1>2. /\ UNCHANGED <<log, pc>> /\ NextOffset' = NextOffset
      /\ frz' = [segs |-> frz.segs, end |-> frz.end, late |-> {}]
  BY DEF Restart, NextOffset
<1>3. shown \in SUBSET Recs /\ forgotten' = forgotten \cup (Recs \ shown)
  BY DEF Restart, Recs
<1>4. Relabels
  <2>1. segs' = [k \in DOMAIN segs |->
           IF segs[k].status = "away" THEN [segs[k] EXCEPT !.status = "evicted"] ELSE segs[k]]
    BY DEF Restart
  <2>2. \A k \in DOMAIN segs : segs[k] \in Ranges
    BY <1>1 DEF Facts, SegFacts
  <2>3. \A k \in DOMAIN segs :
           /\ segs'[k] \in Ranges
           /\ segs'[k].first = segs[k].first /\ segs'[k].last = segs[k].last
    BY <2>1, <2>2 DEF Ranges
  <2>4. DOMAIN segs' = DOMAIN segs /\ DOMAIN segs = 1 .. Len(segs) /\ Len(segs) \in Nat
    BY <1>1, <2>1 DEF Facts, SegFacts
  <2>5. segs' = [k \in 1 .. Len(segs) |-> segs'[k]]
    BY <2>1, <2>4
  <2>6. segs' \in Seq(Ranges)
    BY <2>3, <2>4, <2>5
  <2> QED BY <2>3, <2>4, <2>6 DEF Relabels
<1>5. /\ Base' /\ Sealed' = Sealed /\ Recs' = Recs
      /\ \A o \in Recs : EntryOf(o)' = EntryOf(o)
      /\ \A o \in Recs : Event(o)' = Event(o) /\ Dev(o)' = Dev(o) /\ Id(o)' = Id(o)
  BY <1>1, <1>2, <1>4, Relabelled DEF Event, Dev, Id
<1>6. /\ entries' = [d \in Devs |->
             {[off |-> o, seg |-> Where(o),
               pos |-> IF Where(o) = 0 THEN o - Sealed ELSE o - segs[Where(o)].first] : o \in of(d)}]
      /\ ids' = [d \in Devs |-> [i \in Ids |->
             IF tombs(d, i) # {} THEN Greatest(tombs(d, i))
             ELSE IF known(d, i) # {} THEN Greatest(known(d, i)) ELSE -1]]
      /\ seqs' = [d \in Devs |-> {Event(o).seq : o \in of(d)}]
      /\ top' = [d \in Devs |-> Greatest({Event(o).ts : o \in of(d)})]
  BY DEF Restart
<1>7. \A d \in Devs : of(d) \in SUBSET Recs /\ \A o \in of(d) : Dev(o) = d
  BY <1>3 DEF Dev
<1>8. \A o \in shown : o \in of(Dev(o)) /\ o \in known(Dev(o), Id(o))
  BY DEF Dev, Id
<1>9. \A d \in Devs, i \in Ids : tombs(d, i) \in SUBSET known(d, i) /\ known(d, i) \in SUBSET of(d)
  OBVIOUS
<1>10. Logged'
  <2>1. forgotten' \subseteq Recs'
    BY <1>3, <1>5 DEF World, Logged
  <2> QED BY <1>2, <1>5, <2>1 DEF World, Logged, Base
<1> HIDE DEF shown, of, known, tombs
<1>11. Entered'
  <2>1. DOMAIN entries' = Devs
    BY <1>6
  <2>2. ASSUME NEW d \in Devs PROVE entries'[d] = {EntryOf(o) : o \in of(d)}
    <3>1. \A o \in of(d) :
            EntryOf(o) = [off |-> o, seg |-> Where(o),
                          pos |-> IF Where(o) = 0 THEN o - Sealed ELSE o - segs[Where(o)].first]
      BY DEF EntryOf, Start
    <3> QED BY <1>6, <3>1
  <2>3. ASSUME NEW d \in Devs, NEW e \in entries'[d]
        PROVE  e.off \in Recs' /\ Dev(e.off)' = d /\ e = EntryOf(e.off)'
    <3>1. PICK o \in of(d) : e = EntryOf(o)
      BY <2>2
    <3>2. o \in Recs /\ Dev(o) = d /\ e.off = o
      BY <1>1, <1>7, <3>1 DEF Facts, LeadFacts
    <3> QED BY <1>5, <3>1, <3>2
  <2>4. ASSUME NEW d \in Devs, NEW o \in (Recs \ forgotten)', Dev(o)' = d
        PROVE  EntryOf(o)' \in entries'[d]
    <3>1. o \in Recs /\ o \in shown /\ Dev(o) = d
      BY <1>3, <1>5, <2>4
    <3>2. o \in of(d)
      BY <1>8, <3>1
    <3> QED BY <1>5, <2>2, <3>1, <3>2
  <2> QED BY <2>1, <2>3, <2>4 DEF Entered
<1>12. Known'
  <2>1. Recs \subseteq Offsets /\ -1 \notin Recs
    <3>1. NextOffset \in Nat /\ NextOffset <= MaxLog /\ MaxLog \in Nat
      BY <1>1, ConstantsAssumption DEF Facts, LogFacts, World, Logged, NextOffset
    <3> QED BY <3>1 DEF Recs, Offsets
  <2>2. ASSUME NEW S \in SUBSET Recs, S # {} PROVE Greatest(S) \in Offsets \cup {-1} /\ Greatest(S) # -1
    <3>1. IsFiniteSet(S) /\ S \in SUBSET Nat
      BY <1>1, Finite
    <3>2. Greatest(S) \in S
      BY <2>2, <3>1, GreatestIs
    <3> QED BY <2>1, <3>2
  <2>3. ASSUME NEW d \in Devs, NEW i \in Ids
        PROVE  /\ ids'[d][i] \in Offsets \cup {-1}
               /\ known(d, i) # {} => ids'[d][i] # -1
    <3>1. ids'[d][i] = IF tombs(d, i) # {} THEN Greatest(tombs(d, i))
                       ELSE IF known(d, i) # {} THEN Greatest(known(d, i)) ELSE -1
      BY <1>6
    <3>2. tombs(d, i) \in SUBSET Recs /\ known(d, i) \in SUBSET Recs
      BY <1>7, <1>9
    <3> QED BY <2>2, <3>1, <3>2
  <2>4. ids' \in [Devs -> [Ids -> Offsets \cup {-1}]]
    <3>1. \A d \in Devs : ids'[d] = [i \in Ids |-> ids'[d][i]]
      BY <1>6
    <3>2. ids' = [d \in Devs |-> ids'[d]]
      BY <1>6
    <3> QED BY <2>3, <3>1, <3>2
  <2>5. \A o \in Recs' \ forgotten' : ids'[Dev(o)'][Id(o)'] # -1
    <3> SUFFICES ASSUME NEW o \in Recs \ forgotten' PROVE ids'[Dev(o)][Id(o)] # -1
        BY <1>5
    <3>1. Dev(o) \in Devs /\ Id(o) \in Ids
      BY <1>1 DEF Facts, LogFacts
    <3>2. known(Dev(o), Id(o)) # {}
      BY <1>3, <1>8
    <3> QED BY <2>3, <3>1, <3>2
  <2>6. StoredOnce'
    BY <1>2, <1>3 DEF World, Known, StoredOnce, NextOffset, Event
  <2> QED BY <2>4, <2>5, <2>6 DEF Known
<1>13. Learnt'
  <2>1. ASSUME NEW d \in Devs
        PROVE  /\ top'[d] \in Nat
               /\ \A o \in of(d) : Event(o).ts <= top'[d]
               /\ top'[d] = 0 \/ \E o \in of(d) : Event(o).ts = top'[d]
    <3>1. PICK T : T = {Event(o).ts : o \in of(d)}
      OBVIOUS
    <3>2. IsFiniteSet(T) /\ T \in SUBSET Nat
      BY <1>1, <1>7, <3>1, Finite
    <3>3. Greatest(T) \in Nat /\ (T # {} => Greatest(T) \in T) /\ \A x \in T : x <= Greatest(T)
      BY <3>2, GreatestIs
    <3>4. top'[d] = Greatest(T) /\ (T = {} => Greatest(T) = 0)
      <4>1. top'[d] = Greatest({Event(o).ts : o \in of(d)})
        BY <1>6
      <4> QED BY <3>1, <4>1 DEF Greatest
    <3> QED BY <3>1, <3>3, <3>4
  <2>2. DOMAIN seqs' = Devs /\ top' \in [Devs -> Nat]
    <3>1. DOMAIN top' = Devs /\ top' = [d \in Devs |-> top'[d]] /\ DOMAIN seqs' = Devs
      BY <1>6
    <3> QED BY <2>1, <3>1
  <2>3. FlagsTell'
    <3>1. forgotten' = {} => forgotten = {}
      BY <1>3
    <3> QED BY <1>2, <3>1, FlagsKept DEF World, Learnt
  <2>4. ASSUME forgotten' = {}, NEW d \in Devs
        PROVE  /\ seqs'[d] = {Event(o)'.seq : o \in {q \in Recs' : Dev(q)' = d}}
               /\ \A o \in Recs' : Dev(o)' = d => Event(o)'.ts <= top'[d]
               /\ top'[d] = 0 \/ \E o \in Recs' : Dev(o)' = d /\ Event(o)'.ts = top'[d]
    <3>1. of(d) = {o \in Recs : Dev(o) = d}
      BY <1>3, <1>7, <1>8, <2>4
    <3>2. {Event(o)'.seq : o \in {q \in Recs' : Dev(q)' = d}} = {Event(o).seq : o \in of(d)}
      BY <1>5, <3>1
    <3>3. seqs'[d] = {Event(o).seq : o \in of(d)}
      BY <1>6
    <3> QED BY <1>5, <2>1, <3>1, <3>2, <3>3
  <2> QED BY <2>2, <2>3, <2>4 DEF Learnt
<1>14. /\ Frozen'
       /\ frz = NoFreeze \/ (frz' # NoFreeze /\ frz'.segs = frz.segs /\ frz'.end = frz.end)
  <2>1. CASE frz = NoFreeze
    <3>1. frz' = NoFreeze
      BY <1>2, <2>1 DEF NoFreeze
    <3> QED BY <2>1, <3>1 DEF Frozen
  <2>2. CASE frz # NoFreeze
    <3>1. frz.segs \subseteq DOMAIN segs /\ frz.end \in Nat /\ frz.end <= Sealed
      BY <2>2 DEF World, Frozen
    <3>2. frz'.segs = frz.segs /\ frz'.end = frz.end
      BY <1>2
    <3>3. frz' # NoFreeze
      BY <3>1, <3>2 DEF NoFreeze
    <3> QED BY <1>4, <1>5, <3>1, <3>2, <3>3 DEF Frozen, Relabels
  <2> QED BY <2>1, <2>2
<1>15. Grows
  <2>1. Sealed \in Nat /\ NextOffset \in Nat
    BY <1>1 DEF Facts, SegFacts, LogFacts
  <2> QED BY <1>2, <1>3, <1>4, <1>5, <1>14, <2>1 DEF Grows, Relabels
<1> QED BY <1>5, <1>10, <1>11, <1>12, <1>13, <1>14, <1>15 DEF World, Base

-----------------------------------------------------------------------------
(***************************************************************************)
(* Ingest.                                                                 *)
(***************************************************************************)

\* What an ingest adds: event i of the batch at offset at[i], each offset once.
Adds(b, new, at) ==
    /\ new = {i \in DOMAIN b : Stored(b)[i]}
    /\ NextOffset' \in Nat /\ NextOffset <= NextOffset' /\ NextOffset' <= MaxLog
    /\ log' \in Seq(Record)
    /\ \A o \in Recs : log'[o + 1] = log[o + 1]
    /\ \A i \in new : at[i] \in NextOffset .. NextOffset' - 1
    /\ \A o \in NextOffset .. NextOffset' - 1 :
          \E i \in new : /\ o = at[i]
                         /\ log'[o + 1] = [ev |-> b[i], flags |-> Flags(b[i]), base |-> NextOffset]
    /\ \A i, j \in new : at[i] = at[j] => i = j
    /\ DOMAIN entries' = Devs
    /\ \A d \in Devs : \A e : e \in entries'[d] <=>
          \/ e \in entries[d]
          \/ \E i \in new : b[i].dev = d /\ e = [off |-> at[i], seg |-> 0, pos |-> at[i] - Sealed]
    /\ ids' \in [Devs -> [Ids -> Offsets \cup {-1}]]
    /\ \A d \in Devs, id \in Ids :
          IF \E i \in new : b[i].dev = d /\ b[i].id = id
          THEN ids'[d][id] # -1 ELSE ids'[d][id] = ids[d][id]
    /\ seqs' = [d \in Devs |-> seqs[d] \cup {b[i].seq : i \in {j \in new : b[j].dev = d}}]
    /\ top' = [d \in Devs |-> Greatest({top[d]} \cup {b[i].ts : i \in {j \in new : b[j].dev = d}})]

LEMMA IngestAdds ==
    ASSUME World, NEW b \in Batches, Ingest(b)
    PROVE  \E new \in SUBSET DOMAIN b : \E at : Adds(b, new, at) /\ IsFiniteSet(new)
<1>1. Base /\ Facts
  BY WorldFacts
<1>2. PICK n \in 1 .. MaxBatch : b \in [1 .. n -> Events]
  BY DEF Batches
<1>3. DOMAIN b = 1 .. n /\ n \in Nat /\ \A i \in DOMAIN b : b[i] \in Events
  BY <1>2, ConstantsAssumption
<1>4. \A i \in DOMAIN b : b[i].dev \in Devs /\ b[i].id \in Ids
  BY <1>3 DEF Devs, Ids
<1>5. PICK stored : stored = Stored(b)
  OBVIOUS
<1> DEFINE before(i) == Cardinality({j \in 1 .. i - 1 : stored[j]})
<1>6. PICK new : new = {i \in DOMAIN b : stored[i]}
  OBVIOUS
<1>7. PICK c : c = [i \in new |-> before(i)]
  OBVIOUS
<1>8. PICK at : at = [i \in new |-> NextOffset + c[i]]
  OBVIOUS
<1>9. IsFiniteSet(new) /\ new \in SUBSET Int /\ new \in SUBSET DOMAIN b
  <2>1. new \in SUBSET (1 .. n)
    BY <1>3, <1>6
  <2>2. IsFiniteSet(1 .. n)
    BY <1>3, FS_Interval
  <2>3. IsFiniteSet(new)
    BY <2>1, <2>2, FS_Subset
  <2> QED BY <1>3, <2>1, <2>3
<1>10. \A i \in new : c[i] = Cardinality({j \in new : j < i})
  <2> SUFFICES ASSUME NEW i \in new PROVE c[i] = Cardinality({j \in new : j < i})
      OBVIOUS
  <2>1. {j \in 1 .. i - 1 : stored[j]} = {j \in new : j < i}
    BY <1>3, <1>6
  <2>2. c[i] = before(i)
    BY <1>7
  <2> QED BY <2>1, <2>2
<1>11. PICK M \in Nat : M = Cardinality(new)
  BY <1>9, FS_CardinalityType
<1>12. /\ \A i \in new : c[i] \in 0 .. M - 1
       /\ \A i, j \in new : c[i] = c[j] => i = j
       /\ \A k \in 0 .. M - 1 : \E i \in new : c[i] = k
  BY <1>9, <1>10, <1>11, CountedBelow
<1>13. PICK add : add = [k \in 1 .. M |->
          LET i == CHOOSE j \in new : before(j) = k - 1
          IN  [ev |-> b[i], flags |-> Flags(b[i]), base |-> NextOffset]]
  OBVIOUS
<1>14. log' = log \o add /\ NextOffset + M <= MaxLog
  BY <1>5, <1>6, <1>11, <1>13 DEF Ingest
<1>15. ASSUME NEW k \in 1 .. M
       PROVE  \E i \in new : /\ c[i] = k - 1
                             /\ add[k] = [ev |-> b[i], flags |-> Flags(b[i]), base |-> NextOffset]
  <2>1. k - 1 \in 0 .. M - 1
    OBVIOUS
  <2>2. \E i \in new : before(i) = k - 1
    BY <1>7, <1>12, <2>1
  <2>3. PICK i : i = CHOOSE j \in new : before(j) = k - 1
    OBVIOUS
  <2>4. i \in new /\ before(i) = k - 1
    BY <2>2, <2>3
  <2>5. add[k] = [ev |-> b[i], flags |-> Flags(b[i]), base |-> NextOffset]
    BY <1>13, <2>3
  <2>6. c[i] = before(i)
    BY <1>7, <2>4
  <2> QED BY <2>4, <2>5, <2>6
<1> HIDE DEF before
<1>16. NextOffset \in Nat /\ NextOffset = Len(log) /\ log \in Seq(Record)
  BY <1>1 DEF NextOffset, Base, Facts, LogFacts
<1>17. add \in Seq(Record) /\ Len(add) = M
  <2>1. \A k \in 1 .. M : add[k] \in Record
    <3> SUFFICES ASSUME NEW k \in 1 .. M PROVE add[k] \in Record
        OBVIOUS
    <3>1. PICK i \in new : add[k] = [ev |-> b[i], flags |-> Flags(b[i]), base |-> NextOffset]
      BY <1>15
    <3>2. b[i] \in Events
      BY <1>3, <1>9
    <3>3. Flags(b[i]) \in [conflict : BOOLEAN, rollback : BOOLEAN]
      BY DEF Flags
    <3> QED BY <1>16, <3>1, <3>2, <3>3 DEF Record
  <2>2. add = [k \in 1 .. M |-> add[k]]
    BY <1>13
  <2> QED BY <2>1, <2>2
<1>18. /\ log' \in Seq(Record) /\ NextOffset' = NextOffset + M
       /\ \A k \in 1 .. Len(log) : log'[k] = log[k]
       /\ \A k \in 1 .. M : log'[NextOffset + k] = add[k]
  <2>0. log \in Seq(Record) /\ add \in Seq(Record)
    BY <1>16, <1>17
  <2>1. log' \in Seq(Record) /\ Len(log') = Len(log) + Len(add)
    BY <1>14, <2>0
  <2>2. \A k \in 1 .. Len(log) + Len(add) :
          log'[k] = IF k <= Len(log) THEN log[k] ELSE add[k - Len(log)]
    BY <1>14, <1>16, <1>17
  <2>3. \A k \in 1 .. M : /\ Len(log) + k \in 1 .. Len(log) + Len(add)
                           /\ ~ (Len(log) + k <= Len(log)) /\ Len(log) + k - Len(log) = k
    BY <1>16, <1>17
  <2>4. \A k \in 1 .. M : log'[Len(log) + k] = add[k]
    BY <2>2, <2>3
  <2>5. \A k \in 1 .. Len(log) : log'[k] = log[k]
    BY <1>16, <1>17, <2>2
  <2> QED BY <1>16, <1>17, <2>1, <2>4, <2>5 DEF NextOffset
<1>19. \A o \in Recs : log'[o + 1] = log[o + 1]
  BY <1>16, <1>18 DEF Recs
<1>20. \A i \in new : at[i] \in NextOffset .. NextOffset' - 1 /\ at[i] = NextOffset + c[i]
  BY <1>8, <1>12, <1>16, <1>18
<1>21. \A o \in NextOffset .. NextOffset' - 1 :
          \E i \in new : /\ o = at[i]
                         /\ log'[o + 1] = [ev |-> b[i], flags |-> Flags(b[i]), base |-> NextOffset]
  <2> SUFFICES ASSUME NEW o \in NextOffset .. NextOffset' - 1
               PROVE  \E i \in new : /\ o = at[i]
                         /\ log'[o + 1] = [ev |-> b[i], flags |-> Flags(b[i]), base |-> NextOffset]
      OBVIOUS
  <2>1. PICK k \in 1 .. M : o + 1 = NextOffset + k
    <3>1. o + 1 - NextOffset \in 1 .. M
      BY <1>16, <1>18
    <3> QED BY <1>16, <3>1
  <2>2. log'[o + 1] = add[k]
    BY <1>18, <2>1
  <2>3. PICK i \in new : /\ c[i] = k - 1
                         /\ add[k] = [ev |-> b[i], flags |-> Flags(b[i]), base |-> NextOffset]
    BY <1>15
  <2>4. o = at[i]
    BY <1>16, <1>20, <2>1, <2>3
  <2> QED BY <2>2, <2>3, <2>4
<1>22. \A i, j \in new : at[i] = at[j] => i = j
  <2>1. \A i \in new : c[i] \in Int
    BY <1>12
  <2> QED BY <1>12, <1>16, <1>20, <2>1
<1>23. \A i \in new : NextOffset + before(i) = at[i]
  BY <1>7, <1>20
<1>24. DOMAIN entries' = Devs /\ \A d \in Devs : \A e : e \in entries'[d] <=>
          \/ e \in entries[d]
          \/ \E i \in new : b[i].dev = d /\ e = [off |-> at[i], seg |-> 0, pos |-> at[i] - Sealed]
  <2>2. entries' = [d \in Devs |-> entries[d] \cup
           {[off |-> NextOffset + before(i), seg |-> 0, pos |-> (NextOffset + before(i)) - Sealed] :
              i \in {j \in {k \in DOMAIN b : stored[k]} : b[j].dev = d}}]
    BY <1>5 DEF Ingest, before
  <2>3. ASSUME NEW d \in Devs, NEW e
        PROVE  e \in entries'[d] <=>
                 \/ e \in entries[d]
                 \/ \E i \in new : /\ b[i].dev = d
                       /\ e = [off |-> NextOffset + before(i), seg |-> 0,
                               pos |-> (NextOffset + before(i)) - Sealed]
    BY <1>6, <2>2
  <2>4. DOMAIN entries' = Devs
    BY <2>2
  <2>5. ASSUME NEW i \in new
        PROVE  [off |-> NextOffset + before(i), seg |-> 0, pos |-> (NextOffset + before(i)) - Sealed]
                = [off |-> at[i], seg |-> 0, pos |-> at[i] - Sealed]
    BY <1>23
  <2>6. ASSUME NEW d \in Devs, NEW e
        PROVE  e \in entries'[d] <=>
                 \/ e \in entries[d]
                 \/ \E i \in new : b[i].dev = d /\ e = [off |-> at[i], seg |-> 0, pos |-> at[i] - Sealed]
    <3> DEFINE row(i) == [off |-> at[i], seg |-> 0, pos |-> at[i] - Sealed]
               was(i) == [off |-> NextOffset + before(i), seg |-> 0,
                          pos |-> (NextOffset + before(i)) - Sealed]
    <3>1. e \in entries'[d] <=> e \in entries[d] \/ \E i \in new : b[i].dev = d /\ e = was(i)
      BY <2>3
    <3>2. \A i \in new : was(i) = row(i)
      BY <2>5
    <3> HIDE DEF row, was
    <3>3. e \in entries'[d] <=> e \in entries[d] \/ \E i \in new : b[i].dev = d /\ e = row(i)
      BY <3>1, <3>2
    <3> QED BY <3>3 DEF row
  <2> QED BY <2>4, <2>6
<1>25. ASSUME NEW d \in Devs, NEW id \in Ids
       PROVE  /\ ids'[d][id] \in Offsets \cup {-1}
              /\ IF \E i \in new : b[i].dev = d /\ b[i].id = id
                 THEN ids'[d][id] # -1 ELSE ids'[d][id] = ids[d][id]
  <2>1. ids'[d][id] = IF \E i \in {j \in new : b[j].dev = d} : b[i].id = id
                      THEN NextOffset + before(CHOOSE i \in {j \in new : b[j].dev = d} : b[i].id = id)
                      ELSE ids[d][id]
    BY <1>5, <1>6 DEF Ingest, before
  <2>2. CASE \E i \in new : b[i].dev = d /\ b[i].id = id
    <3>1. PICK i : i = CHOOSE x \in {j \in new : b[j].dev = d} : b[x].id = id
      OBVIOUS
    <3>2. i \in new
      BY <2>2, <3>1
    <3>3. ids'[d][id] = at[i]
      BY <1>23, <2>1, <2>2, <3>1, <3>2
    <3>4. at[i] \in Offsets /\ at[i] # -1
      <4>1. MaxLog \in Nat
        BY ConstantsAssumption
      <4> QED BY <1>14, <1>16, <1>18, <1>20, <3>2, <4>1 DEF Offsets
    <3> QED BY <2>2, <3>3, <3>4
  <2>3. CASE ~ \E i \in new : b[i].dev = d /\ b[i].id = id
    BY <2>1, <2>3 DEF World, Known
  <2> QED BY <2>2, <2>3
<1>26. ids' \in [Devs -> [Ids -> Offsets \cup {-1}]]
  <2>1. /\ DOMAIN ids' = Devs /\ ids' = [d \in Devs |-> ids'[d]]
        /\ \A d \in Devs : ids'[d] = [i \in Ids |-> ids'[d][i]]
    BY DEF Ingest
  <2> QED BY <1>25, <2>1
<1>27. /\ seqs' = [d \in Devs |-> seqs[d] \cup {b[i].seq : i \in {j \in new : b[j].dev = d}}]
       /\ top' = [d \in Devs |-> Greatest({top[d]} \cup {b[i].ts : i \in {j \in new : b[j].dev = d}})]
  BY <1>5, <1>6 DEF Ingest
<1>28. NextOffset' \in Nat /\ NextOffset <= NextOffset' /\ NextOffset' <= MaxLog
  BY <1>14, <1>16, <1>18
<1>29. Adds(b, new, at)
  BY <1>5, <1>6, <1>18, <1>19, <1>20, <1>21, <1>22, <1>24, <1>25, <1>26, <1>27, <1>28 DEF Adds
<1> QED BY <1>9, <1>29

\* The log after an ingest.
LEMMA AddedLog ==
    ASSUME World, NEW b \in Batches, Ingest(b), NEW new \in SUBSET DOMAIN b, NEW at,
           Adds(b, new, at)
    PROVE  /\ Base' /\ Tiled' /\ Grows /\ Sealed' = Sealed /\ Stays
           /\ \A o \in Recs : EntryOf(o)' = EntryOf(o)
           /\ \A i \in new : at[i] \in Recs' /\ at[i] \notin Recs
           /\ \A o \in Recs' \ Recs :
                 \E i \in new : /\ o = at[i] /\ o >= NextOffset
                                /\ Event(o)' = b[i] /\ Dev(o)' = b[i].dev /\ Id(o)' = b[i].id
                                /\ log'[o + 1].base = NextOffset
                                /\ log'[o + 1].flags = Flags(b[i])
                                /\ EntryOf(o)' = [off |-> o, seg |-> 0, pos |-> o - Sealed]
<1>1. Base /\ Facts
  BY WorldFacts
<1>2. /\ UNCHANGED <<segs, frz, client, forgotten>> /\ Sealed' = Sealed
  BY DEF Ingest, Sealed
<1>3. /\ NextOffset \in Nat /\ NextOffset' \in Nat /\ NextOffset <= NextOffset'
      /\ Sealed \in Nat /\ Sealed <= NextOffset
  BY <1>1 DEF Facts, LogFacts, SegFacts, Adds
<1>4. NextOffset' = Len(log')
  BY DEF NextOffset
<1>5. Recs' = 0 .. Len(log') - 1 /\ Recs = 0 .. NextOffset - 1
  BY DEF Recs, NextOffset
<1>6. \A k \in DOMAIN segs : Span(k)' = Span(k)
  BY <1>2 DEF Span
<1>7. Tiled'
  <2>1. \A k \in DOMAIN segs' :
          /\ segs'[k].first = (IF k = 1 THEN 0 ELSE segs'[k - 1].last + 1)
          /\ segs'[k].first <= segs'[k].last /\ segs'[k].last < NextOffset'
          /\ k <= segs'[k].last + 1
    <3>1. \A k \in DOMAIN segs :
            /\ segs[k].last \in Nat /\ segs[k].last < NextOffset
            /\ segs[k].first = (IF k = 1 THEN 0 ELSE segs[k - 1].last + 1)
            /\ segs[k].first <= segs[k].last /\ k <= segs[k].last + 1
      BY <1>1 DEF Facts, SegFacts, World, Tiled
    <3> QED BY <1>2, <1>3, <3>1
  <2>2. \A o \in 0 .. Sealed - 1 : \E k \in DOMAIN segs' : o \in Span(k)'
    BY <1>2, <1>6 DEF World, Tiled
  <2>3. \A j, k \in DOMAIN segs' : j < k => segs'[j].last < segs'[k].first
    BY <1>2 DEF World, Tiled
  <2>4. 0 .. Sealed' - 1 = 0 .. Sealed - 1 /\ segs' \in Seq(Ranges)
    BY <1>2, <1>3 DEF World, Tiled
  <2> QED BY <2>1, <2>2, <2>3, <2>4 DEF Tiled
<1>8. Base' /\ Facts'
  <2>1. Base'
    BY <1>7 DEF Base, Adds
  <2> QED BY <2>1, Then
<1>9. Grows
  BY <1>2, <1>3 DEF Grows, Adds
<1>10. Stays
  BY <1>1, <1>8, <1>9, GrowsStays
<1>11. ASSUME NEW o \in Recs PROVE EntryOf(o)' = EntryOf(o)
  <2>1. Where(o)' = Where(o)
    <3>1. o \in Recs /\ o \in Recs' /\ o \in Nat
      BY <1>10 DEF Stays, Recs
    <3>2. CASE o < Sealed
      BY <1>10, <3>2 DEF Stays
    <3>3. CASE ~ (o < Sealed)
      <4>1. o \in Open /\ o \in Open'
        BY <1>2, <1>3, <1>4, <1>5, <3>1, <3>3 DEF Open
      <4> QED BY <1>1, <1>8, <4>1 DEF Facts, PlaceFacts
    <3> QED BY <3>2, <3>3
  <2>2. PICK k : k = Where(o)
    OBVIOUS
  <2>3. Start(k)' = Start(k)
    BY <1>2 DEF Start
  <2> QED BY <2>1, <2>2, <2>3 DEF EntryOf
<1>12. \A i \in new : at[i] \in Recs' /\ at[i] \notin Recs
  BY <1>3, <1>4, <1>5 DEF Adds
<1>13. ASSUME NEW o \in Recs' \ Recs
       PROVE  \E i \in new : /\ o = at[i] /\ o >= NextOffset
                /\ Event(o)' = b[i] /\ Dev(o)' = b[i].dev /\ Id(o)' = b[i].id
                /\ log'[o + 1].base = NextOffset
                /\ log'[o + 1].flags = Flags(b[i])
                /\ EntryOf(o)' = [off |-> o, seg |-> 0, pos |-> o - Sealed]
  <2>1. o \in NextOffset .. NextOffset' - 1 /\ o >= NextOffset
    BY <1>3, <1>4, <1>5
  <2>2. PICK i \in new : /\ o = at[i]
                         /\ log'[o + 1] = [ev |-> b[i], flags |-> Flags(b[i]), base |-> NextOffset]
    BY <2>1 DEF Adds
  <2>3. Event(o)' = b[i]
    BY <2>2 DEF Event
  <2>4. Where(o)' = 0
    <3>1. o \in Open'
      <4>1. Open' = Sealed .. Len(log') - 1
        BY <1>2, <1>4 DEF Open
      <4>2. o \in NextOffset .. Len(log') - 1
        BY <1>4, <2>1
      <4>3. o \in Sealed .. Len(log') - 1
        BY <1>3, <1>4, <4>2
      <4> QED BY <4>1, <4>3
    <3> QED BY <1>8, <3>1 DEF Facts, PlaceFacts
  <2>5. EntryOf(o)' = [off |-> o, seg |-> 0, pos |-> o - Sealed]
    BY <1>2, <2>4 DEF EntryOf, Start
  <2> QED BY <2>1, <2>2, <2>3, <2>5 DEF Dev, Id
<1> QED BY <1>2, <1>7, <1>8, <1>9, <1>10, <1>11, <1>12, <1>13

LEMMA IngestWorld == ASSUME World, NEW b \in Batches, Ingest(b) PROVE World' /\ Grows
<1>0. PICK new \in SUBSET DOMAIN b : \E at : Adds(b, new, at) /\ IsFiniteSet(new)
  BY IngestAdds
<1>1. PICK at : Adds(b, new, at) /\ IsFiniteSet(new)
  BY <1>0
<1>2. Base /\ Facts
  BY WorldFacts
<1>3. /\ Base' /\ Tiled' /\ Grows /\ Sealed' = Sealed /\ Stays
      /\ \A o \in Recs : EntryOf(o)' = EntryOf(o)
      /\ \A i \in new : at[i] \in Recs' /\ at[i] \notin Recs
      /\ \A o \in Recs' \ Recs :
            \E i \in new : /\ o = at[i] /\ o >= NextOffset
                           /\ Event(o)' = b[i] /\ Dev(o)' = b[i].dev /\ Id(o)' = b[i].id
                           /\ log'[o + 1].base = NextOffset
                           /\ log'[o + 1].flags = Flags(b[i])
                           /\ EntryOf(o)' = [off |-> o, seg |-> 0, pos |-> o - Sealed]
  BY <1>1, AddedLog
<1>4. \A i \in new : b[i] \in Events /\ b[i].dev \in Devs /\ b[i].id \in Ids
  <2>1. \A i \in DOMAIN b : b[i] \in Events
    BY DEF Batches
  <2> QED BY <2>1 DEF Devs, Ids
<1>5. \A i \in new : /\ Event(at[i])' = b[i] /\ Dev(at[i])' = b[i].dev /\ Id(at[i])' = b[i].id
                     /\ EntryOf(at[i])' = [off |-> at[i], seg |-> 0, pos |-> at[i] - Sealed]
  <2> SUFFICES ASSUME NEW i \in new
               PROVE  /\ Event(at[i])' = b[i] /\ Dev(at[i])' = b[i].dev /\ Id(at[i])' = b[i].id
                      /\ EntryOf(at[i])' = [off |-> at[i], seg |-> 0, pos |-> at[i] - Sealed]
      OBVIOUS
  <2>1. PICK o \in Recs' \ Recs : o = at[i]
    BY <1>3
  <2>2. PICK j \in new : /\ o = at[j] /\ Event(o)' = b[j] /\ Dev(o)' = b[j].dev /\ Id(o)' = b[j].id
                         /\ EntryOf(o)' = [off |-> o, seg |-> 0, pos |-> o - Sealed]
    BY <1>3
  <2>3. i = j
    BY <1>1, <2>1, <2>2 DEF Adds
  <2> QED BY <2>1, <2>2, <2>3
<1>6. UNCHANGED <<segs, frz, client, forgotten>> /\ pc = "up"
  BY DEF Ingest
<1>7. /\ NextOffset \in Nat /\ Recs \subseteq Recs' /\ forgotten' = forgotten
      /\ \A o \in Recs : Event(o)' = Event(o) /\ Dev(o)' = Dev(o) /\ Id(o)' = Id(o)
  BY <1>2, <1>3, <1>6 DEF Facts, LogFacts, Stays
<1>8. Logged'
  <2>1. log' \in Seq(Record) /\ Len(log') <= MaxLog
    BY <1>1 DEF Adds, NextOffset
  <2>2. ASSUME NEW o \in Recs' PROVE log'[o + 1].base <= o
    <3>1. CASE o \in Recs
      BY <1>1, <3>1 DEF Adds, World, Logged
    <3>2. CASE o \notin Recs
      BY <1>3, <1>7, <3>2
    <3> QED BY <3>1, <3>2
  <2>3. forgotten' \subseteq Recs'
    BY <1>7 DEF World, Logged
  <2>4. pc' \in {"up", "sealing"} /\ (pc' = "sealing" => NextOffset' - Sealed' >= SegMax)
    BY <1>3 DEF Ingest, NextOffset
  <2> QED BY <2>1, <2>2, <2>3, <2>4 DEF Logged
<1>9. Entered'
  <2>1. DOMAIN entries' = Devs
    BY <1>1 DEF Adds
  <2>2. ASSUME NEW d \in Devs, NEW e \in entries'[d]
        PROVE  e.off \in Recs' /\ Dev(e.off)' = d /\ e = EntryOf(e.off)'
    <3>1. CASE e \in entries[d]
      <4>1. e.off \in Recs /\ Dev(e.off) = d /\ e = EntryOf(e.off)
        BY <3>1 DEF World, Entered
      <4>2. PICK o \in Recs : o = e.off
        BY <4>1
      <4> QED BY <1>3, <1>7, <4>1, <4>2
    <3>2. CASE \E i \in new : b[i].dev = d /\ e = [off |-> at[i], seg |-> 0, pos |-> at[i] - Sealed]
      <4>1. PICK i \in new : b[i].dev = d /\ e = [off |-> at[i], seg |-> 0, pos |-> at[i] - Sealed]
        BY <3>2
      <4>2. PICK o \in Recs' : o = at[i]
        BY <1>3
      <4>3. e.off = o
        BY <4>1, <4>2
      <4>4. EntryOf(o)' = e /\ Dev(o)' = d
        BY <1>5, <4>1, <4>2
      <4> QED BY <4>3, <4>4
    <3> QED BY <1>1, <3>1, <3>2 DEF Adds
  <2>3. ASSUME NEW d \in Devs, NEW o \in (Recs \ forgotten)', Dev(o)' = d
        PROVE  EntryOf(o)' \in entries'[d]
    <3>1. CASE o \in Recs
      <4>1. EntryOf(o) \in entries[d]
        BY <1>7, <2>3, <3>1 DEF World, Entered
      <4> QED BY <1>1, <1>3, <3>1, <4>1 DEF Adds
    <3>2. CASE o \notin Recs
      <4>1. PICK i \in new : /\ o = at[i] /\ Dev(o)' = b[i].dev
                             /\ EntryOf(o)' = [off |-> o, seg |-> 0, pos |-> o - Sealed]
        BY <1>3, <3>2
      <4>2. b[i].dev = d /\ EntryOf(o)' = [off |-> at[i], seg |-> 0, pos |-> at[i] - Sealed]
        BY <2>3, <4>1
      <4> QED BY <1>1, <4>2 DEF Adds
    <3> QED BY <3>1, <3>2
  <2> QED BY <2>1, <2>2, <2>3 DEF Entered
<1>10. \A i \in new : ids[b[i].dev][b[i].id] = -1
  BY <1>1 DEF Adds, Stored
<1>11. \A i, j \in new : b[i].id = b[j].id => i = j
  <2> SUFFICES ASSUME NEW i \in new, NEW j \in new, b[i].id = b[j].id, j < i PROVE FALSE
    <3>1. \A i \in new : i \in Int
      BY DEF Batches
    <3> QED BY <3>1
  <2>1. DOMAIN b \subseteq Int /\ \A k \in DOMAIN b : 1 <= k
    BY DEF Batches
  <2>2. j \in 1 .. i - 1
    BY <2>1
  <2>3. \A k \in 1 .. i - 1 : b[k].id = b[i].id => ids[b[k].dev][b[k].id] # -1
    BY <1>1 DEF Adds, Stored
  <2> QED BY <1>10, <2>2, <2>3
<1>12. Known'
  <2>1. ids' \in [Devs -> [Ids -> Offsets \cup {-1}]]
    BY <1>1 DEF Adds
  <2>2. ASSUME NEW o \in Recs' \ forgotten' PROVE ids'[Dev(o)'][Id(o)'] # -1
    <3>1. CASE o \in Recs
      <4>1. Dev(o) \in Devs /\ Id(o) \in Ids /\ ids[Dev(o)][Id(o)] # -1
        BY <1>2, <1>7, <3>1 DEF Facts, LogFacts, World, Known
      <4>2. \/ ids'[Dev(o)][Id(o)] # -1
            \/ ids'[Dev(o)][Id(o)] = ids[Dev(o)][Id(o)]
        BY <1>1, <4>1 DEF Adds
      <4> QED BY <1>7, <3>1, <4>1, <4>2
    <3>2. CASE o \notin Recs
      <4>1. PICK i \in new : Dev(o)' = b[i].dev /\ Id(o)' = b[i].id
        BY <1>3, <3>2
      <4>2. b[i].dev \in Devs /\ b[i].id \in Ids
        BY <1>4
      <4>3. ids'[b[i].dev][b[i].id] # -1
        BY <1>1, <4>2 DEF Adds
      <4> QED BY <4>1, <4>3
    <3> QED BY <3>1, <3>2
  <2>3. ASSUME NEW o \in Recs', NEW q \in Recs', o < q, Dev(o)' = Dev(q)', Id(o)' = Id(q)'
        PROVE  o \in forgotten'
    <3>1. CASE o \in Recs /\ q \in Recs
      <4>1. Event(o).dev = Event(q).dev /\ Event(o).id = Event(q).id
        BY <1>7, <2>3, <3>1 DEF Dev, Id
      <4>2. o \in 0 .. NextOffset - 1 /\ q \in 0 .. NextOffset - 1
        BY <3>1 DEF Recs
      <4> QED BY <1>7, <2>3, <4>1, <4>2 DEF World, Known, StoredOnce
    <3>2. CASE o \in Recs /\ q \notin Recs
      <4>1. PICK i \in new : Dev(q)' = b[i].dev /\ Id(q)' = b[i].id
        BY <1>3, <3>2
      <4>2. ids[Dev(o)][Id(o)] = -1
        BY <1>7, <1>10, <2>3, <3>2, <4>1
      <4> QED BY <1>7, <3>2, <4>2 DEF World, Known
    <3>3. CASE o \notin Recs /\ q \in Recs
      <4>1. o >= NextOffset /\ q < NextOffset
        BY <1>3, <1>7, <3>3 DEF Recs
      <4> QED BY <1>7, <2>3, <3>3, <4>1 DEF Recs
    <3>4. CASE o \notin Recs /\ q \notin Recs
      <4>1. PICK i \in new : o = at[i] /\ Id(o)' = b[i].id
        BY <1>3, <3>4
      <4>2. PICK j \in new : q = at[j] /\ Id(q)' = b[j].id
        BY <1>3, <3>4
      <4>3. o = q
        BY <1>11, <2>3, <4>1, <4>2
      <4>4. o \in Int
        BY DEF Recs
      <4> QED BY <2>3, <4>3, <4>4
    <3> QED BY <3>1, <3>2, <3>3, <3>4
  <2>4. StoredOnce'
    BY <2>3 DEF StoredOnce, Dev, Id, Recs
  <2> QED BY <2>1, <2>2, <2>4 DEF Known
<1>13. Frozen'
  BY <1>3, <1>6 DEF World, Frozen
<1>14. Learnt'
  <2>0. top \in [Devs -> Nat] /\ DOMAIN seqs = Devs
    BY DEF World, Learnt
  <2>1. ASSUME NEW d \in Devs
        PROVE  /\ top'[d] \in Nat /\ top[d] <= top'[d]
               /\ \A i \in new : b[i].dev = d => b[i].ts <= top'[d]
               /\ top'[d] = top[d] \/ \E i \in new : b[i].dev = d /\ top'[d] = b[i].ts
    <3>1. PICK of : of = {j \in new : b[j].dev = d}
      OBVIOUS
    <3>2. PICK T : T = {b[i].ts : i \in of}
      OBVIOUS
    <3>3. PICK f : f = [i \in of |-> b[i].ts]
      OBVIOUS
    <3>4. of \in SUBSET new /\ IsFiniteSet(of)
      <4>1. of \in SUBSET new
        BY <3>1
      <4> QED BY <1>1, <4>1, FS_Subset
    <3>5. f \in Surjection(of, T)
      BY <3>2, <3>3 DEF Surjection
    <3>6. IsFiniteSet(T)
      BY <3>4, <3>5, FS_Surjection
    <3>7. T \in SUBSET Nat /\ top[d] \in Nat
      BY <1>4, <2>0, <3>2, <3>4, ConstantsAssumption
    <3>8. IsFiniteSet(T \cup {top[d]})
      BY <3>6, FS_AddElement
    <3>9. PICK U : U = {top[d]} \cup T
      OBVIOUS
    <3>10. U \in SUBSET Nat /\ IsFiniteSet(U) /\ U # {}
      <4>1. U = T \cup {top[d]}
        BY <3>9
      <4> QED BY <3>7, <3>8, <4>1
    <3>11. Greatest(U) \in Nat /\ Greatest(U) \in U /\ \A x \in U : x <= Greatest(U)
      BY <3>10, GreatestIs
    <3>12. top'[d] = Greatest(U)
      <4>1. top' = [c \in Devs |-> Greatest({top[c]} \cup {b[i].ts : i \in {j \in new : b[j].dev = c}})]
        BY <1>1 DEF Adds
      <4>2. top'[d] = Greatest({top[d]} \cup {b[i].ts : i \in {j \in new : b[j].dev = d}})
        BY <4>1
      <4> QED BY <3>1, <3>2, <3>9, <4>2
    <3> QED BY <3>1, <3>2, <3>9, <3>11, <3>12
  <2>2. DOMAIN seqs' = Devs /\ top' \in [Devs -> Nat]
    <3>1. DOMAIN top' = Devs /\ top' = [d \in Devs |-> top'[d]] /\ DOMAIN seqs' = Devs
      BY <1>1 DEF Adds
    <3> QED BY <2>1, <3>1
  <2>3. ASSUME forgotten' = {}, NEW d \in Devs
        PROVE  /\ seqs[d] = {Event(o).seq : o \in {q \in Recs : Dev(q) = d}}
               /\ \A o \in Recs : Dev(o) = d => Event(o).ts <= top[d]
               /\ top[d] = 0 \/ \E o \in Recs : Dev(o) = d /\ Event(o).ts = top[d]
    BY <1>7, <2>3 DEF World, Learnt
  <2>4. ASSUME forgotten' = {}, NEW d \in Devs
        PROVE  /\ seqs'[d] = {Event(o)'.seq : o \in {q \in Recs' : Dev(q)' = d}}
               /\ \A o \in Recs' : Dev(o)' = d => Event(o)'.ts <= top'[d]
               /\ top'[d] = 0 \/ \E o \in Recs' : Dev(o)' = d /\ Event(o)'.ts = top'[d]
    <3>1. seqs'[d] = seqs[d] \cup {b[i].seq : i \in {j \in new : b[j].dev = d}}
      BY <1>1 DEF Adds
    <3>2. ASSUME NEW s \in seqs'[d]
          PROVE  s \in {Event(o)'.seq : o \in {q \in Recs' : Dev(q)' = d}}
      <4>1. CASE s \in seqs[d]
        <5>1. PICK o \in Recs : Dev(o) = d /\ s = Event(o).seq
          BY <2>3, <2>4, <4>1
        <5>2. o \in Recs' /\ Dev(o)' = d /\ s = Event(o)'.seq
          BY <1>7, <5>1
        <5> QED BY <5>2
      <4>2. CASE s \in {b[i].seq : i \in {j \in new : b[j].dev = d}}
        <5>1. PICK i \in new : b[i].dev = d /\ s = b[i].seq
          BY <4>2
        <5>2. PICK o \in Recs' : o = at[i]
          BY <1>3
        <5>3. Dev(o)' = d /\ s = Event(o)'.seq
          BY <1>5, <5>1, <5>2
        <5> QED BY <5>3
      <4> QED BY <3>1, <4>1, <4>2
    <3>3. ASSUME NEW o \in Recs', Dev(o)' = d
          PROVE  Event(o)'.seq \in seqs'[d] /\ Event(o)'.ts <= top'[d]
      <4>1. CASE o \in Recs
        <5>1. Event(o).seq \in seqs[d] /\ Event(o).ts <= top[d] /\ Event(o).ts \in Nat
          BY <1>2, <1>7, <2>3, <2>4, <3>3, <4>1 DEF Facts, LogFacts
        <5> QED BY <1>7, <2>0, <2>1, <3>1, <4>1, <5>1
      <4>2. CASE o \notin Recs
        <5>1. PICK i \in new : Event(o)' = b[i] /\ Dev(o)' = b[i].dev
          BY <1>3, <4>2
        <5> QED BY <2>1, <3>1, <3>3, <5>1
      <4> QED BY <4>1, <4>2
    <3>4. seqs'[d] = {Event(o)'.seq : o \in {q \in Recs' : Dev(q)' = d}}
      BY <3>2, <3>3
    <3>5. top'[d] = 0 \/ \E o \in Recs' : Dev(o)' = d /\ Event(o)'.ts = top'[d]
      <4>1. CASE top'[d] = top[d]
        BY <1>7, <2>3, <2>4, <4>1
      <4>2. CASE \E i \in new : b[i].dev = d /\ top'[d] = b[i].ts
        <5>1. PICK i \in new : b[i].dev = d /\ top'[d] = b[i].ts
          BY <4>2
        <5>2. PICK o \in Recs' : o = at[i]
          BY <1>3
        <5>3. Dev(o)' = d /\ Event(o)'.ts = top'[d]
          BY <1>5, <5>1, <5>2
        <5> QED BY <5>3
      <4> QED BY <2>1, <4>1, <4>2
    <3> QED BY <3>3, <3>4, <3>5
  <2>5. ASSUME forgotten' = {}, NEW o \in Recs'
        PROVE  log'[o + 1].flags =
                 [conflict |-> \E q \in 0 .. log'[o + 1].base - 1 :
                                  Dev(q)' = Dev(o)' /\ Event(q)'.seq = Event(o)'.seq,
                  rollback |-> \E q \in 0 .. log'[o + 1].base - 1 :
                                  Dev(q)' = Dev(o)' /\ Event(q)'.ts > Event(o)'.ts]
    <3>1. CASE o \in Recs
      <4>1. log'[o + 1] = log[o + 1]
        BY <1>1, <3>1 DEF Adds
      <4>2. PICK base \in Nat : base = log[o + 1].base
        BY <1>2, <3>1 DEF Facts, LogFacts, Record
      <4>3. 0 .. base - 1 \subseteq Recs
        <5>1. base <= o /\ o < NextOffset /\ o \in Nat
          BY <1>7, <3>1, <4>2 DEF World, Logged, Recs
        <5> QED BY <1>7, <5>1 DEF Recs
      <4>4. log[o + 1].flags =
              [conflict |-> \E q \in 0 .. base - 1 : Dev(q) = Dev(o) /\ Event(q).seq = Event(o).seq,
               rollback |-> \E q \in 0 .. base - 1 : Dev(q) = Dev(o) /\ Event(q).ts > Event(o).ts]
        <5>1. forgotten = {} /\ o \in 0 .. NextOffset - 1
          BY <1>7, <2>5, <3>1 DEF Recs
        <5>2. PICK past : past = {q \in 0 .. base - 1 : Event(q).dev = Event(o).dev}
          OBVIOUS
        <5>3. log[o + 1].flags =
                 [conflict |-> \E q \in past : Event(q).seq = Event(o).seq,
                  rollback |-> \E q \in past : Event(q).ts > Event(o).ts]
          BY <4>2, <5>1, <5>2 DEF World, Learnt, FlagsTell
        <5>4. (\E q \in past : Event(q).seq = Event(o).seq)
                = \E q \in 0 .. base - 1 : Dev(q) = Dev(o) /\ Event(q).seq = Event(o).seq
          BY <5>2 DEF Dev
        <5>5. (\E q \in past : Event(q).ts > Event(o).ts)
                = \E q \in 0 .. base - 1 : Dev(q) = Dev(o) /\ Event(q).ts > Event(o).ts
          BY <5>2 DEF Dev
        <5> QED BY <5>3, <5>4, <5>5
      <4>5. (\E q \in 0 .. base - 1 : Dev(q) = Dev(o) /\ Event(q).seq = Event(o).seq)
              = \E q \in 0 .. base - 1 : Dev(q)' = Dev(o)' /\ Event(q)'.seq = Event(o)'.seq
        BY <1>7, <3>1, <4>3
      <4>6. (\E q \in 0 .. base - 1 : Dev(q) = Dev(o) /\ Event(q).ts > Event(o).ts)
              = \E q \in 0 .. base - 1 : Dev(q)' = Dev(o)' /\ Event(q)'.ts > Event(o)'.ts
        BY <1>7, <3>1, <4>3
      <4> QED BY <4>1, <4>2, <4>4, <4>5, <4>6
    <3>2. CASE o \notin Recs
      <4>1. PICK i \in new : /\ Event(o)' = b[i] /\ Dev(o)' = b[i].dev
                             /\ log'[o + 1].base = NextOffset /\ log'[o + 1].flags = Flags(b[i])
        BY <1>3, <3>2
      <4>2. PICK d \in Devs : d = b[i].dev
        BY <1>4
      <4>3. Flags(b[i]) = [conflict |-> b[i].seq \in seqs[d], rollback |-> b[i].ts < top[d]]
        BY <4>2 DEF Flags
      <4>4. 0 .. log'[o + 1].base - 1 = Recs
        BY <4>1 DEF Recs
      <4>5. (b[i].seq \in seqs[d])
               = \E q \in Recs : Dev(q)' = Dev(o)' /\ Event(q)'.seq = Event(o)'.seq
        <5>1. \A q \in Recs : /\ Dev(q)' = Dev(o)' <=> Dev(q) = d
                              /\ Event(q)'.seq = Event(o)'.seq <=> Event(q).seq = b[i].seq
          BY <1>7, <4>1, <4>2
        <5>2. PICK D : D = {q \in Recs : Dev(q) = d}
          OBVIOUS
        <5>3. seqs[d] = {Event(q).seq : q \in D}
          BY <2>3, <2>5, <5>2
        <5>4. ASSUME b[i].seq \in seqs[d]
              PROVE  \E q \in Recs : Dev(q)' = Dev(o)' /\ Event(q)'.seq = Event(o)'.seq
          <6>1. PICK q \in D : b[i].seq = Event(q).seq
            BY <5>3, <5>4
          <6> QED BY <5>1, <5>2, <6>1
        <5>5. ASSUME NEW q \in Recs, Dev(q)' = Dev(o)', Event(q)'.seq = Event(o)'.seq
              PROVE  b[i].seq \in seqs[d]
          <6>1. q \in D /\ Event(q).seq = b[i].seq
            BY <5>1, <5>2, <5>5
          <6> QED BY <5>3, <6>1
        <5>6. CASE b[i].seq \in seqs[d]
          <6>1. (b[i].seq \in seqs[d]) = TRUE
            BY <5>6
          <6>2. (\E q \in Recs : Dev(q)' = Dev(o)' /\ Event(q)'.seq = Event(o)'.seq) = TRUE
            BY <5>4, <5>6
          <6> QED BY <6>1, <6>2
        <5>7. CASE b[i].seq \notin seqs[d]
          <6>1. (b[i].seq \in seqs[d]) = FALSE
            BY <5>7
          <6>2. (\E q \in Recs : Dev(q)' = Dev(o)' /\ Event(q)'.seq = Event(o)'.seq) = FALSE
            BY <5>5, <5>7
          <6> QED BY <6>1, <6>2
        <5> QED BY <5>6, <5>7
      <4>6. (b[i].ts < top[d])
               = \E q \in Recs : Dev(q)' = Dev(o)' /\ Event(q)'.ts > Event(o)'.ts
        <5>1. /\ \A q \in Recs : Dev(q) = d => Event(q).ts <= top[d]
              /\ top[d] = 0 \/ \E q \in Recs : Dev(q) = d /\ Event(q).ts = top[d]
          BY <2>3, <2>5
        <5>2. b[i].ts \in Nat \ {0} /\ top[d] \in Nat /\ \A q \in Recs : Event(q).ts \in Nat
          BY <1>2, <1>4, <2>0, ConstantsAssumption DEF Facts, LogFacts
        <5>3. \A q \in Recs : /\ Dev(q)' = Dev(o)' <=> Dev(q) = d
                              /\ Event(q)'.ts = Event(q).ts /\ Event(o)'.ts = b[i].ts
          BY <1>7, <4>1, <4>2
        <5>4. ASSUME b[i].ts < top[d]
              PROVE  \E q \in Recs : Dev(q)' = Dev(o)' /\ Event(q)'.ts > Event(o)'.ts
          <6>1. top[d] # 0
            BY <5>2, <5>4
          <6>2. PICK q \in Recs : Dev(q) = d /\ Event(q).ts = top[d]
            BY <5>1, <6>1
          <6>3. Event(q)'.ts > Event(o)'.ts
            BY <5>2, <5>3, <5>4, <6>2
          <6> QED BY <5>3, <6>2, <6>3
        <5>5. ASSUME NEW q \in Recs, Dev(q)' = Dev(o)', Event(q)'.ts > Event(o)'.ts
              PROVE  b[i].ts < top[d]
          <6>1. Event(q).ts <= top[d] /\ Event(q).ts > b[i].ts
            BY <5>1, <5>3, <5>5
          <6> QED BY <5>2, <6>1
        <5>6. CASE b[i].ts < top[d]
          <6>1. (b[i].ts < top[d]) = TRUE
            BY <5>6
          <6>2. (\E q \in Recs : Dev(q)' = Dev(o)' /\ Event(q)'.ts > Event(o)'.ts) = TRUE
            BY <5>4, <5>6
          <6> QED BY <6>1, <6>2
        <5>7. CASE ~ (b[i].ts < top[d])
          <6>1. (b[i].ts < top[d]) = FALSE
            BY <5>7
          <6>2. (\E q \in Recs : Dev(q)' = Dev(o)' /\ Event(q)'.ts > Event(o)'.ts) = FALSE
            BY <5>5, <5>7
          <6> QED BY <6>1, <6>2
        <5> QED BY <5>6, <5>7
      <4> QED BY <4>1, <4>3, <4>4, <4>5, <4>6
    <3> QED BY <3>1, <3>2
  <2>6. ASSUME forgotten' = {}, NEW o \in Recs'
        PROVE  LET past == {q \in 0 .. log'[o + 1].base - 1 : Event(q)'.dev = Event(o)'.dev}
               IN  log'[o + 1].flags =
                     [conflict |-> \E q \in past : Event(q)'.seq = Event(o)'.seq,
                      rollback |-> \E q \in past : Event(q)'.ts > Event(o)'.ts]
    <3>1. PICK past : past = {q \in 0 .. log'[o + 1].base - 1 : Event(q)'.dev = Event(o)'.dev}
      OBVIOUS
    <3>2. (\E q \in past : Event(q)'.seq = Event(o)'.seq)
             = \E q \in 0 .. log'[o + 1].base - 1 : Dev(q)' = Dev(o)' /\ Event(q)'.seq = Event(o)'.seq
      BY <3>1 DEF Dev
    <3>3. (\E q \in past : Event(q)'.ts > Event(o)'.ts)
             = \E q \in 0 .. log'[o + 1].base - 1 : Dev(q)' = Dev(o)' /\ Event(q)'.ts > Event(o)'.ts
      BY <3>1 DEF Dev
    <3> QED BY <2>5, <2>6, <3>1, <3>2, <3>3
  <2>7. FlagsTell'
    BY <2>6 DEF FlagsTell, Recs
  <2> QED BY <2>2, <2>4, <2>7 DEF Learnt
<1> QED BY <1>3, <1>8, <1>9, <1>12, <1>13, <1>14 DEF World

-----------------------------------------------------------------------------
(***************************************************************************)
(* All steps.                                                              *)
(***************************************************************************)

LEMMA InitWorld == Init => World
<1> SUFFICES ASSUME Init PROVE World
    OBVIOUS
<1>1. log = <<>> /\ segs = <<>> /\ forgotten = {} /\ pc = "up" /\ frz = NoFreeze
  BY DEF Init
<1>2. NextOffset = 0 /\ Recs = {} /\ Sealed = 0 /\ DOMAIN segs = {}
  BY <1>1 DEF NextOffset, Recs, Sealed
<1>3. Logged
  BY <1>1, <1>2, ConstantsAssumption DEF Logged, NextOffset
<1>4. Tiled
  BY <1>1, <1>2 DEF Tiled
<1>5. Entered
  BY <1>2 DEF Init, Entered
<1>6. Known
  <2>1. StoredOnce
    BY <1>2 DEF StoredOnce, Recs
  <2> QED BY <1>2, <2>1 DEF Init, Known
<1>7. Learnt
  <2>1. FlagsTell
    BY <1>2 DEF FlagsTell, Recs
  <2> QED BY <1>2, <2>1 DEF Init, Learnt
<1>8. Frozen
  BY <1>1 DEF Frozen
<1> QED BY <1>3, <1>4, <1>5, <1>6, <1>7, <1>8 DEF World

LEMMA SameWorld ==
    ASSUME World, UNCHANGED <<log, segs, index, frz, pc, forgotten>>
    PROVE  World' /\ Grows
<1>1. Base
  BY WorldFacts
<1>2. segs' = segs /\ Relabels
  BY <1>1 DEF Relabels, Base, Tiled
<1>3. UNCHANGED <<log, index, pc, forgotten>> /\ frz' = frz
  OBVIOUS
<1> QED BY <1>2, <1>3, RelabelWorld

LEMMA WritingWorld == World /\ Writing => World' /\ Grows
BY IngestWorld, SealFullWorld, SealAgedWorld, FreezeWorld DEF Writing

LEMMA UpkeepWorld == World /\ Upkeep => World' /\ Grows
BY QuarantineWorld, RepairWorld, EvictWorld, RestartWorld DEF Upkeep

LEMMA AskingReads == ASSUME Asking PROVE Reading
BY DEF Asking, BeginDevice, BeginHead, BeginFrozen, Begin, PlanDevice, ReadDevice, PlanReplay,
       ReadFull, ReadAll, ReadGone, ReadRetry, ReplayReads

LEMMA NextWorld == World /\ [Next]_vars => World' /\ Grows
<1> SUFFICES ASSUME World, [Next]_vars PROVE World' /\ Grows
    OBVIOUS
<1>1. CASE Writing
  BY <1>1, WritingWorld
<1>2. CASE Upkeep
  BY <1>2, UpkeepWorld
<1>3. CASE Asking
  BY <1>3, AskingReads, SameWorld DEF Reading
<1>4. CASE UNCHANGED vars
  BY <1>4, SameWorld DEF vars
<1> QED BY <1>1, <1>2, <1>3, <1>4 DEF Next

\* What the store keeps of its events hangs together, whatever is sent, sealed,
\* damaged, repaired, evicted, frozen, read or restarted.
THEOREM WorldHolds == Spec => []World
BY InitWorld, NextWorld, PTL DEF Spec

\* Nothing is stored twice: an event that is sent again is found in the index,
\* unless a restart could not read the part of the index that knew it.
THEOREM NothingStoredTwice == Spec => []StoredOnce
<1>1. World => StoredOnce
  BY DEF World, Known
<1> QED BY <1>1, WorldHolds, PTL

\* While no part of the index is lost, the flags of an event tell of earlier
\* batches: repairs, evictions and restarts change nothing of that.
THEOREM FlagsAreRight == Spec => []FlagsTell
<1>1. World => FlagsTell
  BY DEF World, Learnt
<1> QED BY <1>1, WorldHolds, PTL

\* The index of a device has its events, each where it is found.
THEOREM IndexIsRight == Spec => []IndexLeads
<1>1. ASSUME World PROVE IndexLeads
  <2>1. Base /\ Facts
    BY <1>1, WorldFacts
  <2>2. ASSUME NEW d \in Devs, NEW e \in entries[d]
        PROVE  e.seg = Where(e.off) /\ Found(e) = e.off /\ Event(e.off).dev = d
    <3>1. e.off \in Recs /\ Dev(e.off) = d /\ e = EntryOf(e.off)
      BY <1>1 DEF World, Entered
    <3> QED BY <2>1, <3>1 DEF Facts, LeadFacts, Dev
  <2>3. ASSUME NEW d \in Devs, NEW o \in 0 .. NextOffset - 1, Event(o).dev = d
        PROVE  o \in {e.off : e \in entries[d]} \cup forgotten
    <3>1. o \in Recs /\ Dev(o) = d
      BY <2>3 DEF Recs, Dev
    <3>2. o \notin forgotten => EntryOf(o) \in entries[d] /\ EntryOf(o).off = o
      BY <1>1, <2>1, <3>1 DEF World, Entered, Facts, LeadFacts
    <3> QED BY <3>2
  <2> QED BY <2>2, <2>3 DEF IndexLeads
<1> QED BY <1>1, WorldHolds, PTL
=============================================================================
