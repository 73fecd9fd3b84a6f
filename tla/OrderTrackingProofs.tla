------------------------ MODULE OrderTrackingProofs -------------------------
(***************************************************************************)
(* Proofs about OrderTracking, for every set of orders and readers, every  *)
(* threshold and every number of drops: type correctness, the truth of the *)
(* endings that are told, and that no ending of an announced order is      *)
(* lost.                                                                   *)
(***************************************************************************)
EXTENDS OrderTracking, TLAPS

USE OrderAssumption DEF OrderAssumption

Ats    == {"idle", "polled", "announce", "lookup"}
Reader == [at : Ats, snap : OrderSizes, prev : OrderSizes, now : SUBSET Oids,
           same : BOOLEAN, todo : SUBSET Oids]
Frames == [oid : Oids, status : Statuses, size : Nat]

-----------------------------------------------------------------------------
(* The invariant.                                                          *)

\* Sizes on the exchange never exceed what was ordered.
BookFits ==
  \A o \in Oids :
    /\ book[o].size <= Orig[o]
    /\ book[o].status = "open" => book[o].size > 0

\* A frame under way is no lie: a final status in it is still the order's.
FrameFits(f, b) ==
  /\ f.size <= Orig[f.oid]
  /\ f.status = "open" => f.size > 0
  /\ f.status \in Final => b[f.oid].status = f.status

FramesFit == \A i \in 1..Len(frames) : FrameFits(frames[i], book)

\* Only orders that were placed above the threshold are spoken of.
ToldFit == \A e \in told : e.oid \in Oids /\ Orig[e.oid] >= Least

\* A reader that still looks at the tracked dictionary sees what is tracked.
ReaderFits(r) ==
  /\ reader[r].same => reader[r].now = Listed(tracked)
  /\ \A o \in reader[r].todo : Orig[o] >= Least
  /\ reader[r].at = "lookup" => reader[r].todo # {}

ReadersFit == \A r \in Readers : ReaderFits(r)

KnownInv == ~known => tracked = Empty

TypeInv == TypeOK /\ BookFits /\ FramesFit /\ ToldFit /\ ReadersFit /\ KnownInv

LEMMA EmptyFits == Empty \in OrderSizes /\ Idle \in Reader
BY DEF Empty, OrderSizes, Sizes, Idle, Reader, Ats

LEMMA TypeInit == Init => TypeInv
<1> SUFFICES ASSUME Init PROVE TypeInv
  OBVIOUS
<1>1. /\ book \in [Oids -> [status : Statuses, size : Nat]]
      /\ BookFits
  BY DEF Init, BookFits, Statuses, Final
<1>2. \A r \in Readers : reader[r] = Idle
  BY DEF Init
<1>3. reader \in [Readers -> Reader] /\ ReadersFit
  BY <1>2, EmptyFits DEF Init, ReadersFit, ReaderFits, Idle
<1>4. TypeOK
  <2>1. \A r \in Readers : reader[r].at # "lookup"
    BY <1>2 DEF Idle
  <2>2. frames \in Seq([oid : Oids, status : Statuses, size : Nat])
    BY DEF Init
  <2> QED BY <1>1, <1>3, <2>1, <2>2, EmptyFits DEF Init, TypeOK, Reader, Ats
<1> QED BY <1>1, <1>3, <1>4 DEF Init, TypeInv, FramesFit, ToldFit, KnownInv

-----------------------------------------------------------------------------
(* The steps of the exchange.                                              *)

\* What an exchange step reports fits the order, and a final status stays.
LEMMA BecomesStep ==
  ASSUME TypeInv, NEW o \in Oids, NEW status \in Statuses, NEW size \in 0..Orig[o],
         status = "open" => size > 0, book[o].status \notin Final,
         Becomes(o, status, size)
  PROVE  /\ TypeInv'
         /\ \A q \in Oids : book[q].status \in Final => book'[q] = book[q]
<1>1. size \in Nat
  OBVIOUS
<1>2. book' = [book EXCEPT ![o] = [status |-> status, size |-> size]]
  BY DEF Becomes
<1>3. book' \in [Oids -> [status : Statuses, size : Nat]]
  BY <1>1, <1>2 DEF TypeInv, TypeOK
<1>4. \A q \in Oids : q # o => book'[q] = book[q]
  BY <1>2 DEF TypeInv, TypeOK
<1>5. book'[o] = [status |-> status, size |-> size]
  BY <1>2 DEF TypeInv, TypeOK
<1>6. BookFits'
  BY <1>4, <1>5 DEF BookFits, TypeInv
<1>7. frames \in Seq(Frames) /\ Frame(o, status, size) \in Frames
  BY <1>1 DEF TypeInv, TypeOK, Frames, Frame
<1>8. FrameFits(Frame(o, status, size), book')
  BY <1>5 DEF FrameFits, Frame
<1>9. \A i \in 1..Len(frames) : FrameFits(frames[i], book')
  <2> SUFFICES ASSUME NEW i \in 1..Len(frames) PROVE FrameFits(frames[i], book')
    OBVIOUS
  <2> DEFINE f == frames[i]
  <2>1. f \in Frames /\ FrameFits(f, book)
    BY <1>7 DEF TypeInv, FramesFit
  <2>2. f.status \in Final => f.oid # o
    BY <2>1 DEF FrameFits
  <2> QED BY <2>1, <2>2, <1>4 DEF FrameFits, Frames
<1>10. frames' \in Seq(Frames) /\ FramesFit'
  <2>1. CASE UNCHANGED frames
    BY <2>1, <1>7, <1>9 DEF FramesFit
  <2>2. CASE frames' = Append(frames, Frame(o, status, size))
    <3>1. /\ Len(frames') = Len(frames) + 1
          /\ \A i \in 1..Len(frames) : frames'[i] = frames[i]
          /\ frames'[Len(frames) + 1] = Frame(o, status, size)
          /\ frames' \in Seq(Frames)
      BY <2>2, <1>7
    <3>2. \A i \in 1..Len(frames') : FrameFits(frames'[i], book')
      <4> SUFFICES ASSUME NEW i \in 1..Len(frames') PROVE FrameFits(frames'[i], book')
        OBVIOUS
      <4>1. CASE i \in 1..Len(frames)
        BY <4>1, <3>1, <1>9
      <4>2. CASE i = Len(frames) + 1
        BY <4>2, <3>1, <1>8
      <4>3. Len(frames) \in Nat
        BY <1>7
      <4> QED BY <3>1, <4>1, <4>2, <4>3
    <3> QED BY <3>1, <3>2 DEF FramesFit
  <2> QED BY <2>1, <2>2 DEF Becomes
<1>11. UNCHANGED <<enabled, known, tracked, reader, told, overlooked, drops>>
  BY DEF Becomes, wallet, history
<1>12. TypeOK'
  BY <1>3, <1>10, <1>11 DEF TypeInv, TypeOK, Frames
<1>13. ToldFit' /\ ReadersFit' /\ KnownInv'
  BY <1>11 DEF TypeInv, ToldFit, ReadersFit, ReaderFits, KnownInv, Listed
<1>14. \A q \in Oids : book[q].status \in Final => book'[q] = book[q]
  BY <1>4
<1> QED BY <1>6, <1>10, <1>12, <1>13, <1>14 DEF TypeInv

\* An exchange step is such a report.
LEMMA TradeReports ==
  ASSUME TypeInv, NEW o \in Oids, Trade(o)
  PROVE  /\ book[o].status \notin Final
         /\ \E status \in Statuses, size \in 0..Orig[o] :
              Becomes(o, status, size) /\ (status = "open" => size > 0)
<1>1. book[o].size \in 0..Orig[o] /\ Orig[o] \in Nat \ {0}
  BY DEF TypeInv, TypeOK, BookFits
<1>2. {"open", "rejected", "filled", "canceled", "triggered"} \subseteq Statuses
  BY DEF Statuses, Final
<1>3. CASE Submit(o)
  BY <1>1, <1>2, <1>3 DEF Submit, Final
<1>4. CASE Execute(o)
  <2>1. PICK size \in 1..(book[o].size - 1) : Becomes(o, "open", size)
    BY <1>4 DEF Execute
  <2>2. size \in 0..Orig[o] /\ size > 0
    BY <1>1, <2>1
  <2> QED BY <1>2, <1>4, <2>1, <2>2 DEF Execute, Final
<1>5. CASE Fill(o)
  <2>1. 0 \in 0..Orig[o]
    BY <1>1
  <2> QED BY <1>2, <1>5, <2>1 DEF Fill, Final
<1>6. CASE Cancel(o)
  BY <1>1, <1>2, <1>6 DEF Cancel, Final
<1>7. CASE Trigger(o)
  BY <1>1, <1>2, <1>7 DEF Trigger, Final
<1> QED BY <1>3, <1>4, <1>5, <1>6, <1>7 DEF Trade

\* An exchange step keeps the invariant and every final status.
LEMMA TradeStep ==
  ASSUME TypeInv, NEW o \in Oids, Trade(o)
  PROVE  /\ TypeInv'
         /\ \A q \in Oids : book[q].status \in Final => book'[q] = book[q]
         /\ UNCHANGED <<enabled, known, tracked, reader, told, overlooked>>
<1>1. PICK status \in Statuses, size \in 0..Orig[o] :
             Becomes(o, status, size) /\ (status = "open" => size > 0)
  BY TradeReports
<1>2. book[o].status \notin Final
  BY TradeReports
<1>3. UNCHANGED <<enabled, known, tracked, reader, told, overlooked>>
  BY <1>1 DEF Becomes, wallet, history
<1> QED BY <1>1, <1>2, <1>3, BecomesStep

-----------------------------------------------------------------------------
(* The steps of the engine.                                                *)

\* The types of the parts, for the steps below.
LEMMA Parts ==
  ASSUME TypeInv
  PROVE  /\ frames \in Seq(Frames) /\ FramesFit
         /\ tracked \in OrderSizes
         /\ reader \in [Readers -> Reader] /\ ReadersFit
         /\ known \in BOOLEAN /\ enabled \in BOOLEAN
         /\ \A o \in Oids : tracked[o] \in Nat /\ tracked[o] <= Orig[o]
         /\ \A r \in Readers : reader[r] \in Reader /\ ReaderFits(r)
BY DEF TypeInv, TypeOK, Reader, Ats, Frames, ReadersFit, OrderSizes, Sizes

\* The same, put together again.
LEMMA Whole ==
  ASSUME TypeInv, UNCHANGED book, frames' \in Seq(Frames), FramesFit',
         enabled' \in BOOLEAN, known' \in BOOLEAN, tracked' \in OrderSizes,
         reader' \in [Readers -> Reader], ReadersFit', overlooked' \subseteq Oids,
         drops' \in Nat, ToldFit', KnownInv'
  PROVE  TypeInv'
<1>1. \A r \in Readers : reader'[r].at = "lookup" => reader'[r].todo # {}
  BY DEF ReadersFit, ReaderFits
<1> QED BY <1>1 DEF TypeInv, TypeOK, BookFits, Reader, Ats, Frames

LEMMA FrameHead ==
  ASSUME TypeInv, frames # <<>>
  PROVE  /\ Head(frames) \in Frames /\ FrameFits(Head(frames), book)
         /\ Tail(frames) \in Seq(Frames)
         /\ \A i \in 1..Len(Tail(frames)) : FrameFits(Tail(frames)[i], book)
<1>1. frames \in Seq(Frames) /\ FramesFit
  BY Parts
<1>2. Len(frames) \in Nat /\ Len(frames) > 0 /\ Head(frames) = frames[1]
  BY <1>1
<1>3. /\ Tail(frames) \in Seq(Frames) /\ Len(Tail(frames)) = Len(frames) - 1
      /\ \A i \in 1..Len(Tail(frames)) : Tail(frames)[i] = frames[i + 1]
  BY <1>1, <1>2
<1>4. \A i \in 1..Len(Tail(frames)) : i + 1 \in 1..Len(frames)
  BY <1>2, <1>3
<1> QED BY <1>1, <1>2, <1>3, <1>4 DEF FramesFit

\* What a frame leaves in the tracked orders.
Applied(f) == [tracked EXCEPT ![f.oid] = IF f.status = "open" THEN f.size ELSE 0]

LEMMA FrameApplied ==
  ASSUME TypeInv, frames # <<>>, ApplyFrame, enabled
  PROVE  LET f == Head(frames)
         IN /\ tracked' = Applied(f) /\ tracked' \in OrderSizes
            /\ \A o \in Oids : o # f.oid => tracked'[o] = tracked[o]
            /\ tracked'[f.oid] = IF f.status = "open" THEN f.size ELSE 0
            /\ known' = TRUE
            /\ told' = told \cup FromOrderUpdate(f)
            /\ reader' \in [Readers -> Reader]
            /\ \A r \in Readers :
                 reader'[r] = IF reader[r].same
                              THEN [reader[r] EXCEPT !.now = Listed(tracked')]
                              ELSE reader[r]
<1> DEFINE f == Head(frames)
<1>1. f \in Frames /\ FrameFits(f, book)
  BY FrameHead
<1>2. tracked' = Applied(f) /\ known' = TRUE /\ told' = told \cup FromOrderUpdate(f)
  BY DEF ApplyFrame, Applied
<1>3. reader' = [r \in Readers |-> IF reader[r].same
                                   THEN [reader[r] EXCEPT !.now = Listed(tracked')]
                                   ELSE reader[r]]
  BY DEF ApplyFrame
<1>4. Listed(tracked') \in SUBSET Oids
  BY DEF Listed
<1>5. \A r \in Readers : reader[r] \in Reader
  BY Parts
<1>6. reader' \in [Readers -> Reader]
  BY <1>3, <1>4, <1>5 DEF Reader
<1>7. tracked \in [Oids -> Nat] /\ \A o \in Oids : tracked[o] <= Orig[o]
  BY Parts DEF OrderSizes, Sizes
<1>8. f.size \in Nat /\ f.oid \in Oids /\ f.size <= Orig[f.oid]
  BY <1>1 DEF Frames, FrameFits
<1>9. /\ tracked' \in [Oids -> Nat]
      /\ \A o \in Oids : o # f.oid => tracked'[o] = tracked[o]
      /\ tracked'[f.oid] = IF f.status = "open" THEN f.size ELSE 0
  BY <1>2, <1>7, <1>8 DEF Applied
<1>10. tracked' \in OrderSizes
  BY <1>7, <1>8, <1>9 DEF OrderSizes, Sizes
<1> QED BY <1>2, <1>3, <1>6, <1>9, <1>10

LEMMA ApplyFrameStep == TypeInv /\ ApplyFrame => TypeInv'
<1> SUFFICES ASSUME TypeInv, ApplyFrame PROVE TypeInv'
  OBVIOUS
<1> DEFINE f == Head(frames)
<1>1. frames # <<>> /\ UNCHANGED <<book, enabled, overlooked, drops>> /\ frames' = Tail(frames)
  BY DEF ApplyFrame, history
<1>2. frames' \in Seq(Frames) /\ FramesFit'
  BY <1>1, FrameHead DEF FramesFit
<1>3. enabled' \in BOOLEAN /\ overlooked' \subseteq Oids /\ drops' \in Nat
  BY <1>1 DEF TypeInv, TypeOK
<1>4. CASE ~enabled
  <2>1. UNCHANGED <<known, tracked, reader, told>>
    BY <1>4 DEF ApplyFrame, wallet
  <2>2. ReadersFit' /\ ToldFit' /\ KnownInv'
    BY <2>1 DEF TypeInv, ReadersFit, ReaderFits, ToldFit, KnownInv, Listed
  <2>3. known' \in BOOLEAN /\ tracked' \in OrderSizes /\ reader' \in [Readers -> Reader]
    BY <2>1, Parts
  <2> QED BY <1>1, <1>2, <1>3, <2>2, <2>3, Whole
<1>5. CASE enabled
  <2>1. /\ tracked' \in OrderSizes /\ known' = TRUE /\ reader' \in [Readers -> Reader]
        /\ told' = told \cup FromOrderUpdate(f)
        /\ \A r \in Readers :
             reader'[r] = IF reader[r].same
                          THEN [reader[r] EXCEPT !.now = Listed(tracked')]
                          ELSE reader[r]
    BY <1>1, <1>5, FrameApplied
  <2>2. ToldFit'
    <3>1. f.oid \in Oids /\ f.size \in Nat /\ f.size <= Orig[f.oid]
      BY <1>1, FrameHead DEF Frames, FrameFits
    <3>2. \A e \in FromOrderUpdate(f) : e.oid = f.oid /\ Orig[f.oid] >= Least
      BY <3>1 DEF FromOrderUpdate, Event
    <3> QED BY <2>1, <3>1, <3>2 DEF TypeInv, ToldFit
  <2>3. ReadersFit'
    <3> SUFFICES ASSUME NEW r \in Readers PROVE ReaderFits(r)'
      BY DEF ReadersFit
    <3>1. reader[r] \in Reader /\ ReaderFits(r)
      BY Parts
    <3>2. CASE reader[r].same
      <4>1. reader'[r] = [reader[r] EXCEPT !.now = Listed(tracked')]
        BY <2>1, <3>2
      <4>2. /\ reader'[r].now = Listed(tracked') /\ reader'[r].todo = reader[r].todo
            /\ reader'[r].at = reader[r].at
        BY <3>1, <4>1 DEF Reader
      <4> QED BY <3>1, <4>2 DEF ReaderFits, Listed
    <3>3. CASE ~reader[r].same
      <4>1. reader'[r] = reader[r]
        BY <2>1, <3>3
      <4> QED BY <3>1, <3>3, <4>1 DEF ReaderFits, Reader
    <3> QED BY <3>2, <3>3
  <2>4. KnownInv' /\ known' \in BOOLEAN
    BY <2>1 DEF KnownInv
  <2> QED BY <1>1, <1>2, <1>3, <2>1, <2>2, <2>3, <2>4, Whole
<1> QED BY <1>4, <1>5

\* A step that changes one reader and leaves the tracked orders alone.
LEMMA OneReader ==
  ASSUME TypeInv, NEW r \in Readers, NEW new \in Reader,
         reader' = [reader EXCEPT ![r] = new],
         UNCHANGED <<exchange, enabled, wallet>>,
         new.same => new.now = Listed(tracked),
         \A o \in new.todo : Orig[o] >= Least,
         new.at = "lookup" => new.todo # {},
         overlooked' \subseteq Oids, drops' = drops, ToldFit'
  PROVE  TypeInv'
<1>1. UNCHANGED <<book, frames, enabled, known, tracked>>
  BY DEF exchange, wallet
<1>2. reader \in [Readers -> Reader] /\ \A q \in Readers : ReaderFits(q)
  BY Parts
<1>3. reader' \in [Readers -> Reader]
  BY <1>2
<1>4. \A q \in Readers : reader'[q] = IF q = r THEN new ELSE reader[q]
  BY <1>2
<1>5. ReadersFit'
  <2> SUFFICES ASSUME NEW q \in Readers PROVE ReaderFits(q)'
    BY DEF ReadersFit
  <2>1. CASE q = r
    BY <2>1, <1>1, <1>4 DEF ReaderFits, Listed
  <2>2. CASE q # r
    BY <2>2, <1>1, <1>2, <1>4 DEF ReaderFits, Listed
  <2> QED BY <2>1, <2>2
<1>6. frames' \in Seq(Frames) /\ FramesFit'
  BY <1>1, Parts DEF FramesFit
<1>7. /\ enabled' \in BOOLEAN /\ known' \in BOOLEAN /\ tracked' \in OrderSizes
      /\ drops' \in Nat /\ KnownInv'
  BY <1>1, Parts DEF TypeInv, TypeOK, KnownInv
<1> QED BY <1>1, <1>3, <1>5, <1>6, <1>7, Whole

LEMMA PollStep ==
  ASSUME TypeInv, NEW r \in Readers, Poll(r) PROVE TypeInv'
<1> DEFINE new == [reader[r] EXCEPT !.at = "polled", !.snap = Resting]
<1>1. reader[r] \in Reader /\ reader \in [Readers -> Reader] /\ ReaderFits(r)
  BY Parts
<1>2. Resting \in OrderSizes
  <2>1. \A o \in Oids : book[o].size \in Nat /\ book[o].size <= Orig[o]
    BY DEF TypeInv, TypeOK, BookFits
  <2>2. Resting \in [Oids -> Nat]
    BY <2>1 DEF Resting
  <2>3. \A o \in Oids : Resting[o] <= Orig[o]
    <3> SUFFICES ASSUME NEW o \in Oids PROVE Resting[o] <= Orig[o]
      OBVIOUS
    <3>1. Resting[o] = IF book[o].status = "open" THEN book[o].size ELSE 0
      BY DEF Resting
    <3>2. Orig[o] \in Nat
      OBVIOUS
    <3> QED BY <2>1, <3>1, <3>2
  <2> QED BY <2>2, <2>3 DEF OrderSizes, Sizes
<1>3. new \in Reader
  BY <1>1, <1>2 DEF Reader, Ats
<1>4. reader' = [reader EXCEPT ![r] = new]
  BY <1>1 DEF Poll
<1>5. /\ new.same = reader[r].same /\ new.now = reader[r].now
      /\ new.todo = reader[r].todo /\ new.at = "polled"
  BY <1>1 DEF Reader
<1>6. ToldFit' /\ overlooked' \subseteq Oids /\ drops' = drops
      /\ UNCHANGED <<exchange, enabled, wallet>>
  BY DEF Poll, TypeInv, TypeOK, ToldFit, history
<1> QED BY <1>1, <1>3, <1>4, <1>5, <1>6, OneReader DEF ReaderFits

LEMMA GoneFacts ==
  ASSUME NEW prev \in OrderSizes, NEW now \in SUBSET Oids
  PROVE  /\ Gone(prev, now, 1) \subseteq Oids
         /\ Gone(prev, now, Least) \subseteq Gone(prev, now, 1)
         /\ \A o \in Gone(prev, now, Least) : Orig[o] >= Least
         /\ Lookup(prev, now) \in Reader
         /\ Lookup(prev, now).same = FALSE
         /\ Lookup(prev, now).todo = Gone(prev, now, Least)
         /\ Lookup(prev, now).at = IF Gone(prev, now, Least) = {} THEN "idle" ELSE "lookup"
<1>1. /\ Gone(prev, now, 1) \subseteq Oids
      /\ Gone(prev, now, Least) \subseteq Gone(prev, now, 1)
      /\ \A o \in Gone(prev, now, Least) : Orig[o] >= Least
  BY DEF Gone, OrderSizes, Sizes
<1> DEFINE gone == Gone(prev, now, Least)
<1> HIDE DEF gone
<1>2. Lookup(prev, now) = IF gone = {} THEN Idle ELSE [Idle EXCEPT !.at = "lookup", !.todo = gone]
  BY DEF Lookup, gone
<1>3. gone \subseteq Oids
  BY <1>1 DEF gone
<1>4. Lookup(prev, now) \in Reader
  BY <1>2, <1>3, EmptyFits DEF Reader, Ats
<1>5. /\ Lookup(prev, now).same = FALSE
      /\ Lookup(prev, now).todo = gone
      /\ Lookup(prev, now).at = IF gone = {} THEN "idle" ELSE "lookup"
  BY <1>2 DEF Idle
<1> QED BY <1>1, <1>4, <1>5 DEF gone

LEMMA AnnounceStep ==
  ASSUME TypeInv, NEW r \in Readers, NEW o \in Oids, Announce(r, o) PROVE TypeInv'
<1> DEFINE new == [reader[r] EXCEPT !.todo = @ \ {o}]
<1>1. reader[r] \in Reader /\ reader \in [Readers -> Reader] /\ ReaderFits(r)
  BY Parts
<1>2. new \in Reader
  BY <1>1 DEF Reader
<1>3. reader' = [reader EXCEPT ![r] = new]
  BY <1>1 DEF Announce
<1>4. /\ new.same = reader[r].same /\ new.now = reader[r].now
      /\ new.todo = reader[r].todo \ {o} /\ new.at = "announce"
  BY <1>1 DEF Reader, Announce
<1>5. ToldFit'
  <2>1. Orig[o] >= Least
    BY <1>1 DEF Announce, ReaderFits
  <2> QED BY <2>1 DEF Announce, TypeInv, ToldFit, Event
<1>6. overlooked' \subseteq Oids /\ drops' = drops /\ UNCHANGED <<exchange, enabled, wallet>>
  BY DEF Announce, TypeInv, TypeOK, history
<1> QED BY <1>1, <1>2, <1>3, <1>4, <1>5, <1>6, OneReader DEF ReaderFits

LEMMA CompareStep ==
  ASSUME TypeInv, NEW r \in Readers, Compare(r) PROVE TypeInv'
<1> DEFINE new == Lookup(reader[r].prev, reader[r].now)
<1>1. reader[r].prev \in OrderSizes /\ reader[r].now \in SUBSET Oids
  BY Parts DEF Reader
<1>2. /\ new \in Reader /\ new.same = FALSE /\ \A o \in new.todo : Orig[o] >= Least
      /\ new.at = "lookup" => new.todo # {}
  <2> DEFINE gone == Gone(reader[r].prev, reader[r].now, Least)
  <2>1. /\ new \in Reader /\ new.same = FALSE /\ new.todo = gone
        /\ new.at = IF gone = {} THEN "idle" ELSE "lookup"
        /\ \A o \in gone : Orig[o] >= Least
    BY <1>1, GoneFacts
  <2> HIDE DEF gone, new
  <2> QED BY <2>1
<1>3. reader' = [reader EXCEPT ![r] = new]
  BY DEF Compare
<1>4. /\ ToldFit' /\ drops' = drops /\ UNCHANGED <<exchange, enabled, wallet>>
      /\ overlooked' \subseteq Oids
  BY <1>1, GoneFacts DEF Compare, TypeInv, TypeOK, ToldFit
<1> QED BY <1>2, <1>3, <1>4, OneReader

LEMMA ResolveStep ==
  ASSUME TypeInv, NEW r \in Readers, NEW o \in Oids, Resolve(r, o) PROVE TypeInv'
<1> DEFINE new == IF reader[r].todo = {o} THEN Idle ELSE [reader[r] EXCEPT !.todo = @ \ {o}]
<1>1. reader[r] \in Reader /\ reader \in [Readers -> Reader] /\ ReaderFits(r)
  BY Parts
<1>2. reader[r].at = "lookup" /\ o \in reader[r].todo
  BY DEF Resolve
<1>3. CASE reader[r].todo = {o}
  <2>1. new = Idle /\ reader' = [reader EXCEPT ![r] = Idle]
    BY <1>1, <1>3 DEF Resolve
  <2>2. ToldFit' /\ drops' = drops /\ UNCHANGED <<exchange, enabled, wallet>>
        /\ overlooked' \subseteq Oids
    BY <1>1, <1>2 DEF Resolve, TypeInv, TypeOK, ToldFit, FromDisappearance, Event, ReaderFits
  <2>3. Idle \in Reader /\ Idle.same = FALSE /\ Idle.todo = {} /\ Idle.at = "idle"
    BY EmptyFits DEF Idle
  <2> QED BY <2>1, <2>2, <2>3, OneReader
<1>4. CASE reader[r].todo # {o}
  <2> DEFINE rest == [reader[r] EXCEPT !.todo = @ \ {o}]
  <2>0. reader' = [reader EXCEPT ![r] = IF reader[r].todo = {o} THEN Idle ELSE rest]
    BY <1>1 DEF Resolve
  <2>1. reader' = [reader EXCEPT ![r] = rest]
    BY <1>4, <2>0
  <2>2. rest \in Reader
    BY <1>1 DEF Reader
  <2>3. /\ rest.same = reader[r].same /\ rest.now = reader[r].now
        /\ rest.todo = reader[r].todo \ {o}
    BY <1>1 DEF Reader
  <2>4. rest.todo # {}
    BY <1>2, <1>4, <2>3
  <2>5. ToldFit' /\ drops' = drops /\ UNCHANGED <<exchange, enabled, wallet>>
        /\ overlooked' \subseteq Oids
    BY <1>1, <1>2 DEF Resolve, TypeInv, TypeOK, ToldFit, FromDisappearance, Event, ReaderFits
  <2> QED BY <1>1, <2>1, <2>2, <2>3, <2>4, <2>5, OneReader DEF ReaderFits
<1> QED BY <1>3, <1>4

LEMMA ApplyOrdersStep ==
  ASSUME TypeInv, NEW r \in Readers, ApplyOrders(r) PROVE TypeInv'
<1> DEFINE snap == reader[r].snap
           todo == Announced(tracked, snap)
           new  == reader'[r]
<1>1. /\ reader \in [Readers -> Reader] /\ tracked \in OrderSizes
      /\ \A q \in Readers : reader[q] \in Reader /\ ReaderFits(q)
  BY Parts
<1>2. snap \in OrderSizes /\ Listed(snap) \in SUBSET Oids
  BY <1>1 DEF Reader, Listed
<1>3. /\ UNCHANGED <<book, frames, enabled, told, drops>>
      /\ known' = TRUE /\ tracked' = snap
  BY DEF ApplyOrders, exchange
<1>4. \A o \in todo : Orig[o] >= Least
  <2> SUFFICES ASSUME NEW o \in todo PROVE Orig[o] >= Least
    OBVIOUS
  <2>1. o \in Oids /\ snap[o] >= Least
    BY DEF Announced, Listed
  <2>2. snap \in [Oids -> Nat] /\ snap[o] <= Orig[o]
    BY <1>2, <2>1 DEF OrderSizes, Sizes
  <2> HIDE DEF snap
  <2>3. snap[o] \in Nat /\ Orig[o] \in Nat
    BY <2>1, <2>2
  <2> QED BY <2>1, <2>2, <2>3
<1>5. todo \in SUBSET Oids
  BY DEF Announced, Listed
<1>6. /\ new \in Reader
      /\ new.same => new.now = Listed(snap)
      /\ \A o \in new.todo : Orig[o] >= Least
      /\ new.at = "lookup" => new.todo # {}
  <2>1. CASE ~known \/ ~enabled
    <3>1. new = Idle
      BY <2>1 DEF ApplyOrders
    <3> QED BY <3>1, EmptyFits DEF Idle
  <2>2. CASE known /\ enabled /\ todo # {}
    <3>1. new = [at |-> "announce", snap |-> snap, prev |-> tracked,
                 now |-> Listed(snap), same |-> TRUE, todo |-> todo]
      BY <2>2 DEF ApplyOrders
    <3> HIDE DEF snap, todo, new
    <3> QED BY <3>1, <1>1, <1>2, <1>4, <1>5 DEF Reader, Ats
  <2>3. CASE known /\ enabled /\ todo = {}
    <3> DEFINE gone == Gone(tracked, Listed(snap), Least)
    <3>1. new = Lookup(tracked, Listed(snap))
      BY <2>3 DEF ApplyOrders
    <3> DEFINE found == Lookup(tracked, Listed(snap))
    <3>2. /\ found \in Reader /\ found.same = FALSE /\ found.todo = gone
          /\ found.at = IF gone = {} THEN "idle" ELSE "lookup"
          /\ \A o \in gone : Orig[o] >= Least
      BY <1>1, <1>2, GoneFacts
    <3> HIDE DEF gone, found, new
    <3> QED BY <3>1, <3>2 DEF found
  <2> QED BY <2>1, <2>2, <2>3
<1>7. \A q \in Readers : q # r => reader'[q] = [reader[q] EXCEPT !.same = FALSE]
  BY DEF ApplyOrders
<1>8. \A q \in Readers : q # r =>
        /\ reader'[q] \in Reader /\ reader'[q].same = FALSE
        /\ reader'[q].todo = reader[q].todo /\ reader'[q].at = reader[q].at
  <2> SUFFICES ASSUME NEW q \in Readers, q # r
               PROVE  /\ reader'[q] \in Reader /\ reader'[q].same = FALSE
                      /\ reader'[q].todo = reader[q].todo /\ reader'[q].at = reader[q].at
    OBVIOUS
  <2>1. reader'[q] = [reader[q] EXCEPT !.same = FALSE] /\ reader[q] \in Reader
    BY <1>1, <1>7
  <2> QED BY <2>1 DEF Reader
<1>9. reader' \in [Readers -> Reader]
  <2>1. reader' = [q \in Readers |-> reader'[q]]
    BY DEF ApplyOrders
  <2> QED BY <2>1, <1>6, <1>8
<1>10. ReadersFit'
  <2> SUFFICES ASSUME NEW q \in Readers PROVE ReaderFits(q)'
    BY DEF ReadersFit
  <2>1. CASE q = r
    BY <2>1, <1>3, <1>6 DEF ReaderFits, Listed
  <2>2. CASE q # r
    BY <2>2, <1>1, <1>8 DEF ReaderFits
  <2> QED BY <2>1, <2>2
<1>11. overlooked' \subseteq Oids
  BY <1>1, <1>2, GoneFacts DEF ApplyOrders, TypeInv, TypeOK
<1>12. frames' \in Seq(Frames) /\ FramesFit' /\ enabled' \in BOOLEAN /\ drops' \in Nat
  BY <1>3, Parts DEF FramesFit, TypeInv, TypeOK
<1>13. ToldFit' /\ KnownInv' /\ known' \in BOOLEAN /\ tracked' \in OrderSizes
  BY <1>2, <1>3 DEF ToldFit, KnownInv, TypeInv
<1> QED BY <1>3, <1>9, <1>10, <1>11, <1>12, <1>13, Whole

LEMMA ForgetStep == TypeInv /\ Forget => TypeInv'
<1> SUFFICES ASSUME TypeInv, Forget PROVE TypeInv'
  OBVIOUS
<1>1. \A r \in Readers : reader[r] \in Reader /\ ReaderFits(r)
  BY Parts
<1>2. reader' = [r \in Readers |-> [reader[r] EXCEPT !.same = FALSE]]
  BY DEF Forget
<1>3. \A r \in Readers :
        /\ reader'[r] \in Reader /\ reader'[r].same = FALSE
        /\ reader'[r].todo = reader[r].todo /\ reader'[r].at = reader[r].at
  BY <1>1, <1>2 DEF Reader
<1>4. reader' \in [Readers -> Reader]
  BY <1>2, <1>3
<1>5. ReadersFit'
  BY <1>1, <1>3 DEF ReadersFit, ReaderFits
<1>6. UNCHANGED <<book, frames, enabled, told>> /\ known' = FALSE /\ tracked' = Empty
  BY DEF Forget, exchange
<1>7. overlooked' \subseteq Oids /\ drops' \in Nat
  BY DEF Forget, Listed, TypeInv, TypeOK
<1>8. frames' \in Seq(Frames) /\ FramesFit' /\ enabled' \in BOOLEAN
  BY <1>6, Parts DEF FramesFit
<1>9. ToldFit' /\ KnownInv' /\ tracked' \in OrderSizes /\ known' \in BOOLEAN
  BY <1>6, EmptyFits DEF ToldFit, KnownInv, TypeInv
<1> QED BY <1>4, <1>5, <1>6, <1>7, <1>8, <1>9, Whole

LEMMA RestartStep == TypeInv /\ Restart => TypeInv'
<1> SUFFICES ASSUME TypeInv, Restart PROVE TypeInv'
  OBVIOUS
<1>1. /\ UNCHANGED <<book, enabled, told>> /\ known' = FALSE /\ tracked' = Empty
      /\ frames' = <<>> /\ reader' = [r \in Readers |-> Idle]
  BY DEF Restart
<1>2. reader' \in [Readers -> Reader] /\ ReadersFit'
  BY <1>1, EmptyFits DEF ReadersFit, ReaderFits, Idle
<1>3. \A r \in Readers : Pending(r) \subseteq Oids
  BY Parts DEF Pending, Gone, Reader
<1>4. overlooked' \subseteq Oids /\ drops' \in Nat
  BY <1>3 DEF Restart, Listed, TypeInv, TypeOK
<1>5. frames' \in Seq(Frames) /\ FramesFit' /\ enabled' \in BOOLEAN
  BY <1>1, Parts DEF FramesFit
<1>6. ToldFit' /\ KnownInv' /\ tracked' \in OrderSizes /\ known' \in BOOLEAN
  BY <1>1, EmptyFits DEF ToldFit, KnownInv, TypeInv
<1> QED BY <1>1, <1>2, <1>4, <1>5, <1>6, Whole

LEMMA ToggleStep == TypeInv /\ Toggle => TypeInv'
BY DEF Toggle, exchange, wallet, history, TypeInv, TypeOK, BookFits, FramesFit,
       ToldFit, ReadersFit, ReaderFits, KnownInv, Listed

LEMMA TypeStep == TypeInv /\ [Next]_vars => TypeInv'
<1> SUFFICES ASSUME TypeInv, [Next]_vars PROVE TypeInv'
  OBVIOUS
<1>1. CASE \E o \in Oids : Trade(o)
  BY <1>1, TradeStep
<1>2. CASE ApplyFrame
  BY <1>2, ApplyFrameStep
<1>3. CASE \E r \in Readers : Poll(r) \/ Ingest(r)
  BY <1>3, PollStep, ApplyOrdersStep, CompareStep, AnnounceStep, ResolveStep DEF Ingest
<1>4. CASE Toggle
  BY <1>4, ToggleStep
<1>5. CASE Forget
  BY <1>5, ForgetStep
<1>6. CASE Restart
  BY <1>6, RestartStep
<1>7. CASE UNCHANGED vars
  BY <1>7 DEF vars, TypeInv, TypeOK, BookFits, FramesFit, ToldFit, ReadersFit,
              ReaderFits, KnownInv, Listed
<1> QED BY <1>1, <1>2, <1>3, <1>4, <1>5, <1>6, <1>7 DEF Next

\* The state keeps its types, and sizes never exceed what was ordered.
THEOREM TypeCorrect == Spec => []TypeOK
<1>1. TypeInv => TypeOK
  BY DEF TypeInv
<1> QED BY TypeInit, TypeStep, <1>1, PTL DEF Spec

-----------------------------------------------------------------------------
(* The endings that are told are true.                                     *)

\* What the exchange has to show for an event.
Truth(e, b) ==
  /\ e.type = "ORDER_FILLED" => e.status = "triggered" \/ b[e.oid].status = "filled"
  /\ e.type = "ORDER_CANCELLED" => b[e.oid].status = "canceled"
  /\ e.type = "ORDER_REJECTED" => b[e.oid].status = "rejected"

LEMMA FrameTruth ==
  ASSUME TypeInv, frames # <<>>
  PROVE  \A e \in FromOrderUpdate(Head(frames)) : Truth(e, book)
<1> DEFINE f == Head(frames)
<1>1. f \in Frames /\ FrameFits(f, book)
  BY FrameHead
<1> SUFFICES ASSUME NEW e \in FromOrderUpdate(f) PROVE Truth(e, book)
  OBVIOUS
<1> HIDE DEF f
<1>2. /\ e.oid = f.oid /\ e.status = f.status
      /\ e.type = IF f.status = "open" THEN Change(tracked[f.oid], f.size)
                                      ELSE Outcome(f.status)
  BY DEF FromOrderUpdate, Event
<1>3. CASE f.status = "open"
  BY <1>2, <1>3 DEF Change, Truth
<1>4. CASE f.status # "open"
  BY <1>1, <1>2, <1>4 DEF Outcome, Truth, FrameFits, Final
<1> QED BY <1>3, <1>4

LEMMA LookupTruth ==
  ASSUME NEW o \in Oids, NEW status \in {book[o].status, "unknown"}
  PROVE  Truth(FromDisappearance(o, status), book)
BY DEF FromDisappearance, Event, Outcome, Truth

LEMMA AnnounceTruth ==
  ASSUME NEW o, NEW old, NEW new
  PROVE  Truth(Event(o, Change(old, new), "open"), book)
BY DEF Event, Change, Truth

LEMMA TruthStep == TypeInv /\ OutcomeIsTrue /\ [Next]_vars => OutcomeIsTrue'
<1> SUFFICES ASSUME TypeInv, OutcomeIsTrue, [Next]_vars PROVE OutcomeIsTrue'
  OBVIOUS
<1>1. \A e \in told : Truth(e, book)
  BY DEF OutcomeIsTrue, Truth
<1>2. ASSUME \A e \in told' : Truth(e, book') PROVE OutcomeIsTrue'
  BY <1>2 DEF OutcomeIsTrue, Truth
<1>3. CASE \E o \in Oids : Trade(o)
  <2>1. /\ \A q \in Oids : book[q].status \in Final => book'[q] = book[q]
        /\ told' = told
    BY <1>3, TradeStep
  <2> SUFFICES ASSUME NEW e \in told PROVE Truth(e, book')
    BY <1>2, <2>1
  <2>2. e.oid \in Oids
    BY DEF TypeInv, ToldFit
  <2> QED BY <1>1, <2>1, <2>2 DEF Truth, Final
<1>4. CASE ApplyFrame
  BY <1>1, <1>2, <1>4, FrameTruth DEF ApplyFrame
<1>5. CASE \E r \in Readers, o \in Oids : Announce(r, o)
  BY <1>1, <1>2, <1>5, AnnounceTruth DEF Announce, exchange
<1>6. CASE \E r \in Readers, o \in Oids : Resolve(r, o)
  BY <1>1, <1>2, <1>6, LookupTruth DEF Resolve, exchange
<1>7. CASE \E r \in Readers : Poll(r) \/ ApplyOrders(r) \/ Compare(r)
  BY <1>1, <1>2, <1>7 DEF Poll, ApplyOrders, Compare, exchange
<1>8. CASE Toggle \/ Forget \/ Restart \/ UNCHANGED vars
  BY <1>1, <1>2, <1>8 DEF Toggle, Forget, Restart, exchange, vars
<1> QED BY <1>3, <1>4, <1>5, <1>6, <1>7, <1>8 DEF Next, Ingest

\* An ending that is told is the one the exchange reported.
THEOREM Truthful == Spec => []OutcomeIsTrue
<1>1. Init => OutcomeIsTrue
  BY DEF Init, OutcomeIsTrue
<1> QED BY TypeInit, TypeStep, <1>1, TruthStep, PTL DEF Spec

-----------------------------------------------------------------------------
(* The end of an announced order is told.                                  *)

OpenTold(o)   == \E e \in told : e.oid = o /\ e.status = "open"
EndTold(o)    == \E e \in told : e.oid = o /\ e.status # "open"
Announcing(o) == \E r \in Readers : reader[r].at = "announce" /\ o \in reader[r].todo
Expected(o)   == \E r \in Readers : o \in Pending(r)

\* An order that is about to be announced counts as announced.
Followed(o) ==
  OpenTold(o) \/ Announcing(o) => tracked[o] > 0 \/ Expected(o) \/ EndTold(o)

EndInv == \A o \in Oids \ overlooked : Followed(o)

LEMMA FollowedAbove ==
  ASSUME TypeInv, NEW o \in Oids, OpenTold(o) \/ Announcing(o)
  PROVE  Orig[o] >= Least
<1>1. CASE OpenTold(o)
  BY <1>1 DEF OpenTold, TypeInv, ToldFit
<1>2. CASE Announcing(o)
  BY <1>2, Parts DEF Announcing, ReaderFits
<1> QED BY <1>1, <1>2

\* The live feed: the order of the frame is tracked again, or its end is told.
LEMMA EndApplyFrame == TypeInv /\ EndInv /\ ApplyFrame => EndInv'
<1> SUFFICES ASSUME TypeInv, EndInv, ApplyFrame, NEW o \in Oids, o \notin overlooked'
             PROVE  Followed(o)'
  BY DEF EndInv
<1>1. o \notin overlooked /\ Followed(o)
  BY DEF EndInv, ApplyFrame, history
<1>2. CASE ~enabled
  BY <1>1, <1>2 DEF ApplyFrame, wallet, Followed, OpenTold, EndTold, Announcing,
                    Expected, Pending
<1>3. CASE enabled
  <2> DEFINE f == Head(frames)
  <2>1. frames # <<>>
    BY DEF ApplyFrame
  <2>2. f \in Frames /\ FrameFits(f, book)
    BY <2>1, FrameHead
  <2>3. /\ \A q \in Oids : q # f.oid => tracked'[q] = tracked[q]
        /\ tracked'[f.oid] = IF f.status = "open" THEN f.size ELSE 0
        /\ told' = told \cup FromOrderUpdate(f)
        /\ \A r \in Readers :
             reader'[r] = IF reader[r].same
                          THEN [reader[r] EXCEPT !.now = Listed(tracked')]
                          ELSE reader[r]
    BY <1>3, <2>1, FrameApplied
  <2> HIDE DEF f
  <2>4. \A e \in FromOrderUpdate(f) : e.oid = f.oid /\ e.status = f.status
    BY DEF FromOrderUpdate, Event
  <2>5. \A r \in Readers :
          /\ reader'[r].at = reader[r].at /\ reader'[r].todo = reader[r].todo
          /\ reader'[r].prev = reader[r].prev
          /\ reader'[r].now = IF reader[r].same THEN Listed(tracked') ELSE reader[r].now
    <3> SUFFICES ASSUME NEW r \in Readers
                 PROVE  /\ reader'[r].at = reader[r].at
                        /\ reader'[r].todo = reader[r].todo
                        /\ reader'[r].prev = reader[r].prev
                        /\ reader'[r].now = IF reader[r].same THEN Listed(tracked')
                                                              ELSE reader[r].now
      OBVIOUS
    <3>1. reader[r] \in Reader
      BY Parts
    <3> QED BY <2>3, <3>1 DEF Reader
  <2>6. Announcing(o)' <=> Announcing(o)
    BY <2>5 DEF Announcing
  <2>7. EndTold(o) => EndTold(o)'
    BY <2>3 DEF EndTold
  <2>8. CASE o # f.oid
    <3>1. tracked'[o] = tracked[o]
      BY <2>3, <2>8
    <3>2. OpenTold(o)' => OpenTold(o)
      BY <2>3, <2>4, <2>8 DEF OpenTold
    <3>3. \A r \in Readers : o \in reader[r].now <=> o \in reader'[r].now
      BY <2>5, <3>1, Parts DEF ReaderFits, Listed
    <3>4. Expected(o) => Expected(o)'
      BY <2>5, <3>3 DEF Expected, Pending, Gone
    <3> QED BY <1>1, <2>6, <2>7, <3>1, <3>2, <3>4 DEF Followed
  <2>9. CASE o = f.oid /\ f.status = "open"
    <3>1. tracked'[o] > 0
      BY <2>2, <2>3, <2>9 DEF FrameFits
    <3> QED BY <3>1 DEF Followed
  <2>10. CASE o = f.oid /\ f.status # "open"
    <3>1. OpenTold(o)' => OpenTold(o)
      BY <2>3, <2>4, <2>10 DEF OpenTold
    <3>2. CASE ~(OpenTold(o) \/ Announcing(o))
      BY <3>1, <3>2, <2>6 DEF Followed
    <3>3. CASE OpenTold(o) \/ Announcing(o)
      <4>1. Orig[o] >= Least
        BY <3>3, FollowedAbove
      <4>2. FromOrderUpdate(f) = {Event(o, Outcome(f.status), f.status)}
        <5>1. Outcome(f.status) # "none"
          BY DEF Outcome
        <5> QED BY <2>10, <4>1, <5>1 DEF FromOrderUpdate
      <4>3. EndTold(o)'
        <5> DEFINE e == Event(o, Outcome(f.status), f.status)
        <5>1. e.oid = o /\ e.status = f.status
          BY DEF Event
        <5>2. e \in told'
          BY <2>3, <4>2
        <5> QED BY <2>10, <5>1, <5>2 DEF EndTold
      <4> QED BY <4>3 DEF Followed
    <3> QED BY <3>2, <3>3
  <2> QED BY <2>8, <2>9, <2>10
<1> QED BY <1>2, <1>3

\* A snapshot: an order it no longer has is pending, or left out on purpose.
LEMMA EndApplyOrders ==
  ASSUME TypeInv, EndInv, NEW r \in Readers, ApplyOrders(r) PROVE EndInv'
<1> DEFINE snap == reader[r].snap
           now  == Listed(snap)
<1> SUFFICES ASSUME NEW o \in Oids, o \notin overlooked' PROVE Followed(o)'
  BY DEF EndInv
<1>1. Followed(o)
  BY DEF EndInv, ApplyOrders
<1>2. tracked' = snap /\ told' = told /\ reader[r].at = "polled"
  BY DEF ApplyOrders
<1>3. snap \in OrderSizes /\ tracked \in OrderSizes
  BY Parts DEF Reader
<1>4. snap[o] \in Nat /\ tracked[o] \in Nat
  BY <1>3 DEF OrderSizes, Sizes
<1>5. \A q \in Readers : q # r =>
        /\ reader'[q].at = reader[q].at /\ reader'[q].todo = reader[q].todo
        /\ reader'[q].prev = reader[q].prev /\ reader'[q].now = reader[q].now
  <2> SUFFICES ASSUME NEW q \in Readers, q # r
               PROVE  /\ reader'[q].at = reader[q].at /\ reader'[q].todo = reader[q].todo
                      /\ reader'[q].prev = reader[q].prev /\ reader'[q].now = reader[q].now
    OBVIOUS
  <2>1. reader'[q] = [reader[q] EXCEPT !.same = FALSE] /\ reader[q] \in Reader
    BY Parts DEF ApplyOrders
  <2> QED BY <2>1 DEF Reader
<1>6. Expected(o) => Expected(o)'
  BY <1>2, <1>5 DEF Expected, Pending
<1>7. CASE snap[o] > 0
  BY <1>2, <1>7 DEF Followed
<1>8. CASE snap[o] = 0
  <2>1. o \notin now
    BY <1>8 DEF Listed
  <2>2. reader'[r].at = "announce" => o \notin reader'[r].todo
    <3>1. reader'[r].at = "announce" => reader'[r].todo = Announced(tracked, snap)
      BY DEF ApplyOrders, Idle, Lookup
    <3> QED BY <2>1, <3>1 DEF Announced
  <2>3. OpenTold(o)' \/ Announcing(o)' => OpenTold(o) \/ Announcing(o)
    BY <1>2, <1>5, <2>2 DEF OpenTold, Announcing
  <2>4. CASE tracked[o] = 0
    BY <1>1, <1>2, <1>6, <2>3, <2>4 DEF Followed, EndTold
  <2>5. CASE tracked[o] > 0
    <3>1. known
      BY <2>5 DEF TypeInv, KnownInv, Empty
    <3>2. o \in Gone(tracked, now, 1)
      BY <1>4, <2>1, <2>5 DEF Gone
    <3>3. enabled
      BY <3>2 DEF ApplyOrders
    <3>4. o \in Gone(tracked, now, Least)
      BY <3>2, <3>3 DEF ApplyOrders
    <3>5. o \in Pending(r)'
      <4>1. CASE Announced(tracked, snap) # {}
        <5>1. reader'[r] = [at |-> "announce", snap |-> snap, prev |-> tracked,
                            now |-> now, same |-> TRUE, todo |-> Announced(tracked, snap)]
          BY <3>1, <3>3, <4>1 DEF ApplyOrders
        <5>2. /\ reader'[r].at = "announce"
              /\ reader'[r].prev = tracked /\ reader'[r].now = now
          BY <5>1
        <5> QED BY <3>2, <5>2 DEF Pending, Gone
      <4>2. CASE Announced(tracked, snap) = {}
        <5>1. reader'[r] = Lookup(tracked, now)
          BY <3>1, <3>3, <4>2 DEF ApplyOrders
        <5>2. now \in SUBSET Oids
          BY DEF Listed
        <5>3. /\ reader'[r].at = "lookup"
              /\ reader'[r].todo = Gone(tracked, now, Least)
          BY <1>3, <3>4, <5>1, <5>2, GoneFacts
        <5> QED BY <3>4, <5>3 DEF Pending
      <4> QED BY <4>1, <4>2
    <3> QED BY <3>5 DEF Followed, Expected
  <2> QED BY <1>4, <2>4, <2>5
<1> QED BY <1>4, <1>7, <1>8

\* The reader hands over an order it was about to announce.
LEMMA EndAnnounce ==
  ASSUME TypeInv, EndInv, NEW r \in Readers, NEW a \in Oids, Announce(r, a) PROVE EndInv'
<1> SUFFICES ASSUME NEW o \in Oids, o \notin overlooked' PROVE Followed(o)'
  BY DEF EndInv
<1>1. Followed(o) /\ tracked' = tracked
  BY DEF EndInv, Announce, history, wallet
<1>2. reader[r].at = "announce" /\ a \in reader[r].todo
  BY DEF Announce
<1>3. reader' = [reader EXCEPT ![r].todo = @ \ {a}]
  BY DEF Announce
<1>4. /\ \A q \in Readers :
           /\ reader'[q].at = reader[q].at /\ reader'[q].prev = reader[q].prev
           /\ reader'[q].now = reader[q].now
           /\ q # r => reader'[q].todo = reader[q].todo
      /\ reader'[r].todo = reader[r].todo \ {a}
  BY <1>3, Parts DEF Reader
<1>5. Announcing(o)' => Announcing(o)
  BY <1>4 DEF Announcing
<1>6. OpenTold(o)' => OpenTold(o) \/ Announcing(o)
  BY <1>2 DEF Announce, OpenTold, Announcing, Event
<1>7. Expected(o) => Expected(o)'
  BY <1>2, <1>4 DEF Expected, Pending
<1>8. EndTold(o) => EndTold(o)'
  BY DEF EndTold, Announce
<1> QED BY <1>1, <1>5, <1>6, <1>7, <1>8 DEF Followed

\* What was missing from the snapshot is now to be looked up.
LEMMA EndCompare ==
  ASSUME TypeInv, EndInv, NEW r \in Readers, Compare(r) PROVE EndInv'
<1> DEFINE prev == reader[r].prev
           now  == reader[r].now
           gone == Gone(prev, now, Least)
<1> SUFFICES ASSUME NEW o \in Oids, o \notin overlooked' PROVE Followed(o)'
  BY DEF EndInv
<1>1. /\ o \notin overlooked /\ UNCHANGED <<tracked, told>>
      /\ reader[r].at = "announce" /\ reader' = [reader EXCEPT ![r] = Lookup(prev, now)]
  BY DEF Compare, wallet
<1>2. Followed(o)
  BY <1>1 DEF EndInv
<1>3. o \in Gone(prev, now, 1) => o \in gone
  BY DEF Compare
<1>4. prev \in OrderSizes /\ now \in SUBSET Oids /\ reader \in [Readers -> Reader]
  BY Parts DEF Reader
<1>5. /\ reader'[r].todo = gone
      /\ reader'[r].at = IF gone = {} THEN "idle" ELSE "lookup"
      /\ \A q \in Readers : q # r => reader'[q] = reader[q]
  BY <1>1, <1>4, GoneFacts
<1> HIDE DEF gone
<1>6. Announcing(o)' => Announcing(o)
  BY <1>5 DEF Announcing
<1>7. Expected(o) => Expected(o)'
  <2> SUFFICES ASSUME NEW q \in Readers, o \in Pending(q) PROVE Expected(o)'
    BY DEF Expected
  <2>1. CASE q = r
    <3>1. o \in gone
      BY <1>1, <1>3, <2>1 DEF Pending
    <3> QED BY <1>5, <3>1 DEF Expected, Pending
  <2>2. CASE q # r
    BY <1>5, <2>2 DEF Expected, Pending
  <2> QED BY <2>1, <2>2
<1> QED BY <1>1, <1>2, <1>6, <1>7 DEF Followed, OpenTold, EndTold

\* A lookup is told, unless the order is still open.
LEMMA EndResolve ==
  ASSUME TypeInv, EndInv, NEW r \in Readers, NEW a \in Oids, Resolve(r, a) PROVE EndInv'
<1> DEFINE rest == IF reader[r].todo = {a} THEN Idle ELSE [reader[r] EXCEPT !.todo = @ \ {a}]
<1> SUFFICES ASSUME NEW o \in Oids, o \notin overlooked' PROVE Followed(o)'
  BY DEF EndInv
<1>1. PICK status \in {book[a].status, "unknown"} :
        /\ told' = told \cup {FromDisappearance(a, status)}
        /\ overlooked' = IF status = "open" THEN overlooked \cup {a} ELSE overlooked
  BY DEF Resolve
<1>2. o \notin overlooked /\ (o = a => status # "open")
  BY <1>1
<1>3. Followed(o) /\ tracked' = tracked /\ reader[r].at = "lookup"
  BY <1>2 DEF EndInv, Resolve, wallet
<1>4. FromDisappearance(a, status).oid = a /\ FromDisappearance(a, status).status = status
  BY DEF FromDisappearance, Event
<1>5. CASE o = a
  <2>1. EndTold(o)'
    BY <1>1, <1>2, <1>4, <1>5 DEF EndTold
  <2> QED BY <2>1 DEF Followed
<1>6. CASE o # a
  <2>1. OpenTold(o)' => OpenTold(o)
    BY <1>1, <1>4, <1>6 DEF OpenTold
  <2>2. EndTold(o) => EndTold(o)'
    BY <1>1 DEF EndTold
  <2>3. reader' = [reader EXCEPT ![r] = rest] /\ reader \in [Readers -> Reader]
    BY Parts DEF Resolve
  <2>4. /\ reader'[r] = rest
        /\ \A q \in Readers : q # r => reader'[q] = reader[q]
    BY <2>3
  <2>5. reader'[r].at # "announce"
    BY <1>3, <2>3, <2>4 DEF Idle, Reader
  <2>6. Announcing(o)' => Announcing(o)
    BY <2>4, <2>5 DEF Announcing
  <2>7. o \in reader[r].todo => reader'[r].at = "lookup" /\ o \in reader'[r].todo
    BY <1>3, <1>6, <2>3, <2>4 DEF Reader
  <2>8. Expected(o) => Expected(o)'
    BY <1>3, <2>4, <2>7 DEF Expected, Pending
  <2> QED BY <1>3, <2>1, <2>2, <2>6, <2>8 DEF Followed
<1> QED BY <1>5, <1>6

\* The wallet is dropped, or the process starts again.
LEMMA EndForget == TypeInv /\ EndInv /\ Forget => EndInv'
<1> SUFFICES ASSUME TypeInv, EndInv, Forget, NEW o \in Oids, o \notin overlooked'
             PROVE  Followed(o)'
  BY DEF EndInv
<1>1. o \notin overlooked /\ o \notin Listed(tracked) /\ told' = told
  BY DEF Forget
<1>2. Followed(o) /\ ~(tracked[o] > 0)
  BY <1>1 DEF EndInv, Listed
<1>3. \A q \in Readers :
        /\ reader'[q].at = reader[q].at /\ reader'[q].todo = reader[q].todo
        /\ reader'[q].prev = reader[q].prev /\ reader'[q].now = reader[q].now
  <2> SUFFICES ASSUME NEW q \in Readers
               PROVE  /\ reader'[q].at = reader[q].at /\ reader'[q].todo = reader[q].todo
                      /\ reader'[q].prev = reader[q].prev /\ reader'[q].now = reader[q].now
    OBVIOUS
  <2>1. reader'[q] = [reader[q] EXCEPT !.same = FALSE] /\ reader[q] \in Reader
    BY Parts DEF Forget
  <2> QED BY <2>1 DEF Reader
<1> QED BY <1>1, <1>2, <1>3 DEF Followed, OpenTold, EndTold, Announcing, Expected, Pending

LEMMA EndRestart == EndInv /\ Restart => EndInv'
<1> SUFFICES ASSUME EndInv, Restart, NEW o \in Oids, o \notin overlooked'
             PROVE  Followed(o)'
  BY DEF EndInv
<1>1. /\ o \notin overlooked /\ o \notin Listed(tracked) /\ ~Expected(o)
      /\ told' = told /\ reader' = [r \in Readers |-> Idle]
  BY DEF Restart, Expected
<1>2. Followed(o) /\ ~(tracked[o] > 0)
  BY <1>1 DEF EndInv, Listed
<1>3. ~Announcing(o)'
  BY <1>1 DEF Announcing, Idle
<1> QED BY <1>1, <1>2, <1>3 DEF Followed, OpenTold, EndTold

\* Nothing an order's end depends on changes.
LEMMA EndStays ==
  ASSUME EndInv, UNCHANGED <<tracked, told, reader, overlooked>> PROVE EndInv'
BY DEF EndInv, Followed, OpenTold, EndTold, Announcing, Expected, Pending

LEMMA EndPoll ==
  ASSUME TypeInv, EndInv, NEW r \in Readers, Poll(r) PROVE EndInv'
<1>1. UNCHANGED <<tracked, told, overlooked>> /\ reader[r].at = "idle"
  BY DEF Poll, wallet, history
<1>2. /\ reader'[r].at = "polled"
      /\ \A q \in Readers : q # r => reader'[q] = reader[q]
  BY Parts DEF Poll, Reader
<1>3. \A o \in Oids : (Announcing(o)' <=> Announcing(o)) /\ (Expected(o) => Expected(o)')
  BY <1>1, <1>2 DEF Announcing, Expected, Pending
<1> QED BY <1>1, <1>3 DEF EndInv, Followed, OpenTold, EndTold

LEMMA EndStep == TypeInv /\ EndInv /\ [Next]_vars => EndInv'
<1> SUFFICES ASSUME TypeInv, EndInv, [Next]_vars PROVE EndInv'
  OBVIOUS
<1>1. CASE \E o \in Oids : Trade(o)
  BY <1>1, TradeStep, EndStays
<1>2. CASE ApplyFrame
  BY <1>2, EndApplyFrame
<1>3. CASE \E r \in Readers : Poll(r) \/ Ingest(r)
  BY <1>3, EndPoll, EndApplyOrders, EndCompare, EndAnnounce, EndResolve DEF Ingest
<1>4. CASE Toggle \/ UNCHANGED vars
  BY <1>4, EndStays DEF Toggle, wallet, history, vars
<1>5. CASE Forget \/ Restart
  BY <1>5, EndForget, EndRestart
<1> QED BY <1>1, <1>2, <1>3, <1>4, <1>5 DEF Next

\* No ending of an announced order falls between two readers and the live feed.
THEOREM EndsTold == Spec => []EndIsTold
<1>1. Init => EndInv
  BY DEF Init, EndInv, Followed, OpenTold, EndTold, Announcing, Idle
<1>2. EndInv => EndIsTold
  BY DEF EndInv, Followed, EndIsTold, OpenTold, EndTold, Expected
<1> QED BY TypeInit, TypeStep, EndStep, <1>1, <1>2, PTL DEF Spec
=============================================================================
