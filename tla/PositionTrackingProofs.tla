----------------------- MODULE PositionTrackingProofs -----------------------
(***************************************************************************)
(* Proofs about PositionTracking, for every set of coins and readers,      *)
(* every threshold and every bound: type correctness, that nothing is told *)
(* of a position that there never was, and that what was told and what is  *)
(* still to be told add up to the position that is tracked.                *)
(***************************************************************************)
EXTENDS PositionTracking, FiniteSetTheorems, WellFoundedInduction, TLAPS

USE PositionAssumption DEF PositionAssumption

-----------------------------------------------------------------------------
(* Facts about the operators.                                              *)

\* Among coins there is always one whose turn it is.
LEMMA FirstIsOne ==
  ASSUME NEW S \in SUBSET Coins, S # {} PROVE First(S) \in S
<1>1. PICK c \in S : \A d \in S : ~(<<d, c>> \in OpToRel(<, Nat))
  BY NatLessThanWellFounded, WFMin
<1>2. \A d \in S : ~(d < c)
  BY <1>1 DEF OpToRel
<1>3. \A d \in S : c <= d
  BY <1>2
<1> QED BY <1>3 DEF First

LEMMA RestFits ==
  ASSUME NEW prev \in Positions, NEW snap \in Positions, NEW todo \in SUBSET Coins,
         NEW current \in BOOLEAN
  PROVE  /\ Rest(prev, snap, todo, current) \in Reader
         /\ Rest(prev, snap, todo, current).todo = todo
         /\ Rest(prev, snap, todo, current).at = IF todo = {} THEN "idle" ELSE "telling"
         /\ todo # {} => /\ Rest(prev, snap, todo, current).prev = prev
                         /\ Rest(prev, snap, todo, current).snap = snap
<1>1. Flat \in Positions
  BY DEF Flat, Positions, Sizes
<1> QED BY <1>1 DEF Rest, Idle, Reader

LEMMA ChangeFits ==
  ASSUME NEW prev \in Positions, NEW snap \in Positions, NEW c \in Coins
  PROVE  Change(prev, snap, c) \in [coin : Coins, before : Sizes, after : Sizes]
BY DEF Change, Positions

LEMMA DeltaFits ==
  ASSUME NEW prev \in Positions, NEW snap \in Positions, NEW c \in Coins
  PROVE  /\ Delta(prev, snap, c) \in Int
         /\ c \in Changed(prev, snap) => prev[c] # snap[c]
<1>1. prev[c] \in Int /\ snap[c] \in Int
  BY DEF Positions, Sizes
<1> QED BY <1>1 DEF Delta, Changed, Magnitude

-----------------------------------------------------------------------------
(* Types.                                                                  *)

LEMMA FlatFits == Flat \in Positions /\ Flat \in [Coins -> Int] /\ Idle \in Reader
BY DEF Flat, Positions, Sizes, Idle, Reader

LEMMA TypeInit == Init => TypeOK
<1> SUFFICES ASSUME Init PROVE TypeOK
  OBVIOUS
<1>1. \A r \in Readers : reader[r] = Idle
  BY DEF Init
<1>2. reader \in [Readers -> Reader]
  BY FlatFits DEF Init
<1>3. \A r \in Readers : reader[r].at = "telling" <=> reader[r].todo # {}
  BY <1>1 DEF Idle
<1>4. had \in [Coins -> SUBSET Sizes]
  BY DEF Init, Positions
<1>5. moves \in 0..MaxMoves /\ drops \in 0..MaxDrops
  BY DEF Init
<1>6. enabled \in BOOLEAN /\ known \in BOOLEAN /\ told = {}
  BY DEF Init
<1>7. held \in Positions /\ tracked \in Positions /\ ledger \in [Coins -> Int]
  BY FlatFits DEF Init
<1> QED BY <1>2, <1>3, <1>4, <1>5, <1>6, <1>7 DEF TypeOK

LEMMA TypeMove == ASSUME TypeOK, NEW c \in Coins, Move(c) PROVE TypeOK'
<1>1. PICK size \in Sizes : /\ held' = [held EXCEPT ![c] = size]
                            /\ had' = [had EXCEPT ![c] = @ \cup {size}]
  BY DEF Move
<1>2. held' \in Positions /\ had' \in [Coins -> SUBSET Sizes]
  BY <1>1 DEF TypeOK, Positions
<1>3. moves' \in 0..MaxMoves
  BY DEF TypeOK, Move
<1> QED BY <1>2, <1>3 DEF TypeOK, Move, wallet

LEMMA TypePoll == ASSUME TypeOK, NEW r \in Readers, Poll(r) PROVE TypeOK'
<1>1. reader \in [Readers -> Reader] /\ held \in Positions
  BY DEF TypeOK
<1>2. reader' = [reader EXCEPT ![r].at = "polled", ![r].snap = held]
  BY DEF Poll
<1>3. reader' \in [Readers -> Reader]
  BY <1>1, <1>2 DEF Reader
<1>4. /\ reader'[r].at = "polled" /\ reader'[r].todo = reader[r].todo
      /\ \A q \in Readers : q # r => reader'[q] = reader[q]
  BY <1>1, <1>2 DEF Reader
<1>5. \A q \in Readers : reader'[q].at = "telling" <=> reader'[q].todo # {}
  BY <1>4 DEF TypeOK, Poll
<1> QED BY <1>3, <1>5 DEF TypeOK, Poll, exchange, wallet, history

\* What a reader leaves behind when it tells one change, or none.
LEMMA TypeTelling ==
  ASSUME TypeOK, NEW r \in Readers, NEW prev \in Positions, NEW snap \in Positions,
         NEW todo \in SUBSET Coins, NEW current \in BOOLEAN,
         reader' = [reader EXCEPT ![r] = Rest(prev, snap, todo, current)]
  PROVE  /\ reader' \in [Readers -> Reader]
         /\ \A q \in Readers : reader'[q].at = "telling" <=> reader'[q].todo # {}
         /\ reader'[r] = Rest(prev, snap, todo, current)
         /\ \A q \in Readers : q # r => reader'[q] = reader[q]
<1>1. reader \in [Readers -> Reader]
  BY DEF TypeOK
<1>2. /\ reader'[r] = Rest(prev, snap, todo, current)
      /\ \A q \in Readers : q # r => reader'[q] = reader[q]
  BY <1>1
<1>3. reader' \in [Readers -> Reader]
  BY <1>1, RestFits
<1>4. ASSUME NEW q \in Readers
      PROVE  reader'[q].at = "telling" <=> reader'[q].todo # {}
  <2>1. CASE q = r
    <3> DEFINE rest == Rest(prev, snap, todo, current)
    <3>1. rest.todo = todo /\ rest.at = IF todo = {} THEN "idle" ELSE "telling"
      BY RestFits
    <3>2. reader'[q] = rest
      BY <1>2, <2>1
    <3> HIDE DEF rest
    <3> QED BY <3>1, <3>2
  <2>2. CASE q # r
    BY <1>2, <2>2 DEF TypeOK
  <2> QED BY <2>1, <2>2
<1> QED BY <1>2, <1>3, <1>4

LEMMA TypeApply == ASSUME TypeOK, NEW r \in Readers, Apply(r) PROVE TypeOK'
<1> DEFINE snap  == reader[r].snap
           todo  == Differences(snap)
           first == IF todo = {} THEN {} ELSE {First(todo)}
<1>1. snap \in Positions /\ tracked \in Positions
  BY DEF TypeOK, Reader
<1>2. todo \in SUBSET Coins
  BY DEF Differences, Changed
<1>3. first \in SUBSET Coins
  BY <1>2, FirstIsOne
<1>4. told' \subseteq [coin : Coins, before : Sizes, after : Sizes]
  <2>1. told' = told \cup {Change(tracked, snap, c) : c \in first}
    BY DEF Apply
  <2> QED BY <1>1, <1>3, <2>1, ChangeFits DEF TypeOK
<1>5. ledger' \in [Coins -> Int]
  <2>1. \A c \in Coins : Delta(tracked, snap, c) \in Int
    BY <1>1, DeltaFits
  <2>2. \A c \in Coins : snap[c] \in Int /\ ledger[c] \in Int
    BY <1>1 DEF TypeOK, Positions, Sizes
  <2>3. ledger' = [c \in Coins |->
                     IF ~known THEN snap[c]
                     ELSE IF c \in todo \ first THEN ledger[c]
                     ELSE ledger[c] + Delta(tracked, snap, c)]
    BY DEF Apply
  <2> HIDE DEF snap, todo, first
  <2> QED BY <2>1, <2>2, <2>3
<1>6. reader' = [reader EXCEPT ![r] = Rest(tracked, snap, todo \ first, TRUE)]
  BY DEF Apply
<1>7. /\ reader' \in [Readers -> Reader]
      /\ \A q \in Readers : reader'[q].at = "telling" <=> reader'[q].todo # {}
  <2> HIDE DEF snap, todo, first
  <2>1. todo \ first \in SUBSET Coins
    BY <1>2
  <2> QED BY <1>1, <1>6, <2>1, TypeTelling
<1>8. tracked' \in Positions /\ known' \in BOOLEAN
  BY <1>1 DEF Apply
<1> QED BY <1>4, <1>5, <1>7, <1>8 DEF TypeOK, Apply, exchange

LEMMA TypeReport == ASSUME TypeOK, NEW r \in Readers, Report(r) PROVE TypeOK'
<1> DEFINE now == reader[r]
           c   == First(now.todo)
<1>1. now \in Reader /\ now.todo # {}
  BY DEF TypeOK, Report
<1>2. /\ now.prev \in Positions /\ now.snap \in Positions
      /\ now.todo \in SUBSET Coins /\ now.current \in BOOLEAN
  BY <1>1 DEF Reader
<1>3. c \in Coins
  BY <1>1, <1>2, FirstIsOne
<1>4. told' \subseteq [coin : Coins, before : Sizes, after : Sizes]
  <2>1. told' = told \cup {Change(now.prev, now.snap, c)}
    BY DEF Report
  <2> HIDE DEF now, c
  <2>2. Change(now.prev, now.snap, c) \in [coin : Coins, before : Sizes, after : Sizes]
    BY <1>2, <1>3, ChangeFits
  <2> QED BY <2>1, <2>2 DEF TypeOK
<1>5. ledger' \in [Coins -> Int]
  <2>1. Delta(now.prev, now.snap, c) \in Int
    BY <1>2, <1>3, DeltaFits
  <2>2. ledger' = IF now.current
                  THEN [ledger EXCEPT ![c] = @ + Delta(now.prev, now.snap, c)]
                  ELSE ledger
    BY DEF Report
  <2> HIDE DEF now, c
  <2>3. ledger \in [Coins -> Int] /\ ledger[c] \in Int
    BY <1>3 DEF TypeOK
  <2>4. CASE now.current
    <3>1. PICK sum \in Int : sum = ledger[c] + Delta(now.prev, now.snap, c)
      BY <2>1, <2>3
    <3>2. ledger' = [ledger EXCEPT ![c] = sum]
      BY <2>2, <2>4, <3>1
    <3> QED BY <1>3, <2>3, <3>2
  <2>5. CASE ~now.current
    BY <2>2, <2>3, <2>5
  <2> QED BY <2>4, <2>5
<1>6. reader' = [reader EXCEPT ![r] = Rest(now.prev, now.snap, now.todo \ {c}, now.current)]
  BY DEF Report
<1>7. /\ reader' \in [Readers -> Reader]
      /\ \A q \in Readers : reader'[q].at = "telling" <=> reader'[q].todo # {}
  <2> HIDE DEF now, c
  <2>1. now.todo \ {c} \in SUBSET Coins
    BY <1>2
  <2> QED BY <1>2, <1>6, <2>1, TypeTelling
<1> QED BY <1>4, <1>5, <1>7 DEF TypeOK, Report, exchange, wallet

LEMMA TypeForget == TypeOK /\ Forget => TypeOK'
<1> SUFFICES ASSUME TypeOK, Forget PROVE TypeOK'
  OBVIOUS
<1>1. reader \in [Readers -> Reader]
  BY DEF TypeOK
<1>2. reader' = [r \in Readers |-> [reader[r] EXCEPT !.current = FALSE]]
  BY DEF Forget
<1>3. \A r \in Readers : /\ reader'[r] \in Reader
                          /\ reader'[r].at = reader[r].at
                          /\ reader'[r].todo = reader[r].todo
  BY <1>1, <1>2 DEF Reader
<1>4. reader' \in [Readers -> Reader]
  BY <1>2, <1>3
<1>5. \A r \in Readers : reader'[r].at = "telling" <=> reader'[r].todo # {}
  BY <1>3 DEF TypeOK
<1>6. drops' \in 0..MaxDrops
  BY DEF TypeOK, Forget
<1> QED BY <1>4, <1>5, <1>6, FlatFits DEF TypeOK, Forget, exchange

LEMMA TypeRestart == TypeOK /\ Restart => TypeOK'
<1> SUFFICES ASSUME TypeOK, Restart PROVE TypeOK'
  OBVIOUS
<1>1. reader' = [r \in Readers |-> Idle]
  BY DEF Restart
<1>2. reader' \in [Readers -> Reader]
  BY <1>1, FlatFits
<1>3. \A r \in Readers : reader'[r].at = "telling" <=> reader'[r].todo # {}
  BY <1>1 DEF Idle
<1>4. drops' \in 0..MaxDrops
  BY DEF TypeOK, Restart
<1>5. had' \in [Coins -> SUBSET Sizes]
  BY DEF TypeOK, Restart, Positions
<1> QED BY <1>2, <1>3, <1>4, <1>5, FlatFits DEF TypeOK, Restart, exchange

LEMMA TypeStep == TypeOK /\ [Next]_vars => TypeOK'
<1> SUFFICES ASSUME TypeOK, [Next]_vars PROVE TypeOK'
  OBVIOUS
<1>1. CASE \E c \in Coins : Move(c)
  BY <1>1, TypeMove
<1>2. CASE \E r \in Readers : Poll(r) \/ Ingest(r)
  BY <1>2, TypePoll, TypeApply, TypeReport DEF Ingest
<1>3. CASE Toggle
  BY <1>3 DEF Toggle, TypeOK, exchange, wallet, history
<1>4. CASE Forget \/ Restart
  BY <1>4, TypeForget, TypeRestart
<1>5. CASE UNCHANGED vars
  BY <1>5 DEF vars, TypeOK
<1> QED BY <1>1, <1>2, <1>3, <1>4, <1>5 DEF Next

\* The state of the position tracking keeps its types.
THEOREM TypeCorrect == Spec => []TypeOK
BY TypeInit, TypeStep, PTL DEF Spec

-----------------------------------------------------------------------------
(* What is told was held.                                                  *)

HadAll(positions) == \A c \in Coins : positions[c] \in had[c]

\* A snapshot under way was held; so were both ends of a change to be told.
ReaderHad(r) ==
  /\ reader[r].at # "idle" => HadAll(reader[r].snap)
  /\ reader[r].at = "telling" =>
       /\ HadAll(reader[r].prev)
       /\ \A c \in reader[r].todo : reader[r].prev[c] # reader[r].snap[c]

HadInv ==
  /\ HadAll(held)
  /\ known => HadAll(tracked)
  /\ \A r \in Readers : ReaderHad(r)
  /\ ToldWasHeld

LEMMA HadInit == Init => HadInv
<1> SUFFICES ASSUME Init PROVE HadInv
  OBVIOUS
<1>1. HadAll(held)
  BY DEF Init, HadAll
<1>2. \A r \in Readers : ReaderHad(r)
  BY DEF Init, ReaderHad, Idle
<1> QED BY <1>1, <1>2 DEF Init, HadInv, ToldWasHeld

\* The history grows, and what was had stays had.
LEMMA HadMove == ASSUME TypeOK, HadInv, NEW c \in Coins, Move(c) PROVE HadInv'
<1>1. PICK size \in Sizes : /\ held' = [held EXCEPT ![c] = size]
                            /\ had' = [had EXCEPT ![c] = @ \cup {size}]
  BY DEF Move
<1>2. had \in [Coins -> SUBSET Sizes] /\ held \in [Coins -> Sizes]
  BY DEF TypeOK, Positions
<1>3. \A d \in Coins : had[d] \subseteq had'[d]
  BY <1>1, <1>2
<1>4. \A d \in Coins : held'[d] \in had'[d]
  <2> SUFFICES ASSUME NEW d \in Coins PROVE held'[d] \in had'[d]
    OBVIOUS
  <2>1. CASE d = c
    BY <1>1, <1>2, <2>1
  <2>2. CASE d # c
    BY <1>1, <1>2, <2>2 DEF HadInv, HadAll
  <2> QED BY <2>1, <2>2
<1>5. UNCHANGED <<known, tracked, reader, told>>
  BY DEF Move, wallet
<1>6. known' => HadAll(tracked)'
  BY <1>3, <1>5 DEF HadInv, HadAll
<1>7. \A r \in Readers : ReaderHad(r)'
  BY <1>3, <1>5 DEF HadInv, HadAll, ReaderHad
<1>8. ToldWasHeld'
  BY <1>3, <1>5 DEF HadInv, ToldWasHeld, TypeOK
<1> QED BY <1>4, <1>6, <1>7, <1>8 DEF HadInv, HadAll

LEMMA HadPoll == ASSUME TypeOK, HadInv, NEW r \in Readers, Poll(r) PROVE HadInv'
<1>1. UNCHANGED <<held, known, tracked, told, had>>
  BY DEF Poll, exchange, wallet, history
<1>2. /\ reader'[r].at = "polled" /\ reader'[r].snap = held
      /\ \A q \in Readers : q # r => reader'[q] = reader[q]
  BY DEF Poll, TypeOK, Reader
<1>3. ASSUME NEW q \in Readers PROVE ReaderHad(q)'
  <2>1. CASE q = r
    BY <1>1, <1>2, <2>1 DEF HadInv, HadAll, ReaderHad
  <2>2. CASE q # r
    BY <1>1, <1>2, <2>2 DEF HadInv, HadAll, ReaderHad
  <2> QED BY <2>1, <2>2
<1> QED BY <1>1, <1>3 DEF HadInv, HadAll, ToldWasHeld

\* A change is told that lies between two positions that were held.
LEMMA HadTold ==
  ASSUME HadInv, NEW prev, NEW snap, NEW coins \in SUBSET Coins,
         HadAll(prev), HadAll(snap), \A c \in coins : prev[c] # snap[c],
         had' = had, told' = told \cup {Change(prev, snap, c) : c \in coins}
  PROVE  ToldWasHeld'
<1> SUFFICES ASSUME NEW e \in told'
             PROVE  e.before # e.after /\ {e.before, e.after} \subseteq had[e.coin]
  BY DEF ToldWasHeld
<1>1. CASE e \in told
  BY <1>1 DEF HadInv, ToldWasHeld
<1>2. CASE e \notin told
  <2>1. PICK c \in coins : e = Change(prev, snap, c)
    BY <1>2
  <2>2. e.coin = c /\ e.before = prev[c] /\ e.after = snap[c]
    BY <2>1 DEF Change
  <2> QED BY <2>2 DEF HadAll
<1> QED BY <1>1, <1>2

\* The reader is left with changes between two positions that were held.
LEMMA HadRest ==
  ASSUME TypeOK, HadInv, NEW r \in Readers, NEW prev \in Positions, NEW snap \in Positions,
         NEW todo \in SUBSET Coins, NEW current \in BOOLEAN,
         todo # {} => HadAll(prev), HadAll(snap), \A c \in todo : prev[c] # snap[c],
         had' = had, reader' = [reader EXCEPT ![r] = Rest(prev, snap, todo, current)]
  PROVE  \A q \in Readers : ReaderHad(q)'
<1> DEFINE rest == Rest(prev, snap, todo, current)
<1>1. reader'[r] = rest /\ \A q \in Readers : q # r => reader'[q] = reader[q]
  BY TypeTelling
<1>2. /\ rest.todo = todo
      /\ rest.at = IF todo = {} THEN "idle" ELSE "telling"
      /\ todo # {} => rest.prev = prev /\ rest.snap = snap
  BY RestFits
<1> HIDE DEF rest
<1>3. ReaderHad(r)'
  <2>1. CASE todo = {}
    <3>1. reader'[r].at = "idle"
      BY <1>1, <1>2, <2>1
    <3> QED BY <3>1 DEF ReaderHad
  <2>2. CASE todo # {}
    <3>1. /\ reader'[r].prev = prev /\ reader'[r].snap = snap
          /\ reader'[r].todo = todo
      BY <1>1, <1>2, <2>2
    <3>2. \A c \in Coins : prev[c] \in had'[c] /\ snap[c] \in had'[c]
      BY <2>2 DEF HadAll
    <3> QED BY <3>1, <3>2 DEF ReaderHad, HadAll
  <2> QED BY <2>1, <2>2
<1>4. \A q \in Readers : q # r => ReaderHad(q)'
  BY <1>1 DEF HadInv, ReaderHad, HadAll
<1> QED BY <1>3, <1>4

\* A snapshot is compared only with one that was stored before it, as long as
\* the wallet has a baseline.
LEMMA HadApply == ASSUME TypeOK, HadInv, NEW r \in Readers, Apply(r) PROVE HadInv'
<1> DEFINE snap  == reader[r].snap
           todo  == Differences(snap)
           first == IF todo = {} THEN {} ELSE {First(todo)}
<1>1. snap \in Positions /\ tracked \in Positions
  BY DEF TypeOK, Reader
<1>2. todo \in SUBSET Coins /\ (todo # {} => known)
  BY DEF Differences, Changed
<1>3. first \in SUBSET todo
  BY <1>2, FirstIsOne
<1>4. HadAll(snap)
  BY DEF Apply, HadInv, ReaderHad
<1>5. todo # {} => HadAll(tracked)
  BY <1>2 DEF HadInv
<1>6. \A c \in todo : tracked[c] # snap[c]
  <2>1. todo \subseteq Changed(tracked, snap)
    BY DEF Differences
  <2> HIDE DEF snap, todo
  <2> QED BY <1>1, <1>2, <2>1, DeltaFits
<1>7. /\ UNCHANGED <<held, had>> /\ tracked' = snap
      /\ told' = told \cup {Change(tracked, snap, c) : c \in first}
      /\ reader' = [reader EXCEPT ![r] = Rest(tracked, snap, todo \ first, TRUE)]
  BY DEF Apply, exchange
<1> HIDE DEF snap, todo, first
<1>8. ToldWasHeld'
  <2>1. CASE first = {}
    <3>1. told' = told
      BY <1>7, <2>1
    <3> QED BY <1>7, <3>1 DEF HadInv, ToldWasHeld
  <2>2. CASE first # {}
    <3>1. HadAll(tracked)
      BY <1>3, <1>5, <2>2
    <3> QED BY <1>2, <1>3, <1>4, <1>6, <1>7, <3>1, HadTold
  <2> QED BY <2>1, <2>2
<1>9. \A q \in Readers : ReaderHad(q)'
  <2>1. todo \ first \in SUBSET Coins /\ (todo \ first # {} => HadAll(tracked))
    BY <1>2, <1>5
  <2> QED BY <1>1, <1>4, <1>6, <1>7, <2>1, HadRest
<1>10. HadAll(held)' /\ HadAll(tracked)'
  BY <1>4, <1>7 DEF HadInv, HadAll
<1> QED BY <1>8, <1>9, <1>10 DEF HadInv

LEMMA HadReport == ASSUME TypeOK, HadInv, NEW r \in Readers, Report(r) PROVE HadInv'
<1> DEFINE now  == reader[r]
           prev == now.prev
           snap == now.snap
           todo == now.todo
           c    == First(todo)
<1>1. now \in Reader /\ todo # {}
  BY DEF TypeOK, Report
<1>2. /\ prev \in Positions /\ snap \in Positions
      /\ todo \in SUBSET Coins /\ now.current \in BOOLEAN
  BY <1>1 DEF Reader
<1>3. c \in todo
  BY <1>1, <1>2, FirstIsOne
<1>4. HadAll(prev) /\ HadAll(snap) /\ \A d \in todo : prev[d] # snap[d]
  BY DEF Report, HadInv, ReaderHad
<1>5. /\ UNCHANGED <<held, had, known, tracked>>
      /\ told' = told \cup {Change(prev, snap, c)}
      /\ reader' = [reader EXCEPT ![r] = Rest(prev, snap, todo \ {c}, now.current)]
  BY DEF Report, exchange, wallet
<1> HIDE DEF now, prev, snap, todo, c
<1>6. ToldWasHeld'
  <2>1. {c} \in SUBSET Coins /\ \A d \in {c} : prev[d] # snap[d]
    BY <1>2, <1>3, <1>4
  <2>2. told' = told \cup {Change(prev, snap, d) : d \in {c}}
    BY <1>5
  <2> QED BY <1>4, <1>5, <2>1, <2>2, HadTold
<1>7. \A q \in Readers : ReaderHad(q)'
  <2>1. todo \ {c} \in SUBSET Coins /\ \A d \in todo \ {c} : prev[d] # snap[d]
    BY <1>2, <1>4
  <2> QED BY <1>2, <1>4, <1>5, <2>1, HadRest
<1> QED BY <1>5, <1>6, <1>7 DEF HadInv, HadAll

\* A dropped wallet has no baseline; a new process has told nothing yet.
LEMMA HadForget == TypeOK /\ HadInv /\ Forget => HadInv'
<1> SUFFICES ASSUME TypeOK, HadInv, Forget PROVE HadInv'
  OBVIOUS
<1>1. UNCHANGED <<held, told, had>> /\ ~known'
  BY DEF Forget, exchange
<1>2. ASSUME NEW r \in Readers PROVE ReaderHad(r)'
  <2>1. reader'[r] = [reader[r] EXCEPT !.current = FALSE] /\ reader[r] \in Reader
    BY DEF Forget, TypeOK
  <2>2. /\ reader'[r].at = reader[r].at /\ reader'[r].prev = reader[r].prev
        /\ reader'[r].snap = reader[r].snap /\ reader'[r].todo = reader[r].todo
    BY <2>1 DEF Reader
  <2> QED BY <1>1, <2>2 DEF HadInv, ReaderHad, HadAll
<1> QED BY <1>1, <1>2 DEF HadInv, HadAll, ToldWasHeld

LEMMA HadRestart == Restart => HadInv'
<1> SUFFICES ASSUME Restart PROVE HadInv'
  OBVIOUS
<1>1. held' = held /\ had' = [c \in Coins |-> {held[c]}] /\ told' = {} /\ ~known'
  BY DEF Restart, exchange
<1>2. \A r \in Readers : reader'[r].at = "idle"
  BY DEF Restart, Idle
<1> QED BY <1>1, <1>2 DEF HadInv, HadAll, ReaderHad, ToldWasHeld

LEMMA HadStep == TypeOK /\ HadInv /\ [Next]_vars => HadInv'
<1> SUFFICES ASSUME TypeOK, HadInv, [Next]_vars PROVE HadInv'
  OBVIOUS
<1>1. CASE \E c \in Coins : Move(c)
  BY <1>1, HadMove
<1>2. CASE \E r \in Readers : Poll(r) \/ Ingest(r)
  BY <1>2, HadPoll, HadApply, HadReport DEF Ingest
<1>3. CASE Toggle \/ UNCHANGED vars
  BY <1>3 DEF Toggle, vars, exchange, wallet, history, HadInv, HadAll, ReaderHad,
              ToldWasHeld
<1>4. CASE Forget \/ Restart
  BY <1>4, HadForget, HadRestart
<1> QED BY <1>1, <1>2, <1>3, <1>4 DEF Next

\* No change is told between positions that there never were, in whatever
\* order the snapshots of any number of readers are applied.
THEOREM Honest == Spec => []ToldWasHeld
<1>1. HadInv => ToldWasHeld
  BY DEF HadInv
<1> QED BY TypeInit, TypeStep, HadInit, HadStep, <1>1, PTL DEF Spec

-----------------------------------------------------------------------------
(* Sums over the readers.                                                  *)

Amounts == -(2 * MaxSize) .. 2 * MaxSize

Positive(n) == IF n > 0 THEN n ELSE 0

\* The units of one reader.
LEMMA RowOf ==
  ASSUME NEW r, NEW k \in Int
  PROVE  IsFiniteSet({r} \X (1 .. k)) /\ Cardinality({r} \X (1 .. k)) = Positive(k)
<1>1. /\ IsFiniteSet(1 .. k)
      /\ Cardinality(1 .. k) = IF 1 > k THEN 0 ELSE k - 1 + 1
  <2>1. 1 \in Int
    OBVIOUS
  <2> QED BY <2>1, FS_Interval
<1>2. Cardinality(1 .. k) = Positive(k)
  BY <1>1 DEF Positive
<1>3. IsFiniteSet({r}) /\ Cardinality({r}) = 1
  BY FS_Singleton
<1>4. /\ IsFiniteSet({r} \X (1 .. k))
      /\ Cardinality({r} \X (1 .. k)) = Cardinality({r}) * Cardinality(1 .. k)
  BY <1>1, <1>3, FS_Product
<1>5. Positive(k) \in Nat
  BY DEF Positive
<1> QED BY <1>2, <1>3, <1>4, <1>5

\* The units of one reader and those of the others.
LEMMA UnitsOf ==
  ASSUME NEW a \in [Readers -> Amounts], NEW r \in Readers
  PROVE  LET others == {u \in Units(a) : u[1] # r}
         IN  /\ Cardinality(others) \in Nat
             /\ Cardinality(Units(a)) = Cardinality(others) + Positive(a[r])
<1> DEFINE all    == Readers \X (1 .. 2 * MaxSize)
           others == {u \in Units(a) : u[1] # r}
           row    == {r} \X (1 .. a[r])
<1>1. a[r] \in Amounts /\ a[r] \in Int /\ a[r] <= 2 * MaxSize
  BY DEF Amounts
<1>2. IsFiniteSet(all)
  <2>1. 1 \in Int /\ 2 * MaxSize \in Int
    OBVIOUS
  <2>2. IsFiniteSet(1 .. 2 * MaxSize)
    BY <2>1, FS_Interval
  <2> QED BY <2>2, FS_Product
<1>3. others \subseteq all /\ Units(a) \subseteq all
  BY DEF Units
<1>4. IsFiniteSet(others) /\ Cardinality(others) \in Nat
  BY <1>2, <1>3, FS_Subset, FS_CardinalityType
<1>5. IsFiniteSet(row) /\ Cardinality(row) = Positive(a[r])
  BY <1>1, RowOf
<1>6. Units(a) = others \cup row /\ others \cap row = {}
  <2>1. row \subseteq Units(a)
    BY <1>1 DEF Units
  <2>2. ASSUME NEW u \in Units(a), u[1] = r PROVE u \in row
    BY <1>1, <2>2 DEF Units
  <2> QED BY <2>1, <2>2
<1>7. Cardinality(Units(a)) = Cardinality(others) + Cardinality(row) - 0
  <2> HIDE DEF others, row
  <2>1. Cardinality(others \cup row)
          = Cardinality(others) + Cardinality(row) - Cardinality(others \cap row)
    BY <1>4, <1>5, FS_Union
  <2>2. Cardinality({}) = 0
    BY FS_EmptySet
  <2> QED BY <1>6, <2>1, <2>2
<1>8. Positive(a[r]) \in Nat
  BY <1>1 DEF Positive
<1> HIDE DEF others, row
<1>9. Cardinality(Units(a)) = Cardinality(others) + Positive(a[r])
  BY <1>4, <1>5, <1>7, <1>8
<1> QED BY <1>4, <1>9 DEF others

LEMMA UnitsChange ==
  ASSUME NEW a \in [Readers -> Amounts], NEW b \in [Readers -> Amounts],
         NEW r \in Readers, \A q \in Readers : q # r => a[q] = b[q]
  PROVE  /\ Cardinality(Units(a)) \in Int
         /\ Cardinality(Units(b)) = Cardinality(Units(a)) + Positive(b[r]) - Positive(a[r])
<1>1. {u \in Units(a) : u[1] # r} = {u \in Units(b) : u[1] # r}
  BY DEF Units
<1>2. PICK others \in Nat : /\ Cardinality(Units(a)) = others + Positive(a[r])
                            /\ Cardinality(Units(b)) = others + Positive(b[r])
  BY <1>1, UnitsOf
<1>3. Positive(a[r]) \in Nat /\ Positive(b[r]) \in Nat
  BY DEF Positive, Amounts
<1> QED BY <1>2, <1>3

\* When one reader's amount changes, so does the sum.
LEMMA TotalChanges ==
  ASSUME NEW a \in [Readers -> Amounts], NEW b \in [Readers -> Amounts],
         NEW r \in Readers, \A q \in Readers : q # r => a[q] = b[q]
  PROVE  Total(a) \in Int /\ Total(b) = Total(a) + b[r] - a[r]
<1>0. ASSUME NEW f \in [Readers -> Amounts]
      PROVE  [q \in Readers |-> -f[q]] \in [Readers -> Amounts]
  <2>1. \A n \in Amounts : -n \in Amounts
    BY DEF Amounts
  <2> QED BY <2>1
<1>1. PICK na \in [Readers -> Amounts] : na = [q \in Readers |-> -a[q]]
  BY <1>0
<1>2. PICK nb \in [Readers -> Amounts] : nb = [q \in Readers |-> -b[q]]
  BY <1>0
<1>3. na[r] = -a[r] /\ nb[r] = -b[r] /\ \A q \in Readers : q # r => na[q] = nb[q]
  BY <1>1, <1>2
<1>4. /\ Cardinality(Units(a)) \in Int
      /\ Cardinality(Units(b)) = Cardinality(Units(a)) + Positive(b[r]) - Positive(a[r])
  BY UnitsChange
<1>5. /\ Cardinality(Units(na)) \in Int
      /\ Cardinality(Units(nb)) = Cardinality(Units(na)) + Positive(nb[r]) - Positive(na[r])
  BY <1>3, UnitsChange
<1>6. /\ Total(a) = Cardinality(Units(a)) - Cardinality(Units(na))
      /\ Total(b) = Cardinality(Units(b)) - Cardinality(Units(nb))
  BY <1>1, <1>2 DEF Total
<1>7. a[r] \in Int /\ b[r] \in Int
  BY DEF Amounts
<1> QED BY <1>3, <1>4, <1>5, <1>6, <1>7 DEF Positive

LEMMA TotalOfNothing ==
  ASSUME NEW a, a = [r \in Readers |-> 0]
  PROVE  Total(a) = 0
<1>1. Units(a) = {} /\ Units([r \in Readers |-> -a[r]]) = {}
  BY DEF Units
<1> QED BY <1>1, FS_EmptySet DEF Total

-----------------------------------------------------------------------------
(* The ledger.  A reader is current only while the wallet it told of is    *)
(* the one that is tracked.                                                *)

LedgerInv ==
  /\ LedgerBalances
  /\ ~known => \A r \in Readers : reader[r].current => reader[r].todo = {}

LEMMA OwingFits ==
  ASSUME NEW now \in Reader, NEW c \in Coins
  PROVE  Owing(now, c) \in Amounts /\ Owing(now, c) \in Int
<1>1. now.prev \in Positions /\ now.snap \in Positions
  BY DEF Reader
<1>2. now.prev[c] \in Sizes /\ now.snap[c] \in Sizes
  BY <1>1 DEF Positions
<1> QED BY <1>2 DEF Owing, Delta, Sizes, Amounts

\* A reader that changes alone changes what is owed by what it owes.
LEMMA OwedChanges ==
  ASSUME TypeOK, reader' \in [Readers -> Reader], NEW c \in Coins, NEW r \in Readers,
         \A q \in Readers : q # r => reader'[q] = reader[q]
  PROVE  /\ Owed(c) \in Int
         /\ Owed(c)' = Owed(c) + Owing(reader'[r], c) - Owing(reader[r], c)
<1> DEFINE a == [q \in Readers |-> Owing(reader[q], c)]
           b == [q \in Readers |-> Owing(reader'[q], c)]
<1>1. a \in [Readers -> Amounts] /\ b \in [Readers -> Amounts]
  BY OwingFits DEF TypeOK
<1>2. \A q \in Readers : q # r => a[q] = b[q]
  OBVIOUS
<1>3. a[r] = Owing(reader[r], c) /\ b[r] = Owing(reader'[r], c)
  OBVIOUS
<1>4. Owed(c) = Total(a) /\ Owed(c)' = Total(b)
  BY DEF Owed, Owing, Total, Units
<1> HIDE DEF a, b
<1> QED BY <1>1, <1>2, <1>3, <1>4, TotalChanges

LEMMA LedgerInit == Init => LedgerInv
BY DEF Init, LedgerInv, LedgerBalances, Idle

LEMMA LedgerPoll ==
  ASSUME TypeOK, LedgerInv, NEW r \in Readers, Poll(r)
  PROVE  LedgerInv'
<1>1. reader' = [reader EXCEPT ![r].at = "polled", ![r].snap = held] /\ reader[r].todo = {}
  BY DEF Poll, TypeOK
<1>2. \A q \in Readers : /\ reader'[q].current = reader[q].current
                         /\ reader'[q].todo = reader[q].todo
                         /\ q # r => reader'[q] = reader[q]
  BY <1>1 DEF TypeOK, Reader
<1>3. ASSUME NEW c \in Coins PROVE Owed(c)' = Owed(c)
  <2>1. \A q \in Readers : Owing(reader'[q], c) = Owing(reader[q], c)
    <3> SUFFICES ASSUME NEW q \in Readers PROVE Owing(reader'[q], c) = Owing(reader[q], c)
      OBVIOUS
    <3>1. CASE q = r
      BY <1>1, <1>2, <3>1 DEF Owing
    <3>2. CASE q # r
      BY <1>2, <3>2
    <3> QED BY <3>1, <3>2
  <2>2. Owed(c)' = Total([q \in Readers |-> Owing(reader'[q], c)])
    BY DEF Owed, Owing, Total, Units
  <2>3. [q \in Readers |-> Owing(reader'[q], c)] = [q \in Readers |-> Owing(reader[q], c)]
    BY <2>1
  <2> QED BY <2>2, <2>3 DEF Owed
<1> QED BY <1>2, <1>3 DEF LedgerInv, LedgerBalances, Poll, wallet, history

LEMMA LedgerApply ==
  ASSUME TypeOK, TypeOK', LedgerInv, NEW r \in Readers, Apply(r)
  PROVE  LedgerInv'
<1> DEFINE snap  == reader[r].snap
           todo  == Differences(snap)
           first == IF todo = {} THEN {} ELSE {First(todo)}
<1>1. /\ snap \in Positions /\ tracked \in Positions
      /\ todo \in SUBSET Coins /\ reader[r].todo = {}
  BY DEF TypeOK, Reader, Differences, Changed, Apply
<1>2. /\ known' = TRUE /\ tracked' = snap
      /\ ledger' = [c \in Coins |->
                      IF ~known THEN snap[c]
                      ELSE IF c \in todo \ first THEN ledger[c]
                      ELSE ledger[c] + Delta(tracked, snap, c)]
      /\ reader' = [reader EXCEPT ![r] = Rest(tracked, snap, todo \ first, TRUE)]
  BY DEF Apply
<1>3. ~known => todo = {}
  BY DEF Differences
<1> HIDE DEF snap, todo, first
<1>4. \A q \in Readers : q # r => reader'[q] = reader[q]
  BY <1>2 DEF TypeOK
<1>5. reader'[r] = Rest(tracked, snap, todo \ first, TRUE)
  BY <1>2 DEF TypeOK
<1>6. ASSUME NEW c \in Coins PROVE tracked'[c] = ledger'[c] + Owed(c)'
  <2>1. /\ Owing(reader[r], c) = 0
        /\ Owing(reader'[r], c)
             = IF c \in todo \ first THEN Delta(tracked, snap, c) ELSE 0
    <3>1. Owing(reader[r], c) = 0
      BY <1>1 DEF Owing
    <3>2. Owing(reader'[r], c) = IF c \in todo \ first THEN Delta(tracked, snap, c) ELSE 0
      BY <1>5 DEF Owing, Rest, Idle
    <3> QED BY <3>1, <3>2
  <2>2. Owed(c) \in Int /\ Owed(c)' = Owed(c) + Owing(reader'[r], c) - Owing(reader[r], c)
    <3>1. reader' \in [Readers -> Reader]
      BY DEF TypeOK
    <3>2. c \in Coins
      OBVIOUS
    <3> QED BY <1>4, <3>1, <3>2, OwedChanges
  <2>3. /\ snap[c] \in Int /\ tracked[c] \in Int /\ ledger[c] \in Int
        /\ Delta(tracked, snap, c) = snap[c] - tracked[c]
    <3>1. snap[c] \in Sizes /\ tracked[c] \in Sizes /\ ledger[c] \in Int
      BY <1>1, <1>6 DEF TypeOK, Positions
    <3> QED BY <3>1 DEF Sizes, Delta
  <2>4. CASE known
    <3>1. tracked[c] = ledger[c] + Owed(c)
      BY <2>4 DEF LedgerInv, LedgerBalances
    <3>2. ledger'[c] = IF c \in todo \ first THEN ledger[c]
                       ELSE ledger[c] + Delta(tracked, snap, c)
      BY <1>2, <2>4
    <3> QED BY <1>2, <2>1, <2>2, <2>3, <3>1, <3>2
  <2>5. CASE ~known
    <3>1. \A q \in Readers : Owing(reader[q], c) = 0
      BY <2>5 DEF LedgerInv, Owing
    <3>2. Owed(c) = 0
      BY <3>1, TotalOfNothing DEF Owed
    <3>3. Owing(reader'[r], c) = 0
      BY <1>3, <2>1, <2>5
    <3>4. Owing(reader[r], c) = 0
      BY <2>1
    <3>5. Owed(c)' = 0
      BY <2>2, <3>2, <3>3, <3>4
    <3>6. tracked'[c] = snap[c] /\ ledger'[c] = snap[c]
      BY <1>2, <2>5
    <3> QED BY <2>3, <3>5, <3>6
  <2> QED BY <2>4, <2>5
<1> QED BY <1>2, <1>6 DEF LedgerInv, LedgerBalances

LEMMA LedgerReport ==
  ASSUME TypeOK, TypeOK', LedgerInv, NEW r \in Readers, Report(r)
  PROVE  LedgerInv'
<1> DEFINE now == reader[r]
           d   == First(now.todo)
<1>1. /\ now.prev \in Positions /\ now.snap \in Positions
      /\ now.todo \in SUBSET Coins /\ now.todo # {} /\ now.current \in BOOLEAN
  BY DEF TypeOK, Reader, Report
<1>2. d \in now.todo /\ d \in Coins
  BY <1>1, FirstIsOne
<1>3. /\ known' = known /\ tracked' = tracked
      /\ ledger' = IF now.current
                   THEN [ledger EXCEPT ![d] = @ + Delta(now.prev, now.snap, d)]
                   ELSE ledger
      /\ reader' = [reader EXCEPT ![r] =
                      Rest(now.prev, now.snap, now.todo \ {d}, now.current)]
  BY DEF Report, wallet
<1> HIDE DEF now, d
<1>4. \A q \in Readers : q # r => reader'[q] = reader[q]
  BY <1>3 DEF TypeOK
<1>5. reader'[r] = Rest(now.prev, now.snap, now.todo \ {d}, now.current)
  BY <1>3 DEF TypeOK
<1>6. ASSUME NEW c \in Coins, known PROVE tracked'[c] = ledger'[c] + Owed(c)'
  <2>1. Owing(reader[r], c)
          = IF now.current /\ c \in now.todo THEN Delta(now.prev, now.snap, c) ELSE 0
    BY DEF Owing, now
  <2>2. Owing(reader'[r], c)
          = IF now.current /\ c \in now.todo \ {d} THEN Delta(now.prev, now.snap, c) ELSE 0
    BY <1>5 DEF Owing, Rest, Idle
  <2>3. Owed(c) \in Int /\ Owed(c)' = Owed(c) + Owing(reader'[r], c) - Owing(reader[r], c)
    <3>1. reader' \in [Readers -> Reader]
      BY DEF TypeOK
    <3>2. c \in Coins
      OBVIOUS
    <3> QED BY <1>4, <3>1, <3>2, OwedChanges
  <2>4. Delta(now.prev, now.snap, c) \in Int /\ tracked[c] \in Int /\ ledger[c] \in Int
    <3>1. tracked[c] \in Sizes /\ ledger[c] \in Int
      BY <1>6 DEF TypeOK, Positions
    <3> QED BY <1>1, <1>6, <3>1, DeltaFits DEF Sizes
  <2>5. tracked[c] = ledger[c] + Owed(c)
    BY <1>6 DEF LedgerInv, LedgerBalances
  <2>6. ledger'[c] = IF now.current /\ c = d THEN ledger[c] + Delta(now.prev, now.snap, c)
                     ELSE ledger[c]
    BY <1>2, <1>3, <1>6 DEF TypeOK
  <2>7. CASE now.current /\ c = d
    BY <1>2, <1>3, <2>1, <2>2, <2>3, <2>4, <2>5, <2>6, <2>7
  <2>8. CASE ~(now.current /\ c = d)
    <3>1. Owing(reader'[r], c) = Owing(reader[r], c)
      BY <2>1, <2>2, <2>8
    <3>2. Owing(reader[r], c) \in Int
      BY <2>1, <2>4
    <3> QED BY <1>3, <2>3, <2>4, <2>5, <2>6, <2>8, <3>1, <3>2
  <2> QED BY <2>7, <2>8
<1>7. LedgerBalances'
  BY <1>3, <1>6 DEF LedgerBalances
<1>8. ASSUME ~known, NEW q \in Readers, reader'[q].current PROVE reader'[q].todo = {}
  <2>1. ~now.current
    BY <1>1, <1>8 DEF LedgerInv, now
  <2>2. CASE q = r
    BY <1>5, <1>8, <2>1, <2>2 DEF Rest, Idle
  <2>3. CASE q # r
    BY <1>4, <1>8, <2>3 DEF LedgerInv
  <2> QED BY <2>2, <2>3
<1> QED BY <1>3, <1>7, <1>8 DEF LedgerInv

LEMMA LedgerForget == TypeOK /\ Forget => LedgerInv'
<1> SUFFICES ASSUME TypeOK, Forget PROVE LedgerInv'
  OBVIOUS
<1>1. ~known' /\ \A r \in Readers : ~reader'[r].current
  BY DEF Forget, TypeOK, Reader
<1> QED BY <1>1 DEF LedgerInv, LedgerBalances

LEMMA LedgerRestart == Restart => LedgerInv'
BY DEF Restart, Idle, LedgerInv, LedgerBalances

LEMMA LedgerStep == TypeOK /\ LedgerInv /\ [Next]_vars => LedgerInv'
<1> SUFFICES ASSUME TypeOK, LedgerInv, [Next]_vars PROVE LedgerInv'
  OBVIOUS
<1>0. TypeOK'
  BY TypeStep
<1>1. ASSUME UNCHANGED <<known, tracked, reader, ledger>> PROVE LedgerInv'
  BY <1>1 DEF LedgerInv, LedgerBalances, Owed, Owing, Total, Units
<1>2. CASE (\E c \in Coins : Move(c)) \/ Toggle \/ UNCHANGED vars
  BY <1>1, <1>2 DEF Move, Toggle, vars, wallet, history
<1>3. CASE \E r \in Readers : Poll(r) \/ Ingest(r)
  BY <1>0, <1>3, LedgerPoll, LedgerApply, LedgerReport DEF Ingest
<1>4. CASE Forget \/ Restart
  BY <1>4, LedgerForget, LedgerRestart
<1> QED BY <1>2, <1>3, <1>4 DEF Next

\* However the snapshots of any number of readers overtake each other, the
\* baseline and the changes told, passed over and still to be told add up to
\* the position that is tracked.
THEOREM Balanced == Spec => []LedgerBalances
<1>1. LedgerInv => LedgerBalances
  BY DEF LedgerInv
<1> QED BY TypeInit, TypeStep, LedgerInit, LedgerStep, <1>1, PTL DEF Spec
=============================================================================
