------------------------- MODULE RateLimiterProofs -------------------------
(***************************************************************************)
(* Proofs about RateLimiter, for every set of callers and requests, every  *)
(* budget, window and timeout: no window is overspent and no budget        *)
(* withheld, the books implement SlidingWindow, and nobody waits beyond    *)
(* its timeout.                                                            *)
(*                                                                         *)
(* The books are sums over a sequence.  What the lemmas say about sums for *)
(* every length is proved from the least length that fails it.             *)
(***************************************************************************)
EXTENDS RateLimiter, FiniteSetTheorems, SequenceTheorems, WellFoundedInduction, TLAPS

Event == [age : 0 .. Window, weight : Nat]

-----------------------------------------------------------------------------
(* Sums.                                                                   *)

\* A set of naturals that is not empty has a least element.
LEMMA LeastOf ==
  ASSUME NEW S \in SUBSET Nat, S # {}
  PROVE  \E n \in S : \A k \in Nat : k < n => k \notin S
<1>1. PICK n \in S : \A k \in S : ~(<<k, n>> \in OpToRel(<, Nat))
  BY NatLessThanWellFounded, WFMin
<1> QED BY <1>1 DEF OpToRel

\* g holds the sums of the first n events of s.
AreSums(g, s, n) ==
  /\ g \in [0 .. n -> Nat]
  /\ g[0] = 0
  /\ \A i \in 1 .. n : g[i] = g[i - 1] + s[i].weight

LEMMA SumsExist ==
  ASSUME NEW s \in Seq(Event) PROVE \E g : AreSums(g, s, Len(s))
<1> SUFFICES ASSUME ~ \E g : AreSums(g, s, Len(s)) PROVE FALSE
  OBVIOUS
<1> DEFINE Bad == {n \in 0 .. Len(s) : ~ \E g : AreSums(g, s, n)}
<1>1. Len(s) \in Nat /\ s \in [1 .. Len(s) -> Event]
  OBVIOUS
<1>2. Bad \in SUBSET Nat /\ Len(s) \in Bad
  BY <1>1
<1>3. PICK n \in Bad : \A k \in Nat : k < n => k \notin Bad
  <2> HIDE DEF Bad
  <2> QED BY <1>2, LeastOf
<1>4. n # 0
  <2>1. AreSums([i \in 0 .. 0 |-> 0], s, 0)
    BY DEF AreSums
  <2> QED BY <2>1, <1>3
<1>5. n - 1 \in Nat /\ n \in 1 .. Len(s) /\ n - 1 \notin Bad
  BY <1>1, <1>3, <1>4
<1>6. PICK g : AreSums(g, s, n - 1)
  BY <1>1, <1>5
<1>7. s[n].weight \in Nat
  BY <1>1, <1>5 DEF Event
<1> DEFINE h == [i \in 0 .. n |-> IF i < n THEN g[i] ELSE g[n - 1] + s[n].weight]
<1>8. h \in [0 .. n -> Nat]
  <2>1. \A i \in 0 .. n : h[i] \in Nat
    BY <1>5, <1>6, <1>7 DEF AreSums
  <2> QED BY <2>1
<1>9. \A i \in 1 .. n : h[i] = h[i - 1] + s[i].weight
  BY <1>5, <1>6 DEF AreSums
<1>10. h[0] = 0
  BY <1>5, <1>6 DEF AreSums
<1>11. AreSums(h, s, n)
  <2> HIDE DEF h
  <2> QED BY <1>8, <1>9, <1>10 DEF AreSums
<1> QED BY <1>3, <1>11

LEMMA SumsAreSums ==
  ASSUME NEW s \in Seq(Event) PROVE AreSums(Sums(s), s, Len(s))
<1> DEFINE Sum(f) == [i \in 0 .. Len(s) |-> IF i = 0 THEN 0 ELSE f[i - 1] + s[i].weight]
<1>0. Len(s) \in Nat
  OBVIOUS
<1>1. PICK g : AreSums(g, s, Len(s))
  BY SumsExist
<1>2. g = Sum(g)
  <2>1. \A i \in 0 .. Len(s) : g[i] = Sum(g)[i]
    BY <1>0, <1>1 DEF AreSums
  <2> QED BY <2>1, <1>1 DEF AreSums
<1>3. Sums(s) = CHOOSE f : f = Sum(f)
  BY DEF Sums
<1>4. Sums(s) = Sum(Sums(s))
  <2> HIDE DEF Sum
  <2> QED BY <1>2, <1>3
<1>5. \A i \in 0 .. Len(s) : Sums(s)[i] = g[i]
  <2> SUFFICES ASSUME NEW i \in 0 .. Len(s), Sums(s)[i] # g[i] PROVE FALSE
    OBVIOUS
  <2> DEFINE Bad == {n \in 0 .. Len(s) : Sums(s)[n] # g[n]}
  <2>1. Bad \in SUBSET Nat /\ Bad # {}
    BY <1>0
  <2>2. PICK n \in Bad : \A k \in Nat : k < n => k \notin Bad
    <3> HIDE DEF Bad
    <3> QED BY <2>1, LeastOf
  <2>3. n # 0
    BY <1>0, <1>1, <1>4, <2>2 DEF AreSums
  <2>4. n \in 1 .. Len(s) /\ Sums(s)[n - 1] = g[n - 1]
    BY <1>0, <2>2, <2>3
  <2>5. Sums(s)[n] = Sums(s)[n - 1] + s[n].weight
    BY <1>0, <1>4, <2>4
  <2> QED BY <1>1, <2>2, <2>4, <2>5 DEF AreSums
<1>6. Sums(s) = [i \in 0 .. Len(s) |-> Sums(s)[i]]
  BY <1>4
<1>7. Sums(s) = g
  BY <1>1, <1>5, <1>6 DEF AreSums
<1> QED BY <1>1, <1>7

LEMMA SumsFit ==
  ASSUME NEW s \in Seq(Event)
  PROVE  /\ Len(s) \in Nat
         /\ Sums(s)[0] = 0
         /\ \A i \in 0 .. Len(s) : Sums(s)[i] \in Nat
         /\ \A i \in 1 .. Len(s) : Sums(s)[i] = Sums(s)[i - 1] + s[i].weight
         /\ Total(s) \in Nat
<1>1. AreSums(Sums(s), s, Len(s)) /\ Len(s) \in Nat
  BY SumsAreSums
<1>2. \A i \in 0 .. Len(s) : Sums(s)[i] \in Nat
  BY <1>1 DEF AreSums
<1>3. Len(s) \in 0 .. Len(s)
  BY <1>1
<1> QED BY <1>1, <1>2, <1>3 DEF AreSums, Total

\* The sums of two sequences that agree from some place of one on.
LEMMA SumsAlike ==
  ASSUME NEW s \in Seq(Event), NEW t \in Seq(Event), NEW k \in Nat, NEW n \in Nat,
         n <= Len(t), k + n <= Len(s),
         \A i \in 1 .. n : t[i].weight = s[k + i].weight
  PROVE  Sums(t)[n] = Sums(s)[k + n] - Sums(s)[k]
<1> SUFFICES ASSUME Sums(t)[n] # Sums(s)[k + n] - Sums(s)[k] PROVE FALSE
  OBVIOUS
<1> DEFINE Bad == {i \in 0 .. n : Sums(t)[i] # Sums(s)[k + i] - Sums(s)[k]}
<1>1. Bad \in SUBSET Nat /\ Bad # {}
  OBVIOUS
<1>2. PICK i \in Bad : \A j \in Nat : j < i => j \notin Bad
  <2> HIDE DEF Bad
  <2> QED BY <1>1, LeastOf
<1>3. i # 0
  <2>1. Sums(t)[0] = 0 /\ Sums(s)[k] \in Nat
    <3>1. k \in 0 .. Len(s)
      BY SumsFit
    <3> QED BY <3>1, SumsFit
  <2>2. Sums(t)[0] = Sums(s)[k + 0] - Sums(s)[k]
    BY <2>1
  <2> QED BY <2>2, <1>2
<1>4. i \in 1 .. n /\ i - 1 \in Nat /\ i - 1 \notin Bad
  BY <1>2, <1>3
<1>5. Sums(t)[i - 1] = Sums(s)[k + (i - 1)] - Sums(s)[k]
  BY <1>4
<1>6. Sums(t)[i] = Sums(t)[i - 1] + t[i].weight
  BY <1>4, SumsFit
<1>7. Sums(s)[k + i] = Sums(s)[k + i - 1] + s[k + i].weight
  <2>1. k + i \in 1 .. Len(s)
    BY <1>4, SumsFit
  <2> QED BY <2>1, SumsFit
<1>8. t[i].weight = s[k + i].weight
  BY <1>4
<1>9. /\ Sums(s)[k + i - 1] \in Nat /\ Sums(s)[k] \in Nat
      /\ s[k + i].weight \in Nat
  <2>1. /\ k + i - 1 \in 0 .. Len(s) /\ k \in 0 .. Len(s) /\ k + i \in 1 .. Len(s)
    BY <1>4, SumsFit
  <2>2. s[k + i] \in Event
    BY <2>1
  <2> QED BY <2>1, <2>2, SumsFit DEF Event
<1>10. k + (i - 1) = k + i - 1
  BY <1>4
<1>11. ASSUME NEW a, NEW b, NEW c \in Nat, NEW d \in Nat, NEW e \in Nat,
              NEW f, b = c - d, a = b + e, f = c + e
       PROVE  a = f - d
  BY <1>11
<1>12. Sums(t)[i] = Sums(s)[k + i] - Sums(s)[k]
  <2> HIDE DEF Bad
  <2>1. Sums(t)[i - 1] = Sums(s)[k + i - 1] - Sums(s)[k]
    BY <1>5, <1>10
  <2>2. Sums(t)[i] = Sums(t)[i - 1] + s[k + i].weight
    BY <1>6, <1>8
  <2> QED BY <2>1, <2>2, <1>7, <1>9, <1>11
<1> QED BY <1>2, <1>12

LEMMA TotalOfSuffix ==
  ASSUME NEW s \in Seq(Event), NEW k \in 0 .. Len(s)
  PROVE  /\ SubSeq(s, k + 1, Len(s)) \in Seq(Event)
         /\ Total(SubSeq(s, k + 1, Len(s))) = Total(s) - Sums(s)[k]
         /\ Total(SubSeq(s, k + 1, Len(s))) <= Total(s)
<1> DEFINE t == SubSeq(s, k + 1, Len(s))
<1>0. Len(s) \in Nat
  BY SumsFit
<1>1. t \in Seq(Event) /\ Len(t) = Len(s) - k
  BY <1>0
<1>2. \A i \in 1 .. Len(t) : t[i] = s[k + i]
  BY <1>0, <1>1
<1>3. Sums(t)[Len(t)] = Sums(s)[k + Len(t)] - Sums(s)[k]
  <2> HIDE DEF t
  <2>1. k \in Nat /\ Len(t) \in Nat /\ Len(t) <= Len(t) /\ k + Len(t) <= Len(s)
    BY <1>0, <1>1
  <2>2. \A i \in 1 .. Len(t) : t[i].weight = s[k + i].weight
    BY <1>2
  <2> QED BY <1>1, <2>1, <2>2, SumsAlike
<1>4. k + Len(t) = Len(s) /\ Sums(s)[k] \in Nat /\ Sums(s)[Len(s)] \in Nat
  <2> HIDE DEF t
  <2> QED BY <1>0, <1>1, SumsFit
<1> QED
  <2>1. Total(t) = Total(s) - Sums(s)[k]
    BY <1>3, <1>4 DEF Total
  <2> HIDE DEF t
  <2>2. Total(t) <= Total(s)
    BY <2>1, <1>4 DEF Total
  <2> USE DEF t
  <2> QED BY <1>1, <2>1, <2>2

LEMMA TotalOfAppend ==
  ASSUME NEW s \in Seq(Event), NEW e \in Event
  PROVE  Append(s, e) \in Seq(Event) /\ Total(Append(s, e)) = Total(s) + e.weight
<1> DEFINE t == Append(s, e)
<1>0. Len(s) \in Nat
  BY SumsFit
<1>1. t \in Seq(Event) /\ Len(t) = Len(s) + 1 /\ t[Len(s) + 1] = e
  BY <1>0
<1>2. \A i \in 1 .. Len(s) : t[i] = s[0 + i]
  BY <1>0
<1> HIDE DEF t
<1>3. Sums(t)[Len(s)] = Sums(s)[0 + Len(s)] - Sums(s)[0]
  <2>1. \A i \in 1 .. Len(s) : t[i].weight = s[0 + i].weight
    BY <1>2
  <2>2. 0 \in Nat /\ Len(s) <= Len(t) /\ 0 + Len(s) <= Len(s)
    BY <1>0, <1>1
  <2> QED BY <1>0, <1>1, <2>1, <2>2, SumsAlike
<1>4. Sums(t)[Len(s) + 1] = Sums(t)[Len(s)] + e.weight
  BY <1>0, <1>1, SumsFit
<1>5. Sums(s)[0] = 0 /\ Sums(s)[Len(s)] \in Nat
  BY <1>0, SumsFit
<1>6. Total(t) = Total(s) + e.weight
  BY <1>0, <1>1, <1>3, <1>4, <1>5 DEF Total
<1> QED BY <1>1, <1>6 DEF t

\* One event after a tick.
AgedOne(e) == [e EXCEPT !.age = IF @ < Window THEN @ + 1 ELSE @]

LEMMA AgedOneIs ==
  ASSUME NEW e \in Event, Window \in Nat
  PROVE  /\ AgedOne(e) \in Event
         /\ AgedOne(e).weight = e.weight
         /\ AgedOne(e).age = IF e.age < Window THEN e.age + 1 ELSE e.age
BY DEF AgedOne, Event

LEMMA TotalOfAged ==
  ASSUME NEW s \in Seq(Event), Window \in Nat
  PROVE  /\ Aged(s) \in Seq(Event) /\ Len(Aged(s)) = Len(s)
         /\ Total(Aged(s)) = Total(s)
         /\ \A i \in 1 .. Len(s) : Aged(s)[i] = AgedOne(s[i])
<1>0. Len(s) \in Nat /\ DOMAIN s = 1 .. Len(s)
  BY SumsFit
<1>1. \A i \in 1 .. Len(s) : Aged(s)[i] = AgedOne(s[i])
  BY <1>0 DEF Aged, AgedOne
<1>2. \A i \in 1 .. Len(s) : AgedOne(s[i]) \in Event /\ AgedOne(s[i]).weight = s[i].weight
  <2> SUFFICES ASSUME NEW i \in 1 .. Len(s)
               PROVE  AgedOne(s[i]) \in Event /\ AgedOne(s[i]).weight = s[i].weight
    OBVIOUS
  <2>1. s[i] \in Event
    BY <1>0
  <2> QED BY <2>1, AgedOneIs
<1>3. Aged(s) = [i \in 1 .. Len(s) |-> AgedOne(s[i])]
  BY <1>0 DEF Aged, AgedOne
<1>4. Aged(s) \in Seq(Event) /\ Len(Aged(s)) = Len(s)
  BY <1>0, <1>2, <1>3
<1>5. Sums(Aged(s))[Len(s)] = Sums(s)[0 + Len(s)] - Sums(s)[0]
  <2>1. \A i \in 1 .. Len(s) : Aged(s)[i].weight = s[0 + i].weight
    <3> SUFFICES ASSUME NEW i \in 1 .. Len(s) PROVE Aged(s)[i].weight = s[0 + i].weight
      OBVIOUS
    <3>1. 0 + i = i
      OBVIOUS
    <3> QED BY <1>1, <1>2, <3>1
  <2>2. 0 \in Nat /\ Len(s) <= Len(Aged(s)) /\ 0 + Len(s) <= Len(s)
    BY <1>0, <1>4
  <2> QED BY <1>0, <1>4, <2>1, <2>2, SumsAlike
<1>6. Sums(s)[0] = 0 /\ Sums(s)[Len(s)] \in Nat
  BY <1>0, SumsFit
<1>7. Total(Aged(s)) = Total(s)
  BY <1>0, <1>4, <1>5, <1>6 DEF Total
<1> QED BY <1>1, <1>4, <1>7

\* A set that holds all below each of its members is an interval.
LEMMA FirstOnes ==
  ASSUME NEW n \in Nat, NEW X \in SUBSET (1 .. n),
         \A i \in X : \A j \in 1 .. n : j < i => j \in X
  PROVE  Cardinality(X) \in 0 .. n /\ X = 1 .. Cardinality(X)
<1> DEFINE Out == (1 .. n + 1) \ X
<1>1. Out \in SUBSET Nat /\ n + 1 \in Out
  OBVIOUS
<1>2. PICK m \in Out : \A k \in Nat : k < m => k \notin Out
  <2> HIDE DEF Out
  <2> QED BY <1>1, LeastOf
<1>3. m \in 1 .. n + 1 /\ m \notin X
  BY <1>2
<1>4. X = 1 .. m - 1
  <2>1. \A i \in X : i \in 1 .. m - 1
    BY <1>3
  <2>2. \A i \in 1 .. m - 1 : i \in X
    BY <1>2, <1>3
  <2> QED BY <2>1, <2>2
<1>5. Cardinality(1 .. m - 1) = m - 1
  <2>1. Cardinality(1 .. m - 1) = IF 1 > m - 1 THEN 0 ELSE (m - 1) - 1 + 1
    BY <1>3, FS_Interval
  <2> QED BY <2>1, <1>3
<1> QED BY <1>3, <1>4, <1>5

-----------------------------------------------------------------------------
(* The books.  What was admitted inside the window is the end of the books,  *)
(* all before it is a window old, and _spent is the weight of the books.     *)

USE LimiterAssumption DEF LimiterAssumption

BooksInv ==
  /\ events \in Seq(Event) /\ recent \in Seq(Event)
  /\ Len(recent) <= Len(events)
  /\ \A i \in 1 .. Len(recent) :
       /\ recent[i].age < Window
       /\ recent[i] = events[Len(events) - Len(recent) + i]
  /\ \A i \in 1 .. Len(events) - Len(recent) : events[i].age = Window
  /\ \A i, j \in 1 .. Len(events) : i < j => events[i].age >= events[j].age
  /\ spent = Total(events)
  /\ Total(recent) <= Budget

LEMMA TotalOfEmpty == <<>> \in Seq(Event) /\ Len(<<>>) = 0 /\ Total(<<>>) = 0
<1>1. <<>> \in Seq(Event) /\ Len(<<>>) = 0
  OBVIOUS
<1> QED BY <1>1, SumsFit DEF Total

LEMMA BooksInit == Init => BooksInv
<1> SUFFICES ASSUME Init PROVE BooksInv
  OBVIOUS
<1> QED BY TotalOfEmpty DEF Init, BooksInv

LEMMA RecentFits ==
  ASSUME BooksInv
  PROVE  /\ \A i \in 1 .. Len(recent) : recent[i].age \in Nat /\ recent[i].age < Window
         /\ \A i, j \in 1 .. Len(recent) : i < j => recent[i].age >= recent[j].age
<1>1. Len(events) \in Nat /\ Len(recent) \in Nat /\ Len(recent) <= Len(events)
  BY SumsFit DEF BooksInv
<1>2. \A i \in 1 .. Len(recent) : recent[i].age \in Nat /\ recent[i].age < Window
  <2> SUFFICES ASSUME NEW i \in 1 .. Len(recent)
               PROVE  recent[i].age \in Nat /\ recent[i].age < Window
    OBVIOUS
  <2>1. recent[i] \in Event /\ recent[i].age < Window
    BY <1>1 DEF BooksInv
  <2> QED BY <2>1 DEF Event
<1>3. ASSUME NEW i \in 1 .. Len(recent), NEW j \in 1 .. Len(recent), i < j
      PROVE  recent[i].age >= recent[j].age
  <2> DEFINE k == Len(events) - Len(recent)
  <2>1. k + i \in 1 .. Len(events) /\ k + j \in 1 .. Len(events) /\ k + i < k + j
    BY <1>1, <1>3
  <2>2. \A a, b \in 1 .. Len(events) : a < b => events[a].age >= events[b].age
    BY DEF BooksInv
  <2>3. events[k + i].age >= events[k + j].age
    BY <2>1, <2>2
  <2> QED BY <2>3 DEF BooksInv
<1> QED BY <1>2, <1>3

\* _evict removes just what is outside the window.
LEMMA KeptIsRecent ==
  ASSUME BooksInv
  PROVE  Kept = recent /\ KeptSpent = Total(recent)
<1> DEFINE k == Len(events) - Len(recent)
<1>1. /\ Len(events) \in Nat /\ Len(recent) \in Nat /\ k \in 0 .. Len(events)
      /\ DOMAIN events = 1 .. Len(events)
  BY SumsFit DEF BooksInv
<1>2. \A i \in 1 .. Len(events) : events[i].age >= Window <=> i \in 1 .. k
  <2> SUFFICES ASSUME NEW i \in 1 .. Len(events)
               PROVE  events[i].age >= Window <=> i \in 1 .. k
    OBVIOUS
  <2>1. CASE i <= k
    BY <1>1, <2>1 DEF BooksInv
  <2>2. CASE i > k
    <3>1. i - k \in 1 .. Len(recent) /\ k + (i - k) = i
      BY <1>1, <2>2
    <3>2. recent[i - k] = events[i] /\ recent[i - k].age < Window
      BY <3>1 DEF BooksInv
    <3>3. events[i].age \in Int
      <4>1. events[i] \in Event
        BY <1>1 DEF BooksInv
      <4> QED BY <4>1 DEF Event
    <3> QED BY <1>1, <2>2, <3>2, <3>3
  <2> QED BY <1>1, <2>1, <2>2
<1>3. {i \in DOMAIN events : events[i].age >= Window} = 1 .. k
  BY <1>1, <1>2
<1>4. Expired(events) = k
  <2>1. Cardinality(1 .. k) = k
    BY <1>1, FS_Interval
  <2> QED BY <1>3, <2>1 DEF Expired
<1>5. /\ Kept \in Seq(Event) /\ Len(Kept) = Len(recent)
      /\ \A i \in 1 .. Len(recent) : Kept[i] = recent[i]
      /\ Total(Kept) = spent - Sums(events)[Expired(events)]
  <2>1. Kept = SubSeq(events, k + 1, Len(events))
    BY <1>4 DEF Kept
  <2>2. Total(Kept) = Total(events) - Sums(events)[k]
    BY <1>1, <2>1, TotalOfSuffix DEF BooksInv
  <2>3. events \in Seq(Event)
    BY DEF BooksInv
  <2>4. Kept \in Seq(Event) /\ Len(Kept) = Len(events) - k
    BY <1>1, <2>1, <2>3
  <2>5. \A i \in 1 .. Len(recent) : Kept[i] = events[k + i]
    BY <1>1, <2>1, <2>3
  <2> QED BY <1>1, <1>4, <2>2, <2>4, <2>5 DEF BooksInv
<1>6. Kept = recent
  <2>1. recent \in Seq(Event)
    BY DEF BooksInv
  <2> HIDE DEF k
  <2> QED BY <1>5, <2>1, SeqEqual
<1>7. KeptSpent = Total(recent)
  <2>1. CASE Kept = <<>>
    BY <1>6, <2>1, TotalOfEmpty DEF KeptSpent
  <2>2. CASE Kept # <<>>
    BY <1>5, <1>6, <2>2 DEF KeptSpent
  <2> QED BY <2>1, <2>2
<1> QED BY <1>6, <1>7

LEMMA EvictKeeps ==
  ASSUME BooksInv, Evict, UNCHANGED recent PROVE BooksInv'
<1>1. events' = recent /\ spent' = Total(recent) /\ recent' = recent
  BY KeptIsRecent DEF Evict
<1>2. Len(recent) \in Nat
  BY SumsFit DEF BooksInv
<1>3. \A i, j \in 1 .. Len(recent) : i < j => recent[i].age >= recent[j].age
  BY RecentFits
<1>4. recent \in Seq(Event) /\ \A i \in 1 .. Len(recent) : recent[i].age < Window
  BY DEF BooksInv
<1>5. Total(recent) <= Budget
  BY DEF BooksInv
<1>6. Len(recent) - Len(recent) = 0 /\ \A i \in 1 .. Len(recent) : Len(recent) - Len(recent) + i = i
  BY <1>2
<1> QED BY <1>1, <1>2, <1>3, <1>4, <1>5, <1>6 DEF BooksInv

LEMMA SpendKeeps ==
  ASSUME NEW weight \in Nat, BooksInv, Fits(weight), Spend(weight) PROVE BooksInv'
<1> DEFINE e == [age |-> 0, weight |-> weight]
           n == Len(recent)
<1>0. n \in Nat /\ recent \in Seq(Event) /\ e \in Event
  BY SumsFit DEF BooksInv, Event
<1>1. events' = Append(recent, e) /\ recent' = Append(recent, e)
  BY KeptIsRecent DEF Spend
<1>2. spent' = Total(recent) + weight /\ Total(recent) + weight <= Budget
  BY KeptIsRecent DEF Spend, Fits
<1>3. Append(recent, e) \in Seq(Event) /\ Total(Append(recent, e)) = Total(recent) + weight
  BY <1>0, TotalOfAppend
<1>4. Len(Append(recent, e)) = n + 1 /\ Append(recent, e)[n + 1] = e
      /\ \A i \in 1 .. n : Append(recent, e)[i] = recent[i]
  BY <1>0
<1>5. \A i, j \in 1 .. n : i < j => recent[i].age >= recent[j].age
  BY RecentFits
<1>6. \A i \in 1 .. n : recent[i].age \in Nat /\ recent[i].age < Window
  BY RecentFits
<1> DEFINE s == Append(recent, e)
<1>7. \A i \in 1 .. n + 1 : s[i].age < Window
  BY <1>0, <1>4, <1>6
<1>8. \A i, j \in 1 .. n + 1 : i < j => s[i].age >= s[j].age
  <2> SUFFICES ASSUME NEW i \in 1 .. n + 1, NEW j \in 1 .. n + 1, i < j
               PROVE  s[i].age >= s[j].age
    OBVIOUS
  <2>1. i \in 1 .. n
    BY <1>0
  <2>2. CASE j = n + 1
    BY <1>4, <1>6, <2>1, <2>2
  <2>3. CASE j # n + 1
    BY <1>0, <1>4, <1>5, <2>1, <2>3
  <2> QED BY <2>2, <2>3
<1>9. (n + 1) - (n + 1) = 0 /\ \A i \in 1 .. n + 1 : (n + 1) - (n + 1) + i = i
  BY <1>0
<1> HIDE DEF s
<1>10. /\ events' = s /\ recent' = s /\ s \in Seq(Event) /\ Len(s) = n + 1
       /\ spent' = Total(s) /\ Total(s) <= Budget
  BY <1>1, <1>2, <1>3, <1>4 DEF s
<1> QED BY <1>7, <1>8, <1>9, <1>10, <1>0 DEF BooksInv

LEMMA TickKeeps == ASSUME BooksInv, Tick PROVE BooksInv'
<1> DEFINE n == Len(recent)
           k == Len(events) - n
           m == Cardinality(Leaving(recent))
           old == Aged(recent)
<1>0. /\ n \in Nat /\ Len(events) \in Nat /\ k \in Nat /\ Window \in Nat
      /\ recent \in Seq(Event) /\ events \in Seq(Event)
      /\ DOMAIN recent = 1 .. n
  BY SumsFit DEF BooksInv
<1>1. m \in 0 .. n /\ Leaving(recent) = 1 .. m
  <2>1. Leaving(recent) \in SUBSET (1 .. n)
    BY <1>0 DEF Leaving
  <2>2. ASSUME NEW i \in Leaving(recent), NEW j \in 1 .. n, j < i
        PROVE  j \in Leaving(recent)
    <3>1. i \in 1 .. n /\ recent[i].age = Window - 1
      BY <1>0 DEF Leaving
    <3>2. /\ recent[j].age \in Nat /\ recent[j].age < Window
          /\ recent[j].age >= recent[i].age
      BY <2>2, <3>1, RecentFits
    <3>3. recent[j].age = Window - 1
      BY <1>0, <3>1, <3>2
    <3> QED BY <1>0, <3>3 DEF Leaving
  <2>3. \A i \in Leaving(recent) : \A j \in 1 .. n : j < i => j \in Leaving(recent)
    BY <2>2
  <2> HIDE DEF n
  <2> QED BY <1>0, <2>1, <2>3, FirstOnes
<1> HIDE DEF m
<1>2. events' = Aged(events) /\ recent' = SubSeq(old, m + 1, n) /\ spent' = spent
  BY DEF Tick, m
<1>3. /\ Aged(events) \in Seq(Event) /\ Len(Aged(events)) = Len(events)
      /\ Total(Aged(events)) = Total(events)
  BY <1>0, TotalOfAged
<1>4. /\ old \in Seq(Event) /\ Len(old) = n /\ Total(old) = Total(recent)
  BY <1>0, TotalOfAged
<1>11. /\ \A i \in 1 .. Len(events) : Aged(events)[i] = AgedOne(events[i])
       /\ \A i \in 1 .. n : old[i] = AgedOne(recent[i])
  BY <1>0, TotalOfAged
<1>12. ASSUME NEW i \in 1 .. Len(events)
       PROVE  /\ events[i].age \in 0 .. Window
              /\ AgedOne(events[i]).age =
                   IF events[i].age < Window THEN events[i].age + 1 ELSE events[i].age
  <2>1. events[i] \in Event
    BY <1>0
  <2>2. events[i].age \in 0 .. Window
    BY <2>1 DEF Event
  <2> QED BY <1>0, <2>1, <2>2, AgedOneIs
<1>13. ASSUME NEW i \in 1 .. n
       PROVE  AgedOne(recent[i]).age =
                IF recent[i].age < Window THEN recent[i].age + 1 ELSE recent[i].age
  <2>1. recent[i] \in Event
    BY <1>0
  <2> QED BY <1>0, <2>1, AgedOneIs
<1>5. /\ recent' \in Seq(Event) /\ Len(recent') = n - m
      /\ \A i \in 1 .. n - m : recent'[i] = old[m + i]
      /\ Total(recent') <= Budget
  <2> HIDE DEF old, n
  <2>1. recent' \in Seq(Event) /\ Total(recent') = Total(old) - Sums(old)[m]
    BY <1>0, <1>1, <1>2, <1>4, TotalOfSuffix
  <2>2. Len(recent') = n - m /\ \A i \in 1 .. n - m : recent'[i] = old[m + i]
    <3>1. Len(SubSeq(old, m + 1, n)) = n - m
      BY <1>0, <1>1, <1>4
    <3>2. \A i \in 1 .. n - m : SubSeq(old, m + 1, n)[i] = old[m + i]
      BY <1>0, <1>1, <1>4
    <3> QED BY <1>2, <3>1, <3>2
  <2>3. Total(old) \in Nat /\ Sums(old)[m] \in Nat
    BY <1>0, <1>1, <1>4, SumsFit DEF Total
  <2>4. Total(recent) <= Budget
    BY DEF BooksInv
  <2> QED BY <1>4, <2>1, <2>2, <2>3, <2>4
<1>6. ASSUME NEW i \in 1 .. n - m PROVE recent'[i].age < Window
  <2>1. m + i \in 1 .. n /\ m + i \notin 1 .. m
    BY <1>0, <1>1
  <2>2. recent[m + i].age # Window - 1
    BY <1>0, <1>1, <2>1 DEF Leaving
  <2>3. recent[m + i].age \in Nat /\ recent[m + i].age < Window
    BY <2>1, RecentFits
  <2>4. recent'[i] = AgedOne(recent[m + i])
    BY <1>5, <1>11, <2>1
  <2>5. AgedOne(recent[m + i]).age = recent[m + i].age + 1
    BY <1>13, <2>1, <2>3
  <2> QED BY <1>0, <2>2, <2>3, <2>4, <2>5
<1>7. ASSUME NEW i \in 1 .. n - m
      PROVE  recent'[i] = Aged(events)[Len(events) - (n - m) + i]
  <2>1. m + i \in 1 .. n /\ k + (m + i) \in 1 .. Len(events)
        /\ Len(events) - (n - m) + i = k + (m + i)
    BY <1>0, <1>1
  <2>2. recent[m + i] = events[k + (m + i)]
    BY <2>1 DEF BooksInv
  <2>3. recent'[i] = AgedOne(recent[m + i])
    BY <1>5, <1>11, <2>1
  <2>4. Aged(events)[k + (m + i)] = AgedOne(events[k + (m + i)])
    BY <1>11, <2>1
  <2> QED BY <2>1, <2>2, <2>3, <2>4
<1>8. ASSUME NEW i \in 1 .. Len(events) - (n - m) PROVE Aged(events)[i].age = Window
  <2>1. i \in 1 .. Len(events)
    BY <1>0, <1>1
  <2>2. Aged(events)[i].age = IF events[i].age < Window THEN events[i].age + 1 ELSE events[i].age
    BY <1>11, <1>12, <2>1
  <2>3. CASE i <= k
    <3>1. events[i].age = Window
      BY <1>0, <2>1, <2>3 DEF BooksInv
    <3> QED BY <1>0, <2>2, <3>1
  <2>4. CASE i > k
    <3>1. i - k \in 1 .. m /\ i - k \in 1 .. n /\ k + (i - k) = i
      BY <1>0, <1>1, <2>4
    <3>2. recent[i - k].age = Window - 1
      BY <1>1, <3>1 DEF Leaving
    <3>3. recent[i - k] = events[i]
      BY <3>1 DEF BooksInv
    <3> QED BY <1>0, <2>2, <3>2, <3>3
  <2> QED BY <1>0, <2>3, <2>4
<1>9. ASSUME NEW i \in 1 .. Len(events), NEW j \in 1 .. Len(events), i < j
      PROVE  Aged(events)[i].age >= Aged(events)[j].age
  <2>1. events[i].age >= events[j].age
    BY <1>9 DEF BooksInv
  <2>2. Aged(events)[i] = AgedOne(events[i]) /\ Aged(events)[j] = AgedOne(events[j])
    BY <1>11
  <2>3. /\ events[i].age \in 0 .. Window /\ events[j].age \in 0 .. Window
        /\ AgedOne(events[i]).age =
             IF events[i].age < Window THEN events[i].age + 1 ELSE events[i].age
        /\ AgedOne(events[j]).age =
             IF events[j].age < Window THEN events[j].age + 1 ELSE events[j].age
    BY <1>12
  <2> QED BY <1>0, <2>1, <2>2, <2>3
<1>10. spent' = Total(events') /\ Len(recent') <= Len(events') /\ Len(events') = Len(events)
  <2>1. spent = Total(events)
    BY DEF BooksInv
  <2>2. Len(recent') <= Len(Aged(events))
    BY <1>0, <1>1, <1>3, <1>5
  <2>3. spent' = Total(events)
    BY <1>2, <2>1
  <2> QED BY <1>2, <1>3, <2>2, <2>3
<1> DEFINE E == Aged(events)
           r == n - m
<1>14. /\ \A i \in 1 .. r : recent'[i].age < Window /\ recent'[i] = E[Len(E) - r + i]
       /\ \A i \in 1 .. Len(E) - r : E[i].age = Window
       /\ \A i, j \in 1 .. Len(E) : i < j => E[i].age >= E[j].age
  <2>1. Len(E) = Len(events) /\ Len(E) - r = Len(events) - r
    BY <1>3
  <2>2. \A i \in 1 .. r : recent'[i].age < Window
    BY <1>6
  <2>3. \A i \in 1 .. r : recent'[i] = E[Len(E) - r + i]
    <3> HIDE DEF E
    <3> QED BY <1>7, <2>1 DEF E
  <2>4. \A i \in 1 .. Len(E) - r : E[i].age = Window
    <3> HIDE DEF r
    <3> QED BY <1>8, <2>1 DEF r
  <2>5. \A i, j \in 1 .. Len(E) : i < j => E[i].age >= E[j].age
    BY <1>9, <2>1
  <2> QED BY <2>2, <2>3, <2>4, <2>5
<1>15. events' = E /\ E \in Seq(Event) /\ Len(recent') = r
  BY <1>2, <1>3, <1>5
<1> HIDE DEF E, r
<1> QED BY <1>5, <1>10, <1>14, <1>15 DEF BooksInv

-----------------------------------------------------------------------------
(* The waiters.  They stand in the queue in the order of their deadlines,    *)
(* and none sleeps beyond its own.                                           *)

Request == [at : {"idle", "waiting", "sending", "backoff"}, weight : Nat,
            left : Int, sleep : Int, attempt : Nat]

Waiting(c) == call[c].at = "waiting"

WaitInv ==
  /\ call \in [Callers -> Request]
  /\ queue \in Seq(Callers)
  /\ \A i \in 1 .. Len(queue) : Waiting(queue[i])
  /\ \A c \in Callers : Waiting(c) => \E i \in 1 .. Len(queue) : queue[i] = c
  /\ \A i, j \in 1 .. Len(queue) : i < j => /\ queue[i] # queue[j]
                                           /\ call[queue[i]].left <= call[queue[j]].left
  /\ \A c \in Callers : Waiting(c) => /\ call[c].left \in 0 .. Timeout
                                      /\ call[c].sleep <= call[c].left

LEMMA RequestOf ==
  ASSUME WaitInv, NEW c \in Callers
  PROVE  /\ call[c] \in Request
         /\ call[c].at \in {"idle", "waiting", "sending", "backoff"}
         /\ call[c].weight \in Nat /\ call[c].left \in Int /\ call[c].sleep \in Int
         /\ call[c].attempt \in Nat
<1>1. call[c] \in Request
  BY DEF WaitInv
<1> QED BY <1>1 DEF Request

LEMMA NoCallWaits == NoCall \in Request /\ NoCall.at # "waiting" /\ NoCall.left = 0
BY DEF NoCall, CallAt, Request

LEMMA WaitInit == Init => WaitInv
<1> SUFFICES ASSUME Init PROVE WaitInv
  OBVIOUS
<1>1. call = [c \in Callers |-> NoCall] /\ queue = <<>>
  BY DEF Init
<1>2. queue \in Seq(Callers) /\ Len(queue) = 0
  BY <1>1
<1> QED BY <1>1, <1>2, NoCallWaits DEF WaitInv, Waiting

\* One that is not in the queue changes its state, and does not wait.
LEMMA OthersKeep ==
  ASSUME WaitInv, NEW c \in Callers, ~Waiting(c),
         NEW v \in Request, v.at # "waiting",
         call' = [call EXCEPT ![c] = v], queue' = queue
  PROVE  WaitInv'
<1>1. call' \in [Callers -> Request] /\ call \in [Callers -> Request]
  BY DEF WaitInv
<1>2. \A d \in Callers : call'[d] = IF d = c THEN v ELSE call[d]
  BY <1>1
<1>3. \A i \in 1 .. Len(queue) : queue[i] \in Callers /\ queue[i] # c
  BY DEF WaitInv
<1>4. \A i \in 1 .. Len(queue) : call'[queue[i]] = call[queue[i]]
  BY <1>2, <1>3
<1>5. \A d \in Callers : Waiting(d)' => d # c /\ call'[d] = call[d] /\ Waiting(d)
  BY <1>2 DEF Waiting
<1>6. \A i \in 1 .. Len(queue') : Waiting(queue[i])'
  BY <1>3, <1>4 DEF WaitInv, Waiting
<1> QED BY <1>1, <1>4, <1>5, <1>6 DEF WaitInv, Waiting

\* One leaves the queue, wherever it stands, and does not wait.
LEMMA LeaverKeeps ==
  ASSUME WaitInv, NEW k \in 1 .. Len(queue), NEW c \in Callers, queue[k] = c,
         NEW v \in Request, v.at # "waiting",
         call' = [call EXCEPT ![c] = v],
         queue' \in Seq(Callers), Len(queue') = Len(queue) - 1,
         \A i \in 1 .. Len(queue) - 1 : queue'[i] = IF i < k THEN queue[i] ELSE queue[i + 1]
  PROVE  WaitInv'
<1> DEFINE n == Len(queue)
           At(i) == IF i < k THEN i ELSE i + 1
<1>0. n \in Nat /\ queue \in Seq(Callers) /\ k \in 1 .. n /\ Len(queue') = n - 1
  BY DEF WaitInv
<1>1. call' \in [Callers -> Request] /\ call \in [Callers -> Request]
  BY DEF WaitInv
<1>2. \A d \in Callers : call'[d] = IF d = c THEN v ELSE call[d]
  BY <1>1
<1>3. \A i \in 1 .. n - 1 : /\ At(i) \in 1 .. n /\ At(i) # k
                            /\ queue'[i] = queue[At(i)]
  BY <1>0
<1>4. \A i, j \in 1 .. n - 1 : i < j => At(i) < At(j)
  BY <1>0
<1>5. \A i \in 1 .. n : i # k => queue[i] \in Callers /\ queue[i] # c
  <2> SUFFICES ASSUME NEW i \in 1 .. n, i # k PROVE queue[i] \in Callers /\ queue[i] # c
    OBVIOUS
  <2>1. queue[i] \in Callers
    BY <1>0
  <2>2. i < k \/ k < i
    BY <1>0
  <2>3. queue[i] # queue[k]
    BY <1>0, <2>2 DEF WaitInv
  <2> QED BY <2>1, <2>3
<1>6. \A i \in 1 .. n : i # k => call'[queue[i]] = call[queue[i]]
  <2> SUFFICES ASSUME NEW i \in 1 .. n, i # k PROVE call'[queue[i]] = call[queue[i]]
    OBVIOUS
  <2>1. queue[i] \in Callers /\ queue[i] # c
    BY <1>5
  <2> QED BY <1>2, <2>1
<1>7. \A d \in Callers : Waiting(d)' => d # c /\ call'[d] = call[d] /\ Waiting(d)
  BY <1>2 DEF Waiting
<1>8. \A i \in 1 .. n - 1 : call'[queue'[i]].at = "waiting"
  <2> SUFFICES ASSUME NEW i \in 1 .. n - 1 PROVE call'[queue'[i]].at = "waiting"
    OBVIOUS
  <2>1. call'[queue[At(i)]] = call[queue[At(i)]] /\ Waiting(queue[At(i)])
    BY <1>3, <1>6 DEF WaitInv
  <2> HIDE DEF At
  <2> QED BY <1>3, <2>1 DEF Waiting
<1>9. ASSUME NEW d \in Callers, Waiting(d)' PROVE \E i \in 1 .. n - 1 : queue'[i] = d
  <2>1. d # c /\ Waiting(d)
    BY <1>7, <1>9
  <2>2. PICK j \in 1 .. n : queue[j] = d
    BY <2>1 DEF WaitInv
  <2>3. j # k
    BY <2>1, <2>2
  <2>4. CASE j < k
    <3>1. j \in 1 .. n - 1 /\ At(j) = j
      BY <1>0, <2>4
    <3> HIDE DEF At
    <3> QED BY <1>3, <2>2, <3>1
  <2>5. CASE j > k
    <3>1. j - 1 \in 1 .. n - 1 /\ At(j - 1) = j
      BY <1>0, <2>5
    <3> HIDE DEF At
    <3> QED BY <1>3, <2>2, <3>1
  <2> QED BY <1>0, <2>3, <2>4, <2>5
<1>10. ASSUME NEW i \in 1 .. n - 1, NEW j \in 1 .. n - 1, i < j
       PROVE  queue'[i] # queue'[j] /\ call'[queue'[i]].left <= call'[queue'[j]].left
  <2> HIDE DEF At
  <2>1. /\ At(i) \in 1 .. n /\ At(j) \in 1 .. n /\ At(i) < At(j)
        /\ At(i) # k /\ At(j) # k
        /\ queue'[i] = queue[At(i)] /\ queue'[j] = queue[At(j)]
    BY <1>3, <1>4, <1>10
  <2>2. queue[At(i)] # queue[At(j)] /\ call[queue[At(i)]].left <= call[queue[At(j)]].left
    BY <2>1 DEF WaitInv
  <2>3. /\ call'[queue[At(i)]] = call[queue[At(i)]]
        /\ call'[queue[At(j)]] = call[queue[At(j)]]
    BY <1>6, <2>1
  <2> QED BY <2>1, <2>2, <2>3
<1>11. \A d \in Callers : Waiting(d)' => /\ call'[d].left \in 0 .. Timeout
                                         /\ call'[d].sleep <= call'[d].left
  BY <1>7 DEF WaitInv
<1> HIDE DEF n
<1>12. /\ \A i \in 1 .. Len(queue') : call'[queue'[i]].at = "waiting"
       /\ \A d \in Callers : Waiting(d)' => \E i \in 1 .. Len(queue') : queue'[i] = d
       /\ \A i, j \in 1 .. Len(queue') :
            i < j => queue'[i] # queue'[j] /\ call'[queue'[i]].left <= call'[queue'[j]].left
  BY <1>0, <1>8, <1>9, <1>10
<1> QED BY <1>1, <1>11, <1>12 DEF WaitInv, Waiting

\* The holder of the lock is served or gives up.
LEMMA HeadKeeps ==
  ASSUME WaitInv, NEW c \in Callers, Due(c), NEW v \in Request, v.at # "waiting",
         call' = [call EXCEPT ![c] = v], queue' = Tail(queue)
  PROVE  WaitInv'
<1>1. queue \in Seq(Callers) /\ queue # <<>> /\ Head(queue) = c
  BY DEF WaitInv, Due
<1>2. Len(queue) \in Nat /\ Len(queue) >= 1 /\ 1 \in 1 .. Len(queue) /\ queue[1] = c
  BY <1>1
<1>3. queue' \in Seq(Callers) /\ Len(queue') = Len(queue) - 1
  BY <1>1
<1>4. \A i \in 1 .. Len(queue) - 1 : queue'[i] = IF i < 1 THEN queue[i] ELSE queue[i + 1]
  <2> SUFFICES ASSUME NEW i \in 1 .. Len(queue) - 1 PROVE queue'[i] = queue[i + 1] /\ ~(i < 1)
    OBVIOUS
  <2>1. Tail(queue)[i] = queue[i + 1]
    BY <1>1, <1>2
  <2> QED BY <1>2, <2>1
<1> QED BY <1>2, <1>3, <1>4, LeaverKeeps

LEMMA AcquireKeepsWait ==
  ASSUME WaitInv, NEW c \in Callers, NEW weight \in Nat, Acquire(c, weight)
  PROVE  WaitInv'
<1> DEFINE n == Len(queue)
           v == CallAt("waiting", weight, Timeout, 0)
<1>0. n \in Nat /\ queue \in Seq(Callers) /\ call \in [Callers -> Request]
  BY DEF WaitInv
<1>1. v \in Request /\ v.at = "waiting" /\ v.left = Timeout /\ v.sleep = 0
  <2>1. Timeout \in Int
    BY LimiterAssumption DEF LimiterAssumption
  <2> QED BY <2>1 DEF CallAt, Request
<1>2. ~Waiting(c)
  BY NoCallWaits DEF Acquire, Waiting
<1>3. call' = [call EXCEPT ![c] = v] /\ queue' = Append(queue, c)
  BY DEF Acquire
<1> HIDE DEF v
<1>4. call' \in [Callers -> Request] /\ \A d \in Callers : call'[d] = IF d = c THEN v ELSE call[d]
  BY <1>0, <1>1, <1>3
<1>5. /\ queue' \in Seq(Callers) /\ Len(queue') = n + 1
      /\ queue'[n + 1] = c /\ \A i \in 1 .. n : queue'[i] = queue[i]
  BY <1>0, <1>3
<1>6. \A i \in 1 .. n : /\ queue[i] \in Callers /\ Waiting(queue[i]) /\ queue[i] # c
                        /\ call'[queue[i]] = call[queue[i]]
                        /\ call[queue[i]].left \in 0 .. Timeout
  <2> SUFFICES ASSUME NEW i \in 1 .. n
               PROVE  /\ queue[i] \in Callers /\ Waiting(queue[i]) /\ queue[i] # c
                      /\ call'[queue[i]] = call[queue[i]]
                      /\ call[queue[i]].left \in 0 .. Timeout
    OBVIOUS
  <2>1. queue[i] \in Callers /\ Waiting(queue[i])
    BY <1>0 DEF WaitInv
  <2>2. queue[i] # c
    BY <1>2, <2>1
  <2>3. call[queue[i]].left \in 0 .. Timeout
    BY <2>1 DEF WaitInv
  <2> QED BY <1>4, <2>1, <2>2, <2>3
<1>7. \A i \in 1 .. n + 1 : call'[queue'[i]].at = "waiting"
  <2> SUFFICES ASSUME NEW i \in 1 .. n + 1 PROVE call'[queue'[i]].at = "waiting"
    OBVIOUS
  <2>1. CASE i = n + 1
    BY <1>1, <1>4, <1>5, <2>1
  <2>2. CASE i # n + 1
    <3>1. i \in 1 .. n
      BY <1>0, <2>2
    <3> QED BY <1>5, <1>6, <3>1 DEF Waiting
  <2> QED BY <2>1, <2>2
<1>8. ASSUME NEW d \in Callers, call'[d].at = "waiting"
      PROVE  \E i \in 1 .. n + 1 : queue'[i] = d
  <2>1. CASE d = c
    <3>1. n + 1 \in 1 .. n + 1
      BY <1>0
    <3> QED BY <1>5, <2>1, <3>1
  <2>2. CASE d # c
    <3>1. Waiting(d)
      BY <1>4, <1>8, <2>2 DEF Waiting
    <3>2. PICK i \in 1 .. n : queue[i] = d
      BY <3>1 DEF WaitInv
    <3>3. i \in 1 .. n + 1
      BY <1>0
    <3> QED BY <1>5, <3>2, <3>3
  <2> QED BY <2>1, <2>2
<1>9. ASSUME NEW i \in 1 .. n + 1, NEW j \in 1 .. n + 1, i < j
      PROVE  queue'[i] # queue'[j] /\ call'[queue'[i]].left <= call'[queue'[j]].left
  <2>1. i \in 1 .. n
    BY <1>0, <1>9
  <2>2. CASE j = n + 1
    <3>1. queue'[i] = queue[i] /\ queue'[j] = c
      BY <1>5, <2>1, <2>2
    <3>2. queue[i] # c /\ call'[queue[i]].left \in 0 .. Timeout
      BY <1>6, <2>1
    <3>3. call'[c].left = Timeout
      BY <1>1, <1>4
    <3> QED BY <3>1, <3>2, <3>3
  <2>3. CASE j # n + 1
    <3>1. j \in 1 .. n
      BY <1>0, <2>3
    <3>2. queue[i] # queue[j] /\ call[queue[i]].left <= call[queue[j]].left
      BY <1>9, <2>1, <3>1 DEF WaitInv
    <3>3. queue'[i] = queue[i] /\ queue'[j] = queue[j]
      BY <1>5, <2>1, <3>1
    <3>4. call'[queue[i]] = call[queue[i]] /\ call'[queue[j]] = call[queue[j]]
      BY <1>6, <2>1, <3>1
    <3> QED BY <3>2, <3>3, <3>4
  <2> QED BY <2>2, <2>3
<1>10. ASSUME NEW d \in Callers, call'[d].at = "waiting"
       PROVE  call'[d].left \in 0 .. Timeout /\ call'[d].sleep <= call'[d].left
  <2>1. CASE d = c
    BY <1>1, <1>4, <2>1
  <2>2. CASE d # c
    <3>1. call'[d] = call[d]
      BY <1>4, <2>2
    <3>2. Waiting(d)
      BY <1>10, <3>1 DEF Waiting
    <3> QED BY <3>1, <3>2 DEF WaitInv
  <2> QED BY <2>1, <2>2
<1>11. /\ \A i \in 1 .. Len(queue') : call'[queue'[i]].at = "waiting"
       /\ \A d \in Callers : call'[d].at = "waiting" => \E i \in 1 .. Len(queue') : queue'[i] = d
       /\ \A i, j \in 1 .. Len(queue') :
            i < j => queue'[i] # queue'[j] /\ call'[queue'[i]].left <= call'[queue'[j]].left
  <2> HIDE DEF n
  <2> QED BY <1>5, <1>7, <1>8, <1>9
<1> QED BY <1>4, <1>5, <1>10, <1>11 DEF WaitInv, Waiting

\* Nobody moves in the queue, and the one that holds the lock sleeps no longer
\* than it may.
LEMMA PauseKeeps ==
  ASSUME BooksInv, WaitInv, NEW c \in Callers, Waiting(c),
         call' = [call EXCEPT ![c].sleep = Pause(c)], queue' = queue
  PROVE  WaitInv'
<1> DEFINE oldest == IF Kept = <<>> THEN 1 ELSE Window - Kept[1].age
<1>1. oldest \in Int
  <2>1. Kept = recent /\ recent \in Seq(Event)
    BY KeptIsRecent DEF BooksInv
  <2>2. CASE Kept # <<>>
    <3>1. Kept[1] \in Event
      BY <2>1, <2>2
    <3>2. Kept[1].age \in Int
      BY <3>1 DEF Event
    <3> QED BY <2>2, <3>2
  <2> QED BY <2>2
<1>2. call[c].left \in Int
  BY RequestOf
<1>3. Pause(c) \in Int /\ Pause(c) <= call[c].left
  <2>1. Pause(c) = IF oldest < call[c].left THEN oldest ELSE call[c].left
    BY DEF Pause
  <2> HIDE DEF oldest
  <2> QED BY <1>1, <1>2, <2>1
<1> DEFINE v == [call[c] EXCEPT !.sleep = Pause(c)]
<1>4. call \in [Callers -> Request]
  BY DEF WaitInv
<1>5. v \in Request /\ v.at = call[c].at /\ v.left = call[c].left /\ v.sleep = Pause(c)
  <2>1. call[c] \in Request
    BY <1>4
  <2> QED BY <1>3, <2>1 DEF Request
<1>6. call' = [call EXCEPT ![c] = v]
  BY <1>4
<1> HIDE DEF v
<1>7. call' \in [Callers -> Request] /\ \A d \in Callers : call'[d] = IF d = c THEN v ELSE call[d]
  BY <1>4, <1>5, <1>6
<1>8. \A d \in Callers : call'[d].at = call[d].at /\ call'[d].left = call[d].left
  BY <1>5, <1>7
<1>9. \A i \in 1 .. Len(queue) : queue[i] \in Callers
  BY DEF WaitInv
<1>10. /\ \A i \in 1 .. Len(queue) : call'[queue[i]].at = "waiting"
       /\ \A i, j \in 1 .. Len(queue) :
            i < j => queue[i] # queue[j] /\ call'[queue[i]].left <= call'[queue[j]].left
  BY <1>8, <1>9 DEF WaitInv, Waiting
<1>11. ASSUME NEW d \in Callers, call'[d].at = "waiting"
       PROVE  call'[d].left \in 0 .. Timeout /\ call'[d].sleep <= call'[d].left
  <2>1. Waiting(d)
    BY <1>8, <1>11 DEF Waiting
  <2>2. CASE d = c
    BY <1>3, <1>5, <1>7, <2>1, <2>2 DEF WaitInv
  <2>3. CASE d # c
    BY <1>7, <2>1, <2>3 DEF WaitInv
  <2> QED BY <2>2, <2>3
<1> QED BY <1>7, <1>8, <1>10, <1>11 DEF WaitInv, Waiting

LEMMA TickKeepsWait == ASSUME WaitInv, Tick PROVE WaitInv'
<1>0. /\ call \in [Callers -> Request] /\ queue' = queue
      /\ queue \in Seq(Callers) /\ Len(queue) \in Nat
  <2>1. queue \in Seq(Callers)
    BY DEF WaitInv
  <2>2. call \in [Callers -> Request]
    BY DEF WaitInv
  <2>3. queue' = queue
    BY DEF Tick
  <2> QED BY <2>1, <2>2, <2>3
<1>1. \A c \in Callers :
        /\ call'[c] \in Request
        /\ call'[c].at = call[c].at
        /\ call'[c].sleep = Older(call[c].sleep)
        /\ call'[c].left = IF Waiting(c) /\ call[c].left >= 0
                           THEN call[c].left - 1 ELSE call[c].left
  <2> SUFFICES ASSUME NEW c \in Callers
               PROVE  /\ call'[c] \in Request
                      /\ call'[c].at = call[c].at
                      /\ call'[c].sleep = Older(call[c].sleep)
                      /\ call'[c].left = IF Waiting(c) /\ call[c].left >= 0
                                         THEN call[c].left - 1 ELSE call[c].left
    OBVIOUS
  <2>1. call'[c] = [call[c] EXCEPT !.sleep = Older(@),
                                   !.left = IF call[c].at = "waiting" /\ @ >= 0
                                            THEN @ - 1 ELSE @]
    BY DEF Tick
  <2> DEFINE v == [call[c] EXCEPT !.sleep = Older(@)]
  <2>2. call[c] \in Request
    BY <1>0
  <2>3. /\ v \in Request /\ v.at = call[c].at /\ v.left = call[c].left
        /\ v.sleep = Older(call[c].sleep)
    BY <2>2 DEF Request, Older
  <2>4. call'[c] = [v EXCEPT !.left = IF call[c].at = "waiting" /\ call[c].left >= 0
                                      THEN call[c].left - 1 ELSE call[c].left]
    BY <2>1, <2>2 DEF Request
  <2>5. call[c].left \in Int
    BY <2>2 DEF Request
  <2> HIDE DEF v
  <2> QED BY <2>3, <2>4, <2>5 DEF Request, Waiting
<1>2. call' \in [Callers -> Request]
  <2>1. DOMAIN call' = Callers /\ call' = [c \in Callers |-> call'[c]]
    BY DEF Tick
  <2> QED BY <1>1, <2>1
\* Nobody is due, so the holder of the lock sleeps, and has time left.
<1>3. ASSUME NEW c \in Callers, Waiting(c) PROVE call[c].left \in 1 .. Timeout
  <2>1. PICK i \in 1 .. Len(queue) : queue[i] = c
    BY <1>3 DEF WaitInv
  <2>2. 1 \in 1 .. Len(queue) /\ queue # <<>> /\ Head(queue) = queue[1] /\ queue[1] \in Callers
    BY <1>0
  <2>3. call[queue[1]].sleep \in Int /\ call[queue[1]].left \in Int
    BY <2>2, RequestOf
  <2>4. call[queue[1]].sleep > 0
    <3>1. ~Due(queue[1])
      BY <2>2 DEF Tick
    <3> QED BY <2>2, <2>3, <3>1 DEF Due
  <2>5. call[queue[1]].left >= 1
    <3>1. Waiting(queue[1])
      BY <2>2 DEF WaitInv
    <3>2. call[queue[1]].sleep <= call[queue[1]].left
      BY <2>2, <3>1 DEF WaitInv
    <3> QED BY <2>3, <2>4, <3>2
  <2>6. call[queue[1]].left <= call[c].left
    <3>1. CASE i = 1
      BY <2>1, <2>3, <3>1
    <3>2. CASE i # 1
      <4>1. 1 < i
        BY <1>0, <3>2
      <4> QED BY <2>1, <2>2, <4>1 DEF WaitInv
    <3> QED BY <3>1, <3>2
  <2>7. call[c].left \in 0 .. Timeout
    BY <1>3 DEF WaitInv
  <2> QED BY <2>3, <2>5, <2>6, <2>7
<1>4. ASSUME NEW c \in Callers, Waiting(c)
      PROVE  /\ call'[c].left = call[c].left - 1
             /\ call'[c].left \in 0 .. Timeout /\ call'[c].sleep <= call'[c].left
  <2>1. call'[c].left = call[c].left - 1
    BY <1>1, <1>3, <1>4
  <2>2. call[c].sleep <= call[c].left /\ call[c].sleep \in Int
    BY <1>4, RequestOf DEF WaitInv
  <2>3. call'[c].sleep = Older(call[c].sleep)
    BY <1>1
  <2> QED BY <1>3, <1>4, <2>1, <2>2, <2>3 DEF Older
<1>5. \A i \in 1 .. Len(queue) : queue[i] \in Callers /\ Waiting(queue[i])
  BY <1>0 DEF WaitInv
<1>6. \A i \in 1 .. Len(queue) : call'[queue[i]].at = "waiting"
  BY <1>1, <1>5 DEF Waiting
<1>7. ASSUME NEW i \in 1 .. Len(queue), NEW j \in 1 .. Len(queue), i < j
      PROVE  queue[i] # queue[j] /\ call'[queue[i]].left <= call'[queue[j]].left
  <2>1. queue[i] # queue[j] /\ call[queue[i]].left <= call[queue[j]].left
    BY <1>7 DEF WaitInv
  <2>2. /\ call'[queue[i]].left = call[queue[i]].left - 1
        /\ call'[queue[j]].left = call[queue[j]].left - 1
        /\ call[queue[i]].left \in Int /\ call[queue[j]].left \in Int
    BY <1>4, <1>5, RequestOf
  <2> QED BY <2>1, <2>2
<1>8. \A c \in Callers : call'[c].at = "waiting" =>
        /\ \E i \in 1 .. Len(queue) : queue[i] = c
        /\ call'[c].left \in 0 .. Timeout /\ call'[c].sleep <= call'[c].left
  <2> SUFFICES ASSUME NEW c \in Callers, call'[c].at = "waiting"
               PROVE  /\ \E i \in 1 .. Len(queue) : queue[i] = c
                      /\ call'[c].left \in 0 .. Timeout /\ call'[c].sleep <= call'[c].left
    OBVIOUS
  <2>1. Waiting(c)
    BY <1>1 DEF Waiting
  <2> QED BY <1>4, <2>1 DEF WaitInv
<1> QED BY <1>0, <1>2, <1>6, <1>7, <1>8 DEF WaitInv, Waiting

-----------------------------------------------------------------------------
(* The steps.                                                               *)

\* A step that leaves the books alone.
LEMMA BooksAlone == ASSUME BooksInv, UNCHANGED <<books, recent>> PROVE BooksInv'
<1>1. events' = events /\ spent' = spent /\ recent' = recent
  BY DEF books
<1> QED BY <1>1 DEF BooksInv

LEMMA TryAcquireKeeps ==
  ASSUME BooksInv, WaitInv, NEW c \in Callers, NEW weight \in Nat, TryAcquire(c, weight)
  PROVE  BooksInv' /\ WaitInv'
<1>1. CASE Fits(weight) /\ Spend(weight) /\ Sending(c, weight) /\ queue' = queue
  <2>1. BooksInv'
    BY <1>1, SpendKeeps
  <2>2. CallAt("sending", weight, 0, 1) \in Request
        /\ CallAt("sending", weight, 0, 1).at # "waiting"
    BY DEF CallAt, Request
  <2>3. ~Waiting(c)
    BY NoCallWaits DEF TryAcquire, Waiting
  <2> QED BY <1>1, <2>1, <2>2, <2>3, OthersKeep DEF Sending
<1>2. CASE Evict /\ UNCHANGED <<call, recent, queue>>
  <2>1. BooksInv'
    BY <1>2, EvictKeeps
  <2>2. WaitInv'
    BY <1>2 DEF WaitInv, Waiting
  <2> QED BY <2>1, <2>2
<1> QED BY <1>1, <1>2 DEF TryAcquire

LEMMA ServeKeeps ==
  ASSUME BooksInv, WaitInv, NEW c \in Callers, Serve(c) PROVE BooksInv' /\ WaitInv'
<1>0. Due(c) /\ call[c].weight \in Nat
  BY RequestOf DEF Serve
<1>1. CASE Fits(call[c].weight) /\ Spend(call[c].weight) /\ queue' = Tail(queue)
           /\ Sending(c, call[c].weight)
  <2>1. BooksInv'
    BY <1>0, <1>1, SpendKeeps
  <2>2. CallAt("sending", call[c].weight, 0, 1) \in Request
        /\ CallAt("sending", call[c].weight, 0, 1).at # "waiting"
    BY <1>0 DEF CallAt, Request
  <2> QED BY <1>0, <1>1, <2>1, <2>2, HeadKeeps DEF Sending
<1>2. CASE Evict /\ queue' = Tail(queue) /\ call' = [call EXCEPT ![c] = NoCall]
           /\ UNCHANGED recent
  BY <1>0, <1>2, EvictKeeps, HeadKeeps, NoCallWaits
<1>3. CASE Evict /\ call' = [call EXCEPT ![c].sleep = Pause(c)] /\ UNCHANGED <<queue, recent>>
  <2>1. BooksInv'
    BY <1>3, EvictKeeps
  <2>2. Waiting(c)
    <3>1. queue \in Seq(Callers) /\ queue # <<>> /\ Head(queue) = c
      BY <1>0 DEF WaitInv, Due
    <3>2. 1 \in 1 .. Len(queue) /\ queue[1] = c
      BY <3>1
    <3> QED BY <3>2 DEF WaitInv
  <2>3. WaitInv'
    BY <1>3, <2>2, PauseKeeps
  <2> QED BY <2>1, <2>3
<1> QED BY <1>1, <1>2, <1>3 DEF Serve

\* The answers, and the sleep between two attempts, are not about waiters.
LEMMA ExchangeKeeps ==
  ASSUME WaitInv, NEW c \in Callers, Exchange(c) \/ Again(c) PROVE WaitInv'
<1>1. /\ call[c] \in Request /\ ~Waiting(c) /\ queue' = queue
      /\ call[c].attempt \in Nat /\ call[c].weight \in Nat
      /\ call \in [Callers -> Request]
  BY RequestOf DEF Exchange, Answered, Throttled, Failed, Again, Waiting, WaitInv
<1>2. CASE call' = [call EXCEPT ![c] = NoCall]
  BY <1>1, <1>2, NoCallWaits, OthersKeep
<1>3. CASE call' = [call EXCEPT ![c].at = "backoff"]
  <2> DEFINE v == [call[c] EXCEPT !.at = "backoff"]
  <2>1. v \in Request /\ v.at # "waiting"
    BY <1>1 DEF Request
  <2>2. call' = [call EXCEPT ![c] = v]
    BY <1>1, <1>3
  <2> HIDE DEF v
  <2> QED BY <1>1, <2>1, <2>2, OthersKeep
<1>4. CASE call' = [call EXCEPT ![c] = CallAt("sending", @.weight, 0, @.attempt + 1)]
  <2> DEFINE v == CallAt("sending", call[c].weight, 0, call[c].attempt + 1)
  <2>1. v \in Request /\ v.at # "waiting"
    BY <1>1 DEF Request, CallAt
  <2>2. call' = [call EXCEPT ![c] = v]
    BY <1>1, <1>4
  <2> HIDE DEF v
  <2> QED BY <1>1, <2>1, <2>2, OthersKeep
<1> QED BY <1>2, <1>3, <1>4 DEF Exchange, Answered, Throttled, Failed, Again

LEMMA CancelKeeps ==
  ASSUME WaitInv, NEW c \in Callers, Cancel(c) PROVE WaitInv'
<1>0. queue \in Seq(Callers) /\ Len(queue) \in Nat /\ DOMAIN queue = 1 .. Len(queue)
  BY DEF WaitInv
<1>1. call' = [call EXCEPT ![c] = NoCall]
  BY DEF Cancel
<1>2. ASSUME NEW k \in DOMAIN queue, queue[k] = c, queue' = RemoveAt(queue, k)
      PROVE  WaitInv'
  <2> DEFINE a == SubSeq(queue, 1, k - 1)
             b == SubSeq(queue, k + 1, Len(queue))
  <2>1. k \in 1 .. Len(queue)
    BY <1>0
  <2>2. /\ a \in Seq(Callers) /\ Len(a) = k - 1
        /\ \A i \in 1 .. k - 1 : a[i] = queue[i]
    BY <1>0, <2>1
  <2>3. /\ b \in Seq(Callers) /\ Len(b) = Len(queue) - k
        /\ \A i \in 1 .. Len(queue) - k : b[i] = queue[k + i]
    BY <1>0, <2>1
  <2>4. queue' = a \o b
    BY <1>2 DEF RemoveAt
  <2> HIDE DEF a, b
  <2>5. queue' \in Seq(Callers) /\ Len(queue') = Len(queue) - 1
    <3>1. a \o b \in Seq(Callers) /\ Len(a \o b) = Len(a) + Len(b)
      BY <2>2, <2>3, ConcatProperties
    <3> QED BY <1>0, <2>1, <2>2, <2>3, <2>4, <3>1
  <2>6. \A i \in 1 .. Len(queue) - 1 : queue'[i] = IF i < k THEN queue[i] ELSE queue[i + 1]
    <3> SUFFICES ASSUME NEW i \in 1 .. Len(queue) - 1
                 PROVE  queue'[i] = IF i < k THEN queue[i] ELSE queue[i + 1]
      OBVIOUS
    <3>1. CASE i < k
      <4>1. i \in 1 .. k - 1
        BY <1>0, <2>1, <3>1
      <4> QED BY <2>2, <2>3, <2>4, <3>1, <4>1
    <3>2. CASE i >= k
      <4>1. i - (k - 1) \in 1 .. Len(queue) - k /\ k + (i - (k - 1)) = i + 1
        BY <1>0, <2>1, <3>2
      <4>2. (a \o b)[i] = b[i - (k - 1)]
        BY <1>0, <2>1, <2>2, <2>3, <3>2
      <4>3. b[i - (k - 1)] = queue[i + 1]
        BY <2>3, <4>1
      <4> QED BY <2>1, <2>4, <3>2, <4>2, <4>3
    <3> QED BY <1>0, <2>1, <3>1, <3>2
  <2> QED BY <1>1, <1>2, <2>1, <2>5, <2>6, NoCallWaits, LeaverKeeps
<1>3. ASSUME c \notin ToSet(queue), queue' = queue PROVE WaitInv'
  <2>1. \A i \in 1 .. Len(queue) : queue[i] # c
    BY <1>0, <1>3 DEF ToSet
  <2>2. ~Waiting(c)
    BY <2>1 DEF WaitInv
  <2> QED BY <1>1, <1>3, <2>2, NoCallWaits, OthersKeep
<1> QED BY <1>2, <1>3 DEF Cancel

LEMMA StepKeeps == BooksInv /\ WaitInv /\ [Next]_vars => BooksInv' /\ WaitInv'
<1> SUFFICES ASSUME BooksInv, WaitInv, [Next]_vars PROVE BooksInv' /\ WaitInv'
  OBVIOUS
<1>1. ASSUME NEW r \in Polls, TryAcquire(r[1], r[2]) PROVE BooksInv' /\ WaitInv'
  <2>1. r[1] \in Callers /\ r[2] \in Nat
    BY LimiterAssumption DEF LimiterAssumption
  <2> QED BY <1>1, <2>1, TryAcquireKeeps
<1>2. ASSUME NEW r \in Waits, Acquire(r[1], r[2]) PROVE BooksInv' /\ WaitInv'
  <2>1. r[1] \in Callers /\ r[2] \in Nat
    BY LimiterAssumption DEF LimiterAssumption
  <2>2. BooksInv'
    BY <1>2, BooksAlone DEF Acquire
  <2> QED BY <1>2, <2>1, <2>2, AcquireKeepsWait
<1>3. ASSUME NEW c \in Callers, Serve(c) PROVE BooksInv' /\ WaitInv'
  BY <1>3, ServeKeeps
<1>4. ASSUME NEW c \in Callers, Exchange(c) \/ Again(c) PROVE BooksInv' /\ WaitInv'
  <2>1. UNCHANGED <<books, recent>>
    BY <1>4 DEF Exchange, Answered, Throttled, Failed, Again
  <2> QED BY <1>4, <2>1, BooksAlone, ExchangeKeeps
<1>5. ASSUME NEW c \in Callers, Cancel(c) PROVE BooksInv' /\ WaitInv'
  <2>1. UNCHANGED <<books, recent>>
    BY <1>5 DEF Cancel
  <2> QED BY <1>5, <2>1, BooksAlone, CancelKeeps
<1>6. CASE Tick
  BY <1>6, TickKeeps, TickKeepsWait
<1>7. CASE UNCHANGED vars
  <2>1. UNCHANGED <<books, recent>> /\ queue' = queue /\ call' = call
    BY <1>7 DEF vars, books
  <2>2. WaitInv'
    BY <2>1 DEF WaitInv, Waiting
  <2> QED BY <2>1, <2>2, BooksAlone
<1> QED BY <1>1, <1>2, <1>3, <1>4, <1>5, <1>6, <1>7 DEF Next

LEMMA InvHolds == Spec => [](BooksInv /\ WaitInv)
<1>1. Init => BooksInv /\ WaitInv
  BY BooksInit, WaitInit
<1>2. BooksInv /\ WaitInv /\ [Next]_vars => (BooksInv /\ WaitInv)'
  BY StepKeeps
<1> QED BY <1>1, <1>2, PTL DEF Spec

\* WeightedRateLimiter: however acquire and try_acquire interleave, no minute
\* holds more admitted weight than rest_weight_budget.
THEOREM NoWindowOverspent == Spec => []WindowRespected
<1>1. BooksInv => WindowRespected
  BY DEF BooksInv, WindowRespected
<1> QED BY <1>1, InvHolds, PTL

\* _evict: it drops no less than what left the window, so the budget that try_acquire
\* and acquire compare with is never held by events that no longer count.
THEOREM BudgetIsNotWithheld == Spec => []NoBudgetWithheld
<1>1. BooksInv => NoBudgetWithheld
  BY KeptIsRecent DEF NoBudgetWithheld, Fits
<1> QED BY <1>1, InvHolds, PTL

-----------------------------------------------------------------------------
(* The books implement SlidingWindow.                                      *)

LEMMA TotalIsTotal == \A s : Sliding!Total(s) = Total(s)
BY DEF Total, Sums, Sliding!Total, Sliding!Sums

LEMMA SizeIsSize == \A S : Sliding!Cardinality(S) = Cardinality(S)
BY DEF Cardinality, Sliding!Cardinality, IsFiniteSet, Sliding!IsFiniteSet

\* The invariant, with what _evict leaves of the books.
BooksKept == BooksInv /\ WaitInv /\ Kept = recent

LEMMA BooksAreKept == Spec => []BooksKept
<1>1. BooksInv /\ WaitInv => BooksKept
  BY KeptIsRecent DEF BooksKept
<1> QED BY <1>1, InvHolds, PTL

LEMMA SlidesFirst == Init => Sliding!Init
<1> SUFFICES ASSUME Init PROVE Kept = <<>>
  BY DEF Sliding!Init
<1>1. BooksInv /\ recent = <<>>
  BY BooksInit DEF Init
<1> QED BY <1>1, KeptIsRecent

\* What is admitted is one request more, and it fits beside the others.
LEMMA SpendAdmits ==
  ASSUME BooksKept, BooksKept', NEW weight \in Nat, Fits(weight), Spend(weight)
  PROVE  Sliding!Admit
<1> DEFINE e == [age |-> 0, weight |-> weight]
<1>1. Kept = recent /\ KeptSpent = Total(recent) /\ Kept' = recent'
  BY KeptIsRecent DEF BooksKept
<1>2. recent' = Append(recent, e) /\ recent \in Seq(Event) /\ Len(recent) \in Nat
  BY SumsFit DEF Spend, BooksInv, BooksKept
<1>3. Kept' = Append(Kept, e) /\ Len(Kept') = Len(Kept) + 1 /\ Kept'[Len(Kept) + 1] = e
  BY <1>1, <1>2
<1>4. Sliding!Total(Kept) + e.weight <= Budget
  BY <1>1, TotalIsTotal DEF Fits
<1> QED BY <1>3, <1>4 DEF Sliding!Admit

\* One event after a tick, while it counts.
Onward(e) == [e EXCEPT !.age = @ + 1]

\* A tick ages what counts, and what is a window old with it counts no more.
LEMMA TickPasses ==
  ASSUME BooksKept, BooksKept', Tick
  PROVE  Sliding!Pass
<1> DEFINE n == Len(recent)
           m == Cardinality(Leaving(recent))
<1>1. Kept = recent /\ Kept' = recent'
  BY KeptIsRecent DEF BooksKept
<1>2. /\ recent \in Seq(Event) /\ n \in Nat /\ DOMAIN recent = 1 .. n /\ Window \in Nat
      /\ \A i \in 1 .. n : recent[i].age \in Nat /\ recent[i].age < Window
  BY SumsFit, RecentFits DEF BooksInv, BooksKept
<1>3. Leaving(recent) = {i \in DOMAIN Kept : Kept[i].age + 1 >= Window}
  BY <1>1, <1>2 DEF Leaving
<1>4. Sliding!Leaving = m
  BY <1>3, SizeIsSize DEF Sliding!Leaving
<1>5. m \in 0 .. n
  <2>1. IsFiniteSet(1 .. n) /\ Cardinality(1 .. n) = n
    BY <1>2, FS_Interval
  <2>2. Leaving(recent) \subseteq 1 .. n
    BY <1>2 DEF Leaving
  <2> QED BY <1>2, <2>1, <2>2, FS_Subset, FS_CardinalityType
<1>6. /\ Aged(recent) \in Seq(Event) /\ Len(Aged(recent)) = n
      /\ \A i \in 1 .. n : Aged(recent)[i] = Onward(recent[i])
  <2>1. /\ Aged(recent) \in Seq(Event) /\ Len(Aged(recent)) = n
        /\ \A i \in 1 .. n : Aged(recent)[i] = AgedOne(recent[i])
    BY <1>2, TotalOfAged
  <2>2. \A i \in 1 .. n : AgedOne(recent[i]) = Onward(recent[i])
    <3> SUFFICES ASSUME NEW i \in 1 .. n PROVE AgedOne(recent[i]) = Onward(recent[i])
      OBVIOUS
    <3>1. recent[i] \in Event /\ recent[i].age < Window
      BY <1>2
    <3> QED BY <3>1 DEF AgedOne, Onward, Event
  <2> QED BY <2>1, <2>2
<1> HIDE DEF m, n
<1>7. recent' = SubSeq(Aged(recent), m + 1, n)
  BY DEF Tick, m, n
<1>8. recent' = [i \in 1 .. n - m |-> Aged(recent)[m + i]]
  <2>1. SubSeq(Aged(recent), m + 1, n) = [i \in 1 .. n - m |-> Aged(recent)[m + i]]
    <3>1. /\ SubSeq(Aged(recent), m + 1, n) \in Seq(Event)
          /\ Len(SubSeq(Aged(recent), m + 1, n)) = n - m
          /\ \A i \in 1 .. n - m : SubSeq(Aged(recent), m + 1, n)[i] = Aged(recent)[m + i]
      BY <1>2, <1>5, <1>6
    <3> QED BY <3>1
  <2> QED BY <1>7, <2>1
<1>9. recent' = [i \in 1 .. n - m |-> Onward(recent[m + i])]
  <2>1. \A i \in 1 .. n - m : m + i \in 1 .. n
    BY <1>2, <1>5
  <2> QED BY <1>6, <1>8, <2>1
<1> QED BY <1>1, <1>4, <1>9 DEF Sliding!Pass, Onward, n

\* Only waiters and polls write to the books; whatever they throw out of them has
\* expired.
LEMMA SlidesOn ==
  ASSUME BooksKept, BooksKept', [Next]_vars
  PROVE  [Sliding!Next]_Kept
<1>0. Kept = recent /\ Kept' = recent'
  BY KeptIsRecent DEF BooksKept
<1>1. ASSUME NEW r \in Polls, TryAcquire(r[1], r[2]) PROVE [Sliding!Next]_Kept
  <2>1. r[2] \in Nat
    BY LimiterAssumption DEF LimiterAssumption
  <2>2. CASE Fits(r[2]) /\ Spend(r[2])
    BY <2>1, <2>2, SpendAdmits DEF Sliding!Next
  <2> QED BY <1>0, <1>1, <2>2 DEF TryAcquire
<1>2. ASSUME NEW c \in Callers, Serve(c) PROVE [Sliding!Next]_Kept
  <2>1. call[c].weight \in Nat
    BY RequestOf DEF BooksKept
  <2>2. CASE Fits(call[c].weight) /\ Spend(call[c].weight)
    BY <2>1, <2>2, SpendAdmits DEF Sliding!Next
  <2> QED BY <1>0, <1>2, <2>2 DEF Serve
<1>3. CASE Tick
  BY <1>3, TickPasses DEF Sliding!Next
<1>4. ASSUME UNCHANGED recent PROVE [Sliding!Next]_Kept
  BY <1>0, <1>4
<1>5. ASSUME NEW r \in Waits, Acquire(r[1], r[2]) PROVE UNCHANGED recent
  BY <1>5 DEF Acquire
<1>6. ASSUME NEW c \in Callers, Exchange(c) \/ Again(c) \/ Cancel(c) PROVE UNCHANGED recent
  BY <1>6 DEF Exchange, Answered, Throttled, Failed, Again, Cancel
<1>7. CASE UNCHANGED vars
  BY <1>4, <1>7 DEF vars
<1> QED BY <1>1, <1>2, <1>3, <1>4, <1>5, <1>6, <1>7 DEF Next

\* What _evict leaves of _events is the last minute exactly, however acquire and
\* try_acquire interleave, and grows by what fits only.
THEOREM WindowSlides == Spec => SlidesExactly
<1>1. Spec => Init /\ [][Next]_vars
  BY PTL DEF Spec
<1>2. BooksKept /\ BooksKept' /\ [Next]_vars => [Sliding!Next]_Kept
  BY SlidesOn
<1> QED BY <1>1, <1>2, SlidesFirst, BooksAreKept, PTL DEF SlidesExactly, Sliding!Spec

\* acquire: nobody is still waiting when its timeout is over, although the
\* clock is only looked at by the one that holds the lock.
THEOREM NobodyOverstays == Spec => []BoundedWait
<1>1. WaitInv => BoundedWait
  BY DEF WaitInv, BoundedWait, Waiting
<1> QED BY <1>1, InvHolds, PTL
=============================================================================
