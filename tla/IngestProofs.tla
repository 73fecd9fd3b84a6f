---------------------------- MODULE IngestProofs ----------------------------
(***************************************************************************)
(* Proofs about Ingest, for any wallets, executions, settings, workers and *)
(* bounds: what alerts and rows say is so, once per execution, as the      *)
(* abstract RecordOnce demands, and who is watched stays tracked.          *)
(*                                                                         *)
(* What was matched is never undone, so whatever is true of the market     *)
(* stays true; the argument is that a job is about an execution there was, *)
(* that what the tracker holds of a wallet is a position it had, and that  *)
(* therefore what the detector states of a job, whenever it states it, is  *)
(* true.  An identity is claimed by one worker or by one row.              *)
(*                                                                         *)
(* Positions are summed, wallets touched and registries filtered by        *)
(* recursive functions up to a number.  What one has for values follows    *)
(* from the least number that has no such value, Recursion, so no theorem  *)
(* of the library with an operator for a parameter is needed.              *)
(*                                                                         *)
(* At the end, what the runs check of the rules of Whale over small sets   *)
(* is shown for any thresholds, executions, magnitudes, descriptions,      *)
(* trigger orders and books, and what the runs check follows from it.      *)
(***************************************************************************)
EXTENDS WhaleChecks, FiniteSetTheorems, WellFoundedInduction, TLAPS

-----------------------------------------------------------------------------
(* Recursion and induction, up to a number.                                *)

\* A set of naturals that is not empty has a least element.
LEMMA LeastOf ==
  ASSUME NEW S \in SUBSET Nat, S # {}
  PROVE  \E n \in S : \A k \in Nat : k < n => k \notin S
<1>1. PICK n \in S : \A k \in S : ~(<<k, n>> \in OpToRel(<, Nat))
  BY NatLessThanWellFounded, WFMin
<1> QED BY <1>1 DEF OpToRel

\* What holds of 0, and of n when it holds of n - 1, holds up to L.
LEMMA UpTo ==
  ASSUME NEW L \in Nat, NEW G, 0 \in G, \A n \in 1 .. L : n - 1 \in G => n \in G
  PROVE  \A n \in 0 .. L : n \in G
<1> DEFINE Bad == {n \in 0 .. L : n \notin G}
<1> SUFFICES ASSUME Bad # {} PROVE FALSE
  OBVIOUS
<1>1. Bad \in SUBSET Nat
  OBVIOUS
<1>2. PICK n \in Bad : \A k \in Nat : k < n => k \notin Bad
  <2> HIDE DEF Bad
  <2> QED BY <1>1, LeastOf
<1>3. n # 0
  OBVIOUS
<1>4. n \in 1 .. L /\ n - 1 \in Nat /\ n - 1 < n /\ n - 1 \in 0 .. L
  BY <1>3
<1>5. n - 1 \in G
  BY <1>2, <1>4
<1> QED BY <1>4, <1>5

\* f has a value for every number up to L, each from the one before by a step.
IsRecursive(f, L, base, step) ==
  f = [n \in 0 .. L |-> IF n = 0 THEN base ELSE step[<<n, f[n - 1]>>]]

LEMMA RecursionGoesOn ==
  ASSUME NEW l \in Nat, NEW S, NEW base \in S, NEW step,
         NEW f \in [0 .. l -> S], IsRecursive(f, l, base, step),
         step[<<l + 1, f[l]>>] \in S
  PROVE  \E g \in [0 .. l + 1 -> S] : IsRecursive(g, l + 1, base, step)
<1> DEFINE g == [n \in 0 .. l + 1 |-> IF n = l + 1 THEN step[<<l + 1, f[l]>>] ELSE f[n]]
<1>1. g \in [0 .. l + 1 -> S]
  OBVIOUS
<1>2. \A n \in 0 .. l : g[n] = f[n]
  OBVIOUS
<1>3. g[l + 1] = step[<<l + 1, f[l]>>]
  OBVIOUS
<1>4. g = [n \in 0 .. l + 1 |-> g[n]]
  OBVIOUS
<1> HIDE DEF g
<1>5. ASSUME NEW n \in 0 .. l + 1
      PROVE  g[n] = IF n = 0 THEN base ELSE step[<<n, g[n - 1]>>]
  <2>1. CASE n = l + 1
    <3>1. n # 0 /\ n - 1 = l /\ l \in 0 .. l
      BY <2>1
    <3> QED BY <1>2, <1>3, <2>1, <3>1
  <2>2. CASE n # l + 1
    <3>1. n \in 0 .. l /\ (n # 0 => n - 1 \in 0 .. l)
      BY <2>2
    <3>2. f[n] = IF n = 0 THEN base ELSE step[<<n, f[n - 1]>>]
      BY <3>1 DEF IsRecursive
    <3> QED BY <1>2, <3>1, <3>2
  <2> QED BY <2>1, <2>2
<1>6. IsRecursive(g, l + 1, base, step)
  BY <1>4, <1>5 DEF IsRecursive
<1> QED BY <1>1, <1>6

LEMMA Recursion ==
  ASSUME NEW L \in Nat, NEW S, NEW base \in S, NEW step \in [(1 .. L) \X S -> S]
  PROVE  \E f \in [0 .. L -> S] : IsRecursive(f, L, base, step)
<1> DEFINE To(l) == \E f \in [0 .. l -> S] : IsRecursive(f, l, base, step)
           G == {l \in 0 .. L : To(l)}
<1>1. To(0)
  <2> DEFINE f == [n \in 0 .. 0 |-> base]
  <2>1. f \in [0 .. 0 -> S] /\ IsRecursive(f, 0, base, step)
    BY DEF IsRecursive
  <2> QED BY <2>1
<1>2. ASSUME NEW l \in 1 .. L, To(l - 1)
      PROVE  To(l)
  <2>1. PICK f \in [0 .. l - 1 -> S] : IsRecursive(f, l - 1, base, step)
    BY <1>2
  <2>2. l - 1 \in Nat /\ (l - 1) + 1 = l
    OBVIOUS
  <2>3. step[<<l, f[l - 1]>>] \in S
    BY <2>2
  <2> QED BY <2>1, <2>2, <2>3, RecursionGoesOn
<1> HIDE DEF To
<1>3. 0 \in G /\ \A n \in 1 .. L : n - 1 \in G => n \in G
  BY <1>1, <1>2
<1>4. \A n \in 0 .. L : n \in G
  <2> HIDE DEF G
  <2> QED BY <1>3, UpTo
<1>5. To(L)
  BY <1>4
<1> QED BY <1>5 DEF To

-----------------------------------------------------------------------------
(* The exchange.                                                           *)

\* The positions of a wallet over a sequence of executions.
PositionsOf(m, w) ==
  LET p[n \in 0 .. Len(m)] == IF n = 0 THEN Initial[w] ELSE p[n - 1] + Effect(m[n], w)
  IN  p

LEMMA HeldAre == \A w : HeldAfter(w) = PositionsOf(market, w)
BY DEF HeldAfter, PositionsOf

LEMMA EffectIs ==
  ASSUME NEW x \in Executions, NEW w
  PROVE  Effect(x, w) \in Int
<1>1. x.notional \in Int
  BY IngestAssumption DEF IngestAssumption
<1> QED BY <1>1 DEF Effect

LEMMA PositionsAre ==
  ASSUME NEW m \in Seq(Executions), NEW w \in Wallets
  PROVE  /\ PositionsOf(m, w) \in [0 .. Len(m) -> Int]
         /\ PositionsOf(m, w)[0] = Initial[w]
         /\ \A n \in 1 .. Len(m) : PositionsOf(m, w)[n] = PositionsOf(m, w)[n - 1] + Effect(m[n], w)
<1> DEFINE L == Len(m)
           step == [q \in (1 .. L) \X Int |-> q[2] + Effect(m[q[1]], w)]
           p == PositionsOf(m, w)
           Fits(f) == f = [n \in 0 .. L |-> IF n = 0 THEN Initial[w] ELSE f[n - 1] + Effect(m[n], w)]
<1>1. L \in Nat /\ Initial[w] \in Int /\ \A n \in 1 .. L : m[n] \in Executions
  BY IngestAssumption DEF IngestAssumption
<1> HIDE DEF L
<1>2. step \in [(1 .. L) \X Int -> Int]
  BY <1>1, EffectIs
<1>3. \A n \in 1 .. L, v \in Int : step[<<n, v>>] = v + Effect(m[n], w)
  BY <1>1
<1> HIDE DEF step
<1>4. PICK f \in [0 .. L -> Int] : IsRecursive(f, L, Initial[w], step)
  BY <1>1, <1>2, Recursion
<1>5. \A n \in 0 .. L : f[n] = IF n = 0 THEN Initial[w] ELSE f[n - 1] + Effect(m[n], w)
  <2> SUFFICES ASSUME NEW n \in 0 .. L
               PROVE  f[n] = IF n = 0 THEN Initial[w] ELSE f[n - 1] + Effect(m[n], w)
    OBVIOUS
  <2>1. f[n] = IF n = 0 THEN Initial[w] ELSE step[<<n, f[n - 1]>>]
    BY <1>4 DEF IsRecursive
  <2>2. n # 0 => n \in 1 .. L /\ n - 1 \in 0 .. L
    BY <1>1
  <2> QED BY <1>3, <2>1, <2>2
<1>6. Fits(f)
  BY <1>4, <1>5
<1>7. Fits(p)
  BY <1>6 DEF PositionsOf, L
<1> HIDE DEF p
<1>8. /\ DOMAIN p = 0 .. L
      /\ p[0] = Initial[w]
      /\ \A n \in 1 .. L : p[n] = p[n - 1] + Effect(m[n], w)
  BY <1>1, <1>7
<1> DEFINE G == {n \in 0 .. L : p[n] \in Int}
<1>9. 0 \in G
  BY <1>1, <1>8
<1>10. ASSUME NEW n \in 1 .. L, n - 1 \in G
       PROVE  n \in G
  <2>1. p[n - 1] \in Int /\ Effect(m[n], w) \in Int /\ n \in 0 .. L
    BY <1>1, <1>10, EffectIs
  <2>2. p[n] \in Int
    BY <1>8, <2>1
  <2> QED BY <2>1, <2>2
<1>11. \A n \in 0 .. L : n \in G
  <2> HIDE DEF G
  <2> QED BY <1>1, <1>9, <1>10, UpTo
<1>12. p = [n \in 0 .. L |-> p[n]]
  BY <1>7, <1>8
<1>13. p \in [0 .. L -> Int]
  BY <1>11, <1>12
<1> QED BY <1>8, <1>13 DEF p, L

\* A match leaves the positions there were as they were.
LEMMA PositionsGrow ==
  ASSUME NEW m \in Seq(Executions), NEW x \in Executions, NEW w \in Wallets
  PROVE  \A n \in 0 .. Len(m) : PositionsOf(Append(m, x), w)[n] = PositionsOf(m, w)[n]
<1> DEFINE more == Append(m, x)
           p == PositionsOf(m, w)
           q == PositionsOf(more, w)
           G == {n \in 0 .. Len(m) : q[n] = p[n]}
<1>1. /\ more \in Seq(Executions) /\ Len(more) = Len(m) + 1 /\ Len(m) \in Nat
      /\ \A n \in 1 .. Len(m) : more[n] = m[n]
  OBVIOUS
<1> HIDE DEF more
<1>2. p[0] = Initial[w] /\ \A n \in 1 .. Len(m) : p[n] = p[n - 1] + Effect(m[n], w)
  BY PositionsAre
<1>3. q[0] = Initial[w] /\ \A n \in 1 .. Len(more) : q[n] = q[n - 1] + Effect(more[n], w)
  BY <1>1, PositionsAre
<1> HIDE DEF p, q
<1>4. 0 \in G
  BY <1>1, <1>2, <1>3
<1>5. ASSUME NEW n \in 1 .. Len(m), n - 1 \in G
      PROVE  n \in G
  <2>1. n \in 1 .. Len(more) /\ n \in 0 .. Len(m) /\ more[n] = m[n] /\ q[n - 1] = p[n - 1]
    BY <1>1, <1>5
  <2> QED BY <1>2, <1>3, <2>1
<1>6. \A n \in 0 .. Len(m) : n \in G
  <2> HIDE DEF G
  <2> QED BY <1>1, <1>4, <1>5, UpTo
<1> QED BY <1>6 DEF p, q, more

\* What a wallet had, by a sequence of executions.
Past(m, w) == {PositionsOf(m, w)[n] : n \in 0 .. Len(m)}

LEMMA PastIs ==
  ASSUME NEW m \in Seq(Executions), NEW w \in Wallets
  PROVE  Past(m, w) \subseteq Int /\ Past(m, w) = Range(PositionsOf(m, w))
<1>1. PositionsOf(m, w) \in [0 .. Len(m) -> Int]
  BY PositionsAre
<1> QED BY <1>1 DEF Past, Range

LEMMA PastGrows ==
  ASSUME NEW m \in Seq(Executions), NEW x \in Executions, NEW w \in Wallets
  PROVE  Past(m, w) \subseteq Past(Append(m, x), w)
<1>1. Len(Append(m, x)) = Len(m) + 1 /\ Len(m) \in Nat
  OBVIOUS
<1>2. ASSUME NEW n \in 0 .. Len(m)
      PROVE  PositionsOf(m, w)[n] \in Past(Append(m, x), w)
  <2>1. n \in 0 .. Len(Append(m, x))
    BY <1>1
  <2>2. PositionsOf(m, w)[n] = PositionsOf(Append(m, x), w)[n]
    BY PositionsGrow
  <2> QED BY <2>1, <2>2 DEF Past
<1> QED BY <1>2 DEF Past

-----------------------------------------------------------------------------
(* The registry.                                                           *)

\* What is stored of a wallet; H is what the wallets had.
Tracked(H) ==
  {t \in [address : Wallets, pinned : BOOLEAN, traded : BOOLEAN, snap : Int \cup {None}] :
     t.snap \in H[t.address] \cup {None}}

\* No wallet is in it twice.
Distinct(ts) == \A i, j \in 1 .. Len(ts) : ts[i].address = ts[j].address => i = j

Registries(H) == {ts \in Seq(Tracked(H)) : Distinct(ts)}

\* The wallets that are pinned.
Pins(ts) == {ts[i].address : i \in {n \in 1 .. Len(ts) : ts[n].pinned}}

\* s is the first n entries of ts without those that are gone.
IsWithout(s, ts, gone, n) ==
  /\ \A j \in 1 .. Len(s) : \E i \in 1 .. n : s[j] = ts[i] /\ ts[i].address \notin gone
  /\ \A i \in 1 .. n : ts[i].address \notin gone => \E j \in 1 .. Len(s) : s[j] = ts[i]
  /\ Distinct(ts) => Distinct(s)

LEMMA GoesOnWithout ==
  ASSUME NEW S, NEW ts \in Seq(S), NEW gone, NEW n \in 1 .. Len(ts),
         NEW s \in Seq(S), IsWithout(s, ts, gone, n - 1)
  PROVE  LET r == IF ts[n].address \in gone THEN s ELSE Append(s, ts[n])
         IN  r \in Seq(S) /\ IsWithout(r, ts, gone, n)
<1>1. CASE ts[n].address \in gone
  BY <1>1 DEF IsWithout
<1>2. CASE ts[n].address \notin gone
  <2> DEFINE r == Append(s, ts[n])
  <2>1. /\ r \in Seq(S) /\ Len(r) = Len(s) + 1 /\ r[Len(r)] = ts[n] /\ Len(s) \in Nat
        /\ \A j \in 1 .. Len(s) : r[j] = s[j]
    OBVIOUS
  <2> HIDE DEF r
  <2>2. ASSUME NEW j \in 1 .. Len(r)
        PROVE  \E i \in 1 .. n : r[j] = ts[i] /\ ts[i].address \notin gone
    <3>1. CASE j = Len(r)
      BY <1>2, <2>1, <3>1
    <3>2. CASE j # Len(r)
      <4>1. j \in 1 .. Len(s) /\ r[j] = s[j]
        BY <2>1, <3>2
      <4>2. PICK i \in 1 .. n - 1 : s[j] = ts[i] /\ ts[i].address \notin gone
        BY <4>1 DEF IsWithout
      <4>3. i \in 1 .. n
        OBVIOUS
      <4> QED BY <4>1, <4>2, <4>3
    <3> QED BY <3>1, <3>2
  <2>3. \A i \in 1 .. n : ts[i].address \notin gone => \E j \in 1 .. Len(r) : r[j] = ts[i]
    <3> SUFFICES ASSUME NEW i \in 1 .. n, ts[i].address \notin gone
                 PROVE  \E j \in 1 .. Len(r) : r[j] = ts[i]
      OBVIOUS
    <3>1. CASE i = n
      BY <2>1, <3>1
    <3>2. CASE i # n
      <4>1. i \in 1 .. n - 1
        BY <3>2
      <4>2. PICK j \in 1 .. Len(s) : s[j] = ts[i]
        BY <4>1 DEF IsWithout
      <4> QED BY <2>1, <4>2
    <3> QED BY <3>1, <3>2
  <2>4. ASSUME Distinct(ts) PROVE Distinct(r)
    <3>1. ASSUME NEW j \in 1 .. Len(s)
          PROVE  s[j].address # ts[n].address
      <4>1. PICK i \in 1 .. n - 1 : s[j] = ts[i]
        BY DEF IsWithout
      <4>2. i \in 1 .. Len(ts) /\ i # n
        OBVIOUS
      <4> QED BY <2>4, <4>1, <4>2 DEF Distinct
    <3>2. Distinct(s)
      BY <2>4 DEF IsWithout
    <3>3. \A j \in 1 .. Len(r) : j = Len(r) \/ j \in 1 .. Len(s)
      BY <2>1
    <3>4. ASSUME NEW i \in 1 .. Len(r), NEW j \in 1 .. Len(r), r[i].address = r[j].address
          PROVE  i = j
      BY <2>1, <3>1, <3>2, <3>3, <3>4 DEF Distinct
    <3> QED BY <3>4 DEF Distinct
  <2> QED BY <1>2, <2>1, <2>2, <2>3, <2>4 DEF IsWithout, r
<1> QED BY <1>1, <1>2

LEMMA WithoutIs ==
  ASSUME NEW S, NEW ts \in Seq(S), NEW gone
  PROVE  Without(ts, gone) \in Seq(S) /\ IsWithout(Without(ts, gone), ts, gone, Len(ts))
<1> DEFINE L == Len(ts)
           Kept(s, n) == IF ts[n].address \in gone THEN s ELSE Append(s, ts[n])
           step == [q \in (1 .. L) \X Seq(S) |-> Kept(q[2], q[1])]
           Fits(f) == f = [n \in 0 .. L |-> IF n = 0 THEN <<>> ELSE Kept(f[n - 1], n)]
           k == CHOOSE f : Fits(f)
           G == {n \in 0 .. L : k[n] \in Seq(S) /\ IsWithout(k[n], ts, gone, n)}
<1>1. L \in Nat /\ \A n \in 1 .. L : ts[n] \in S
  OBVIOUS
<1>2. <<>> \in Seq(S)
  OBVIOUS
<1> HIDE DEF L
<1>3. step \in [(1 .. L) \X Seq(S) -> Seq(S)]
  BY <1>1
<1>4. \A n \in 1 .. L, s \in Seq(S) : step[<<n, s>>] = Kept(s, n)
  OBVIOUS
<1> HIDE DEF step, Kept
<1>5. PICK f \in [0 .. L -> Seq(S)] : IsRecursive(f, L, <<>>, step)
  BY <1>1, <1>2, <1>3, Recursion
<1>6. \A n \in 0 .. L : f[n] = IF n = 0 THEN <<>> ELSE Kept(f[n - 1], n)
  <2> SUFFICES ASSUME NEW n \in 0 .. L
               PROVE  f[n] = IF n = 0 THEN <<>> ELSE Kept(f[n - 1], n)
    OBVIOUS
  <2>1. f[n] = IF n = 0 THEN <<>> ELSE step[<<n, f[n - 1]>>]
    BY <1>5 DEF IsRecursive
  <2>2. n # 0 => n \in 1 .. L /\ n - 1 \in 0 .. L
    BY <1>1
  <2> QED BY <1>4, <2>1, <2>2
<1>7. Fits(f)
  BY <1>5, <1>6
<1>8. Fits(k)
  <2> HIDE DEF Fits
  <2> QED BY <1>7
<1>9. Without(ts, gone) = k[L]
  BY DEF Without, Kept, L
<1> HIDE DEF k
<1>10. k[0] = <<>> /\ \A n \in 1 .. L : k[n] = Kept(k[n - 1], n)
  BY <1>1, <1>8
<1>11. 0 \in G
  <2>1. Len(<<>>) = 0
    OBVIOUS
  <2>2. IsWithout(<<>>, ts, gone, 0)
    BY <2>1 DEF IsWithout, Distinct
  <2>3. 0 \in 0 .. L /\ k[0] = <<>>
    BY <1>1, <1>10
  <2>4. k[0] \in Seq(S) /\ IsWithout(k[0], ts, gone, 0)
    BY <1>2, <2>2, <2>3
  <2> QED BY <2>3, <2>4
<1>12. ASSUME NEW n \in 1 .. L, n - 1 \in G
       PROVE  n \in G
  <2>1. n \in 1 .. Len(ts) /\ k[n - 1] \in Seq(S) /\ IsWithout(k[n - 1], ts, gone, n - 1)
    BY <1>1, <1>12 DEF L
  <2>2. k[n] = Kept(k[n - 1], n) /\ n \in 0 .. L
    BY <1>1, <1>10
  <2> HIDE DEF G
  <2>3. k[n] \in Seq(S) /\ IsWithout(k[n], ts, gone, n)
    BY <2>1, <2>2, GoesOnWithout DEF Kept
  <2> QED BY <2>2, <2>3 DEF G
<1>13. \A n \in 0 .. L : n \in G
  <2> HIDE DEF G
  <2> QED BY <1>1, <1>11, <1>12, UpTo
<1> QED BY <1>1, <1>9, <1>13 DEF L

\* The pinned wallets, and no other, are those of ts that need not go.
LEMMA WithoutKeeps ==
  ASSUME NEW H, NEW ts \in Registries(H), NEW gone
  PROVE  /\ Without(ts, gone) \in Registries(H)
         /\ Pins(ts) \ gone \subseteq Pins(Without(ts, gone))
<1> DEFINE r == Without(ts, gone)
<1>1. ts \in Seq(Tracked(H)) /\ Distinct(ts)
  BY DEF Registries
<1>2. r \in Seq(Tracked(H)) /\ IsWithout(r, ts, gone, Len(ts))
  BY <1>1, WithoutIs
<1> HIDE DEF r
<1>3. r \in Registries(H)
  BY <1>1, <1>2 DEF IsWithout, Registries
<1>4. ASSUME NEW i \in 1 .. Len(ts), ts[i].pinned, ts[i].address \notin gone
      PROVE  ts[i].address \in Pins(r)
  <2>1. PICK j \in 1 .. Len(r) : r[j] = ts[i]
    BY <1>2, <1>4 DEF IsWithout
  <2>2. j \in {n \in 1 .. Len(r) : r[n].pinned}
    BY <1>4, <2>1
  <2> QED BY <2>1, <2>2 DEF Pins
<1> QED BY <1>3, <1>4 DEF r, Pins

\* The same wallets, with other data.
LEMMA ReshapedKeeps ==
  ASSUME NEW H, NEW ts \in Registries(H), NEW r \in Seq(Tracked(H)), Len(r) = Len(ts),
         \A i \in 1 .. Len(ts) : r[i].address = ts[i].address
  PROVE  /\ r \in Registries(H)
         /\ (\A i \in 1 .. Len(ts) : ts[i].pinned => r[i].pinned) => Pins(ts) \subseteq Pins(r)
<1>1. ts \in Seq(Tracked(H)) /\ Distinct(ts)
  BY DEF Registries
<1>2. Distinct(r)
  BY <1>1 DEF Distinct
<1>3. ASSUME NEW i \in 1 .. Len(ts), ts[i].pinned, r[i].pinned
      PROVE  ts[i].address \in Pins(r)
  <2>1. i \in {n \in 1 .. Len(r) : r[n].pinned}
    BY <1>3
  <2> QED BY <2>1 DEF Pins
<1> QED BY <1>2, <1>3 DEF Registries, Pins

LEMMA EnforcedKeeps ==
  ASSUME NEW H, NEW ts \in Registries(H), NEW r \in Enforced(ts)
  PROVE  r \in Registries(H) /\ Pins(ts) \subseteq Pins(r)
<1>1. r = ts \/ \E V \in SUBSET Evictable(ts) : r = Without(ts, {ts[i].address : i \in V})
  BY DEF Enforced
<1>2. ASSUME NEW V \in SUBSET Evictable(ts), r = Without(ts, {ts[i].address : i \in V})
      PROVE  r \in Registries(H) /\ Pins(ts) \subseteq Pins(r)
  <2> DEFINE gone == {ts[i].address : i \in V}
  <2>1. ts \in Seq(Tracked(H)) /\ Distinct(ts)
    BY DEF Registries
  <2>2. DOMAIN ts = 1 .. Len(ts)
    BY <2>1
  <2>3. \A i \in V : i \in 1 .. Len(ts) /\ ~ts[i].pinned
    BY <2>2 DEF Evictable
  <2>4. Pins(ts) \cap gone = {}
    BY <2>1, <2>3 DEF Pins, Distinct
  <2>5. r = Without(ts, gone)
    BY <1>2
  <2> HIDE DEF gone
  <2> QED BY <2>4, <2>5, WithoutKeeps
<1> QED BY <1>1, <1>2

\* What the wallets had is a number, for each of them.
Numbers(H) == \A w \in Wallets : H[w] \subseteq Int

LEMMA TouchedKeeps ==
  ASSUME NEW H, NEW ts \in Registries(H), NEW w \in Wallets, NEW pinned \in BOOLEAN,
         NEW r \in Touched(ts, w, pinned)
  PROVE  /\ r \in Registries(H)
         /\ Pins(ts) \subseteq Pins(r)
         /\ pinned => w \in Pins(r)
<1>1. ts \in Seq(Tracked(H)) /\ Distinct(ts) /\ DOMAIN ts = 1 .. Len(ts) /\ Len(ts) \in Nat
  BY DEF Registries
<1>2. CASE w \in Addresses(ts)
  <2> DEFINE New(i) == IF ts[i].address = w THEN [ts[i] EXCEPT !.pinned = @ \/ pinned] ELSE ts[i]
  <2>1. r = [i \in 1 .. Len(ts) |-> New(i)]
    BY <1>1, <1>2 DEF Touched, Amended
  <2>2. \A i \in 1 .. Len(ts) : ts[i] \in Tracked(H)
    BY <1>1
  <2>3. \A i \in 1 .. Len(ts) :
          /\ New(i) \in Tracked(H) /\ New(i).address = ts[i].address
          /\ ts[i].pinned => New(i).pinned
          /\ pinned /\ ts[i].address = w => New(i).pinned
    BY <2>2 DEF Tracked
  <2> HIDE DEF New
  <2>4. r \in Seq(Tracked(H)) /\ Len(r) = Len(ts)
    BY <1>1, <2>1, <2>3
  <2>5. /\ \A i \in 1 .. Len(ts) : r[i].address = ts[i].address
        /\ \A i \in 1 .. Len(ts) : ts[i].pinned => r[i].pinned
    BY <2>1, <2>3
  <2>6. r \in Registries(H) /\ Pins(ts) \subseteq Pins(r)
    BY <2>4, <2>5, ReshapedKeeps
  <2>7. ASSUME pinned PROVE w \in Pins(r)
    <3>1. PICK i \in 1 .. Len(ts) : ts[i].address = w
      BY <1>1, <1>2 DEF Addresses
    <3>2. r[i].pinned /\ r[i].address = w /\ i \in 1 .. Len(r)
      BY <2>1, <2>3, <2>4, <2>7, <3>1
    <3> QED BY <3>2 DEF Pins
  <2> QED BY <2>6, <2>7
<1>3. CASE w \notin Addresses(ts)
  <2> DEFINE t == [address |-> w, pinned |-> pinned, traded |-> FALSE, snap |-> None]
             more == Append(ts, t)
  <2>1. t \in Tracked(H) /\ t.address = w /\ t.pinned = pinned
    BY DEF Tracked
  <2>2. r \in Enforced(more)
    BY <1>3 DEF Touched
  <2> HIDE DEF t
  <2>3. /\ more \in Seq(Tracked(H)) /\ Len(more) = Len(ts) + 1 /\ more[Len(more)] = t
        /\ \A i \in 1 .. Len(ts) : more[i] = ts[i]
    BY <1>1, <2>1
  <2> HIDE DEF more
  <2>4. \A i \in 1 .. Len(ts) : ts[i].address # w
    BY <1>1, <1>3 DEF Addresses
  <2>5. \A i \in 1 .. Len(more) : i = Len(more) \/ i \in 1 .. Len(ts)
    BY <1>1, <2>3
  <2>6. ASSUME NEW i \in 1 .. Len(more), NEW j \in 1 .. Len(more),
               more[i].address = more[j].address
        PROVE  i = j
    BY <1>1, <2>1, <2>3, <2>4, <2>5, <2>6 DEF Distinct
  <2>7. more \in Registries(H)
    BY <2>3, <2>6 DEF Registries, Distinct
  <2>8. Pins(ts) \subseteq Pins(more)
    <3>1. ASSUME NEW i \in 1 .. Len(ts), ts[i].pinned
          PROVE  ts[i].address \in Pins(more)
      <4>1. i \in 1 .. Len(more) /\ more[i] = ts[i]
        BY <1>1, <2>3
      <4>2. i \in {n \in 1 .. Len(more) : more[n].pinned}
        BY <3>1, <4>1
      <4> QED BY <4>1, <4>2 DEF Pins
    <3> QED BY <3>1 DEF Pins
  <2>9. ASSUME pinned PROVE w \in Pins(more)
    <3>1. more[Len(more)].pinned = TRUE /\ more[Len(more)].address = w
      BY <2>1, <2>3, <2>9
    <3>2. Len(more) \in 1 .. Len(more)
      BY <1>1, <2>3
    <3> QED BY <3>1, <3>2 DEF Pins
  <2> QED BY <2>2, <2>7, <2>8, <2>9, EnforcedKeeps
<1> QED BY <1>2, <1>3

LEMMA ObservedKeeps ==
  ASSUME NEW H, NEW ts \in Registries(H), NEW w \in Wallets, NEW r \in Observed(ts, w)
  PROVE  r \in Registries(H) /\ Pins(ts) \subseteq Pins(r)
<1>1. PICK t \in Touched(ts, w, FALSE) : r = Scored(t, w)
  BY DEF Observed
<1>2. t \in Registries(H) /\ Pins(ts) \subseteq Pins(t)
  BY TouchedKeeps
<1>3. t \in Seq(Tracked(H)) /\ DOMAIN t = 1 .. Len(t) /\ Len(t) \in Nat
  BY <1>2 DEF Registries
<1> DEFINE New(i) == IF t[i].address = w THEN [t[i] EXCEPT !.traded = TRUE] ELSE t[i]
<1>4. r = [i \in 1 .. Len(t) |-> New(i)]
  BY <1>1, <1>3 DEF Scored, Amended
<1>5. \A i \in 1 .. Len(t) : t[i] \in Tracked(H)
  BY <1>3
<1>6. \A i \in 1 .. Len(t) :
        /\ New(i) \in Tracked(H) /\ New(i).address = t[i].address
        /\ t[i].pinned => New(i).pinned
  BY <1>5 DEF Tracked
<1> HIDE DEF New
<1>7. r \in Seq(Tracked(H)) /\ Len(r) = Len(t)
  BY <1>3, <1>4, <1>6
<1>8. /\ \A i \in 1 .. Len(t) : r[i].address = t[i].address
      /\ \A i \in 1 .. Len(t) : t[i].pinned => r[i].pinned
  BY <1>4, <1>6
<1> QED BY <1>2, <1>7, <1>8, ReshapedKeeps

LEMMA AppliedKeeps ==
  ASSUME NEW H, Numbers(H), NEW ts \in Registries(H), NEW w \in Wallets,
         NEW position \in H[w], NEW r \in Applied(ts, w, position)
  PROVE  r \in Registries(H) /\ Pins(ts) \subseteq Pins(r)
<1>1. PICK t \in Touched(ts, w, FALSE) : r = Amended(t, w, LAMBDA e : [e EXCEPT !.snap = position])
  BY DEF Applied
<1>2. t \in Registries(H) /\ Pins(ts) \subseteq Pins(t)
  BY TouchedKeeps
<1>3. t \in Seq(Tracked(H)) /\ DOMAIN t = 1 .. Len(t) /\ Len(t) \in Nat
  BY <1>2 DEF Registries
<1> DEFINE New(i) == IF t[i].address = w THEN [t[i] EXCEPT !.snap = position] ELSE t[i]
<1>4. r = [i \in 1 .. Len(t) |-> New(i)]
  BY <1>1, <1>3 DEF Amended
<1>5. \A i \in 1 .. Len(t) : t[i] \in Tracked(H)
  BY <1>3
<1>6. position \in Int
  BY DEF Numbers
<1>7. \A i \in 1 .. Len(t) :
        /\ New(i) \in Tracked(H) /\ New(i).address = t[i].address
        /\ t[i].pinned => New(i).pinned
  BY <1>5, <1>6 DEF Tracked
<1> HIDE DEF New
<1>8. r \in Seq(Tracked(H)) /\ Len(r) = Len(t)
  BY <1>3, <1>4, <1>7
<1>9. /\ \A i \in 1 .. Len(t) : r[i].address = t[i].address
      /\ \A i \in 1 .. Len(t) : t[i].pinned => r[i].pinned
  BY <1>4, <1>7
<1> QED BY <1>2, <1>8, <1>9, ReshapedKeeps

\* Of wallets touched in turn, all those that were are pinned after each touch.
LEMMA InTurnKeeps ==
  ASSUME NEW H, NEW ts \in Registries(H), NEW order \in Seq(Wallets),
         NEW r \in TouchedInTurn(ts, order)
  PROVE  r \in Registries(H) /\ \A i \in 1 .. Len(order) : order[i] \in Pins(r)
<1> DEFINE L == Len(order)
           S == SUBSET Registries(H)
           After(found, n) == UNION {Touched(t, order[n], TRUE) : t \in found}
           step == [q \in (1 .. L) \X S |-> After(q[2], q[1])]
           Fits(f) == f = [n \in 0 .. L |-> IF n = 0 THEN {ts} ELSE After(f[n - 1], n)]
           k == CHOOSE f : Fits(f)
           Good(t, n) == t \in Registries(H) /\ \A i \in 1 .. n : order[i] \in Pins(t)
           G == {n \in 0 .. L : \A t \in k[n] : Good(t, n)}
<1>1. L \in Nat /\ \A n \in 1 .. L : order[n] \in Wallets
  OBVIOUS
<1>2. {ts} \in S
  OBVIOUS
<1> HIDE DEF L
<1>3. ASSUME NEW n \in 1 .. L, NEW found \in S
      PROVE  After(found, n) \in S
  <2>1. ASSUME NEW t \in found, NEW u \in Touched(t, order[n], TRUE)
        PROVE  u \in Registries(H)
    BY <1>1, TouchedKeeps
  <2> QED BY <2>1
<1>4. step \in [(1 .. L) \X S -> S]
  <2> HIDE DEF After, S
  <2> QED BY <1>3
<1>5. \A n \in 1 .. L, found \in S : step[<<n, found>>] = After(found, n)
  <2> HIDE DEF After, S
  <2> QED OBVIOUS
<1> HIDE DEF step, After
<1>6. PICK f \in [0 .. L -> S] : IsRecursive(f, L, {ts}, step)
  <2> HIDE DEF S
  <2> QED BY <1>1, <1>2, <1>4, Recursion
<1>7. \A n \in 0 .. L : f[n] = IF n = 0 THEN {ts} ELSE After(f[n - 1], n)
  <2> SUFFICES ASSUME NEW n \in 0 .. L
               PROVE  f[n] = IF n = 0 THEN {ts} ELSE After(f[n - 1], n)
    OBVIOUS
  <2> HIDE DEF S
  <2>1. f[n] = IF n = 0 THEN {ts} ELSE step[<<n, f[n - 1]>>]
    BY <1>6 DEF IsRecursive
  <2>2. n # 0 => n \in 1 .. L /\ n - 1 \in 0 .. L
    BY <1>1
  <2> QED BY <1>5, <2>1, <2>2
<1>8. Fits(f)
  BY <1>6, <1>7
<1>9. Fits(k)
  <2> HIDE DEF Fits
  <2> QED BY <1>8
<1>10. TouchedInTurn(ts, order) = k[L]
  BY DEF TouchedInTurn, After, L
<1> HIDE DEF k
<1>11. k[0] = {ts} /\ \A n \in 1 .. L : k[n] = After(k[n - 1], n)
  <2>1. \A n \in 0 .. L : k[n] = IF n = 0 THEN {ts} ELSE After(k[n - 1], n)
    BY <1>9
  <2> HIDE DEF S, Fits
  <2>2. 0 \in 0 .. L /\ \A n \in 1 .. L : n \in 0 .. L /\ n # 0
    BY <1>1
  <2> QED BY <2>1, <2>2
<1>12. 0 \in G
  BY <1>1, <1>11
<1>13. ASSUME NEW n \in 1 .. L, n - 1 \in G
       PROVE  n \in G
  <2>1. \A t \in k[n - 1] : Good(t, n - 1)
    BY <1>13
  <2>2. k[n] = After(k[n - 1], n) /\ n \in 0 .. L /\ order[n] \in Wallets
    BY <1>1, <1>11
  <2>3. ASSUME NEW u \in k[n]
        PROVE  Good(u, n)
    <3>1. PICK t \in k[n - 1] : u \in Touched(t, order[n], TRUE)
      BY <2>2, <2>3 DEF After
    <3>2. u \in Registries(H) /\ Pins(t) \subseteq Pins(u) /\ order[n] \in Pins(u)
      BY <2>1, <2>2, <3>1, TouchedKeeps
    <3>3. \A i \in 1 .. n : i = n \/ i \in 1 .. n - 1
      OBVIOUS
    <3> QED BY <2>1, <3>1, <3>2, <3>3
  <2> HIDE DEF Good
  <2> QED BY <2>2, <2>3
<1>14. \A n \in 0 .. L : n \in G
  <2> HIDE DEF G
  <2> QED BY <1>1, <1>12, <1>13, UpTo
<1> QED BY <1>1, <1>10, <1>14 DEF L

\* A list of a finite set without repetitions has all of it.
LEMMA ListsAreWhole ==
  ASSUME NEW S, IsFiniteSet(S), NEW order \in SetToSeqs(S)
  PROVE  /\ order \in Seq(S)
         /\ \A w \in S : \E i \in 1 .. Len(order) : order[i] = w
<1> DEFINE n == Cardinality(S)
<1>1. n \in Nat
  BY FS_CardinalityType
<1>2. order \in [1 .. n -> S] /\ \A i, j \in 1 .. n : i # j => order[i] # order[j]
  BY DEF SetToSeqs
<1> HIDE DEF n
<1>3. order \in Injection(1 .. n, S)
  BY <1>2 DEF Injection, IsInjective
<1>4. IsFiniteSet(1 .. n) /\ Cardinality(1 .. n) = n
  BY <1>1, FS_Interval
<1>5. order \in Surjection(1 .. n, S)
  BY <1>3, <1>4, FS_Injection DEF n
<1>6. \A w \in S : \E i \in 1 .. n : order[i] = w
  BY <1>5 DEF Surjection
<1> QED BY <1>1, <1>2, <1>6

\* pin leaves the whole of the new watch list tracked and pinned.
LEMMA PinnedKeeps ==
  ASSUME NEW H, NEW ts \in Registries(H), NEW watch \in SUBSET Wallets, IsFiniteSet(watch),
         NEW r \in Pinned(ts, watch)
  PROVE  r \in Registries(H) /\ watch \subseteq Pins(r)
<1>1. PICK order \in SetToSeqs(watch) : \E t \in TouchedInTurn(ts, order) : r = OnlyPinned(t, watch)
  BY DEF Pinned
<1> PICK t \in TouchedInTurn(ts, order) : r = OnlyPinned(t, watch)
  BY <1>1
<1>2. order \in Seq(watch) /\ \A w \in watch : \E i \in 1 .. Len(order) : order[i] = w
  BY ListsAreWhole
<1>3. order \in Seq(Wallets)
  BY <1>2
<1>4. t \in Registries(H) /\ \A w \in watch : w \in Pins(t)
  BY <1>2, <1>3, InTurnKeeps
<1>5. t \in Seq(Tracked(H)) /\ DOMAIN t = 1 .. Len(t) /\ Len(t) \in Nat
  BY <1>4 DEF Registries
<1> DEFINE New(i) == [t[i] EXCEPT !.pinned = t[i].address \in watch]
<1>6. r = [i \in 1 .. Len(t) |-> New(i)]
  BY <1>5 DEF OnlyPinned
<1>7. \A i \in 1 .. Len(t) : t[i] \in Tracked(H)
  BY <1>5
<1>8. \A i \in 1 .. Len(t) :
        /\ New(i) \in Tracked(H) /\ New(i).address = t[i].address
        /\ t[i].address \in watch => New(i).pinned
  <2> SUFFICES ASSUME NEW i \in 1 .. Len(t)
               PROVE  /\ New(i) \in Tracked(H) /\ New(i).address = t[i].address
                      /\ t[i].address \in watch => New(i).pinned
    OBVIOUS
  <2>1. t[i] \in Tracked(H)
    BY <1>7
  <2>2. CASE t[i].address \in watch
    <3>1. New(i) = [t[i] EXCEPT !.pinned = TRUE]
      BY <2>2
    <3> HIDE DEF New
    <3> QED BY <2>1, <3>1 DEF Tracked
  <2>3. CASE t[i].address \notin watch
    <3>0. (t[i].address \in watch) = FALSE
      BY <2>3
    <3>1. New(i) = [t[i] EXCEPT !.pinned = FALSE]
      BY <3>0, Zenon
    <3> HIDE DEF New
    <3> QED BY <2>1, <2>3, <3>1 DEF Tracked
  <2> QED BY <2>2, <2>3
<1> HIDE DEF New
<1>9. r \in Seq(Tracked(H)) /\ Len(r) = Len(t)
  BY <1>5, <1>6, <1>8
<1>10. \A i \in 1 .. Len(t) : r[i].address = t[i].address
  BY <1>6, <1>8
<1>11. r \in Registries(H)
  BY <1>4, <1>9, <1>10, ReshapedKeeps
<1>12. ASSUME NEW w \in watch
       PROVE  w \in Pins(r)
  <2>1. PICK i \in 1 .. Len(t) : t[i].address = w
    BY <1>4 DEF Pins
  <2>2. i \in {n \in 1 .. Len(r) : r[n].pinned} /\ r[i].address = w
    BY <1>6, <1>8, <1>9, <1>10, <2>1
  <2> QED BY <2>2 DEF Pins
<1> QED BY <1>11, <1>12

\* What the tracker tells of a wallet is a position it had.
LEMMA KnownIs ==
  ASSUME NEW H, NEW ts \in Registries(H), NEW w \in Wallets
  PROVE  Known(ts, w) \in H[w] \cup {None}
<1>1. ts \in Seq(Tracked(H)) /\ DOMAIN ts = 1 .. Len(ts)
  BY DEF Registries
<1>2. ASSUME w \in Addresses(ts)
      PROVE  Known(ts, w) \in H[w] \cup {None}
  <2> DEFINE i == CHOOSE i \in DOMAIN ts : ts[i].address = w
  <2>1. i \in DOMAIN ts /\ ts[i].address = w
    BY <1>2 DEF Addresses
  <2>2. Known(ts, w) = ts[i].snap
    BY <1>2 DEF Known
  <2> HIDE DEF i
  <2>3. ts[i] \in Tracked(H)
    BY <1>1, <2>1
  <2> QED BY <2>1, <2>2, <2>3 DEF Tracked
<1> QED BY <1>2 DEF Known

-----------------------------------------------------------------------------
(* What is said of the exchange.                                           *)

PastOf(m) == [w \in Wallets |-> Past(m, w)]

Sides(m, w) == {SideOf(p) : p \in Past(m, w)} \ {None}

\* A job is about an execution there was, and about one of its participants: of
\* a public trade about the taker.
Jobs(m) ==
  {job \in [kind : {"trade", "fill", "liquidation"}, x : Range(m), wallet : Wallets] :
     /\ job.wallet \in {job.x.buyer, job.x.seller}
     /\ job.kind = "trade" => job.wallet = Taker(job.x)
     /\ job.kind = "liquidation" => job.x.forced # None}

\* An event is true of what was matched.
IsTrue(e, m) ==
  /\ e.type \in {"WHALE_TRADE", "WHALE_LIQUIDATED"} \cup PositionEvents
  /\ e.wallet \in Wallets
  /\ e.pos \in Sides(m, e.wallet) \cup {None}
  /\ e.type = "WHALE_TRADE" =>
       \E x \in Range(m) :
         /\ x.tid = e.tid
         /\ e.wallet = IF e.role = "taker" THEN Taker(x) ELSE Maker(x)
         /\ e.side = IF e.wallet = x.buyer THEN "BUY" ELSE "SELL"
  /\ e.type = "WHALE_LIQUIDATED" =>
       /\ \E x \in Range(m) : x.tid = e.tid /\ e.wallet = x.forced
       /\ e.own => e.side \in Sides(m, e.wallet) \cup {None}
  /\ e.type \in PositionEvents => e.side \in Sides(m, e.wallet)

LEMMA NumbersAre ==
  ASSUME NEW m \in Seq(Executions)
  PROVE  Numbers(PastOf(m))
BY PastIs DEF PastOf, Numbers

LEMMA SidesAre ==
  ASSUME market \in Seq(Executions), NEW w \in Wallets
  PROVE  SidesHeld(w) = Sides(market, w)
<1>1. Range(HeldAfter(w)) = Past(market, w)
  BY HeldAre, PastIs
<1> QED BY <1>1 DEF SidesHeld, Sides

LEMMA SideOfIs ==
  ASSUME NEW m, NEW w, NEW p \in Past(m, w) \cup {None}
  PROVE  /\ SideOf(p) \in Sides(m, w) \cup {None}
         /\ p \in Int \ {0} => SideOf(p) \in Sides(m, w)
<1>1. None \notin Int \cup {"LONG", "SHORT"}
  BY IngestAssumption DEF IngestAssumption
<1>2. p = None => SideOf(p) = None
  BY DEF SideOf
<1>3. p \in Int \ {0} => SideOf(p) # None
  BY <1>1 DEF SideOf
<1> QED BY <1>1, <1>2, <1>3 DEF Sides

LEMMA ExecutionsAre ==
  ASSUME NEW m \in Seq(Executions), NEW x \in Range(m)
  PROVE  /\ x \in Executions
         /\ x = [tid |-> x.tid, coin |-> x.coin, notional |-> x.notional, buyer |-> x.buyer,
                 seller |-> x.seller, side |-> x.side, forced |-> x.forced]
         /\ x.buyer \in Wallets /\ x.seller \in Wallets /\ x.buyer # x.seller
         /\ x.side \in {"A", "B"}
         /\ x.forced \in {x.buyer, x.seller, None}
         /\ None \notin Wallets
<1>1. x \in Executions
  BY DEF Range
<1> QED BY <1>1, IngestAssumption DEF IngestAssumption

LEMMA TakersAre ==
  ASSUME NEW m \in Seq(Executions), NEW x \in Range(m)
  PROVE  /\ {Taker(x), Maker(x)} = {x.buyer, x.seller} /\ Taker(x) # Maker(x)
         /\ Subject(x) = Taker(x) /\ Taker(x) \in Wallets
<1>1. /\ x.side \in {"A", "B"} /\ x.buyer # x.seller /\ None \notin Wallets
      /\ x.buyer \in Wallets /\ x.seller \in Wallets
  BY ExecutionsAre
<1> QED BY <1>1 DEF Taker, Maker, Subject

\* What is so stays so.
LEMMA StaysTrue ==
  ASSUME NEW m \in Seq(Executions), NEW x \in Executions
  PROVE  LET more == Append(m, x) IN
         /\ more \in Seq(Executions)
         /\ Range(m) \subseteq Range(more)
         /\ \A w \in Wallets :
              Past(m, w) \subseteq Past(more, w) /\ Sides(m, w) \subseteq Sides(more, w)
         /\ Jobs(m) \subseteq Jobs(more)
         /\ Registries(PastOf(m)) \subseteq Registries(PastOf(more))
         /\ \A e : IsTrue(e, m) => IsTrue(e, more)
<1> DEFINE more == Append(m, x)
<1>1. /\ more \in Seq(Executions) /\ Len(more) = Len(m) + 1 /\ Len(m) \in Nat
      /\ \A n \in 1 .. Len(m) : more[n] = m[n]
  OBVIOUS
<1>2. \A w \in Wallets : Past(m, w) \subseteq Past(more, w)
  BY PastGrows
<1> HIDE DEF more
<1>3. Range(m) \subseteq Range(more)
  <2>1. DOMAIN m = 1 .. Len(m) /\ DOMAIN more = 1 .. Len(more)
    BY <1>1
  <2>2. \A n \in 1 .. Len(m) : n \in 1 .. Len(more)
    BY <1>1
  <2> QED BY <1>1, <2>1, <2>2 DEF Range
<1>4. \A w \in Wallets : Sides(m, w) \subseteq Sides(more, w)
  BY <1>2 DEF Sides
<1>5. Jobs(m) \subseteq Jobs(more)
  BY <1>3 DEF Jobs
<1>6. Registries(PastOf(m)) \subseteq Registries(PastOf(more))
  <2>1. Tracked(PastOf(m)) \subseteq Tracked(PastOf(more))
    BY <1>2 DEF Tracked, PastOf
  <2>2. Seq(Tracked(PastOf(m))) \subseteq Seq(Tracked(PastOf(more)))
    BY <2>1
  <2> QED BY <2>2 DEF Registries
<1>7. ASSUME NEW e, IsTrue(e, m) PROVE IsTrue(e, more)
  BY <1>3, <1>4, <1>7 DEF IsTrue
<1> QED BY <1>1, <1>2, <1>3, <1>4, <1>5, <1>6, <1>7 DEF more

\* The context of a job shows a position the wallet had.
LEMMA ContextIs ==
  ASSUME NEW m \in Seq(Executions), tracked \in Registries(PastOf(m)), NEW w \in Wallets
  PROVE  LET ctx == ContextFor(tracked, w) IN
         /\ ctx.position \in Past(m, w) \cup {None}
         /\ SideOf(ctx.position) \in Sides(m, w) \cup {None}
<1>1. Known(tracked, w) \in Past(m, w) \cup {None}
  BY KnownIs DEF PastOf
<1>2. SideOf(Known(tracked, w)) \in Sides(m, w) \cup {None}
  BY <1>1, SideOfIs
<1> QED BY <1>1, <1>2 DEF ContextFor

LEMMA TradeIsTrue ==
  ASSUME NEW m \in Seq(Executions), tracked \in Registries(PastOf(m)),
         NEW x \in Range(m), NEW w, w = Taker(x)
  PROVE  IsTrue(FromTrade(x, w, ContextFor(tracked, w)), m)
<1> DEFINE e == FromTrade(x, w, ContextFor(tracked, w))
<1>1. /\ x.side \in {"A", "B"} /\ x.buyer # x.seller /\ w \in Wallets
      /\ w \in {x.buyer, x.seller}
  BY ExecutionsAre, TakersAre
<1>2. SideOf(ContextFor(tracked, w).position) \in Sides(m, w) \cup {None}
  BY <1>1, ContextIs
<1>3. /\ e.type = "WHALE_TRADE" /\ e.wallet = w /\ e.tid = x.tid /\ e.role = "taker"
      /\ e.pos = SideOf(ContextFor(tracked, w).position)
      /\ e.side = SideLabel(x.side)
  BY DEF FromTrade
<1> HIDE DEF e
<1>4. e.side = IF w = x.buyer THEN "BUY" ELSE "SELL"
  BY <1>1, <1>3 DEF SideLabel, Taker
<1> QED BY <1>1, <1>2, <1>3, <1>4 DEF IsTrue, PositionEvents, e

LEMMA FillIsTrue ==
  ASSUME NEW m \in Seq(Executions), tracked \in Registries(PastOf(m)),
         NEW x \in Range(m), NEW w \in {x.buyer, x.seller}
  PROVE  IsTrue(FromFill(x, w, ContextFor(tracked, w)), m)
<1> DEFINE e == FromFill(x, w, ContextFor(tracked, w))
<1>1. x.buyer # x.seller /\ w \in Wallets
  BY ExecutionsAre
<1>2. SideOf(ContextFor(tracked, w).position) \in Sides(m, w) \cup {None}
  BY <1>1, ContextIs
<1>3. /\ e.type = "WHALE_TRADE" /\ e.wallet = w /\ e.tid = x.tid
      /\ e.role = IF w = Taker(x) THEN "taker" ELSE "maker"
      /\ e.pos = SideOf(ContextFor(tracked, w).position)
      /\ e.side = SideLabel(IF w = x.buyer THEN "B" ELSE "A")
  BY DEF FromFill
<1> HIDE DEF e
<1>4. e.side = IF w = x.buyer THEN "BUY" ELSE "SELL"
  BY <1>3 DEF SideLabel
<1>5. e.wallet = IF e.role = "taker" THEN Taker(x) ELSE Maker(x)
  BY <1>3, TakersAre
<1> QED BY <1>1, <1>2, <1>3, <1>4, <1>5 DEF IsTrue, PositionEvents, e

\* The position a participant had before an execution is one it had.
LEMMA StartIs ==
  ASSUME market \in Seq(Executions), NEW x \in Range(market), NEW w \in Wallets
  PROVE  Start(x, w) \in Past(market, w)
<1> DEFINE i == IndexOf(x)
<1>1. i \in 1 .. Len(market)
  BY DEF IndexOf, Range
<1> HIDE DEF i
<1>2. i - 1 \in 0 .. Len(market)
  BY <1>1
<1>3. Start(x, w) = PositionsOf(market, w)[i - 1]
  BY HeldAre DEF Start, i
<1> QED BY <1>2, <1>3 DEF Past

LEMMA LiquidationIsTrue ==
  ASSUME market \in Seq(Executions), tracked \in Registries(PastOf(market)),
         NEW x \in Range(market), x.forced # None, NEW w \in {x.buyer, x.seller}
  PROVE  IsTrue(FromLiquidation(Reported(x), w, ContextFor(tracked, w)), market)
<1> DEFINE r == Reported(x)
           ctx == ContextFor(tracked, w)
           e == FromLiquidation(r, w, ctx)
<1>1. /\ x = [tid |-> x.tid, coin |-> x.coin, notional |-> x.notional, buyer |-> x.buyer,
              seller |-> x.seller, side |-> x.side, forced |-> x.forced]
      /\ w \in Wallets /\ x.forced \in Wallets
  BY ExecutionsAre
<1>2. /\ r.tid = x.tid /\ r.forced = x.forced
      /\ r.start[w] = Start(x, w) /\ r.dir[w] = Direction(x, w)
  <2>1. DOMAIN x = {"tid", "coin", "notional", "buyer", "seller", "side", "forced"}
    BY <1>1
  <2> QED BY <2>1 DEF Reported
<1>3. /\ e.type = "WHALE_LIQUIDATED" /\ e.wallet = r.forced /\ e.tid = r.tid
      /\ e.pos = None /\ e.own = (r.forced = w)
      /\ e.side = LiquidatedSide(IF r.forced = w THEN ctx.position ELSE None, r.start[w], r.dir[w])
  BY DEF FromLiquidation
<1>4. ASSUME x.forced = w
      PROVE  e.side \in Sides(market, w) \cup {None}
  <2>1. e.side = LiquidatedSide(ctx.position, Start(x, w), Direction(x, w))
    BY <1>2, <1>3, <1>4
  <2>2. ctx.position \in Past(market, w) \cup {None}
    BY <1>1, ContextIs
  <2>3. SideOf(ctx.position) \in Sides(market, w) \cup {None}
    BY <2>2, SideOfIs
  <2>4. Start(x, w) \in Past(market, w) /\ SideOf(Start(x, w)) \in Sides(market, w) \cup {None}
    BY <1>1, StartIs, SideOfIs
  <2> HIDE DEF ctx
  <2>5. CASE ctx.position \notin {None, 0}
    BY <2>1, <2>3, <2>5 DEF LiquidatedSide
  <2>6. CASE ctx.position \in {None, 0} /\ Start(x, w) \notin {None, 0}
    BY <2>1, <2>4, <2>6 DEF LiquidatedSide
  <2>7. CASE ctx.position \in {None, 0} /\ Start(x, w) \in {None, 0}
    <3>1. Start(x, w) = 0
      BY <1>1, <2>4, <2>7, PastIs, IngestAssumption DEF IngestAssumption
    <3>2. Direction(x, w)[1] = "open" /\ Direction(x, w)[2] \in {"short", "long"}
          /\ DOMAIN Direction(x, w) = 1 .. 2
      BY <3>1 DEF Direction
    <3>3. \A i \in DOMAIN Direction(x, w) : Direction(x, w)[i] \notin ClosingWords
      BY <3>2 DEF ClosingWords
    <3>4. StatedDirection(Direction(x, w)) = None
      BY <3>3 DEF StatedDirection
    <3> QED BY <2>1, <2>7, <3>4 DEF LiquidatedSide
  <2> QED BY <2>5, <2>6, <2>7
<1> HIDE DEF e, r, ctx
<1> QED BY <1>1, <1>2, <1>3, <1>4 DEF IsTrue, PositionEvents, e, r, ctx

\* Whatever the detector states of a job is true.
LEMMA StatedIsTrue ==
  ASSUME market \in Seq(Executions), tracked \in Registries(PastOf(market)),
         NEW job \in Jobs(market), NEW e \in Stated(job)
  PROVE  IsTrue(e, market)
<1>1. /\ job.kind \in {"trade", "fill", "liquidation"} /\ job.x \in Range(market)
      /\ job.wallet \in {job.x.buyer, job.x.seller}
  BY DEF Jobs
<1>2. CASE job.kind = "trade"
  BY <1>1, <1>2, TradeIsTrue DEF Stated, Jobs
<1>3. CASE job.kind = "fill"
  BY <1>1, <1>3, FillIsTrue DEF Stated
<1>4. CASE job.kind = "liquidation"
  BY <1>1, <1>4, LiquidationIsTrue DEF Stated, Jobs
<1> QED BY <1>1, <1>2, <1>3, <1>4

\* A change of position has a side of before or after it.
LEMMA ChangeIsTrue ==
  ASSUME NEW m \in Seq(Executions), NEW w \in Wallets, NEW before \in Past(m, w) \cup {None},
         NEW after \in Past(m, w), NEW e \in Changes(w, before, after)
  PROVE  IsTrue(e, m)
<1>1. before # None /\ after # before /\ e = PositionChange(w, before, after)
  BY DEF Changes
<1>2. before \in Int /\ after \in Int
  BY <1>1, PastIs
<1>3. /\ e.wallet = w /\ e.pos = SideOf(after)
      /\ e.side = SideOf(IF after = 0 THEN before ELSE after)
      /\ e.type \in PositionEvents
  BY <1>1 DEF PositionChange, PositionEvents
<1>4. e.side \in Sides(m, w) /\ e.pos \in Sides(m, w) \cup {None}
  BY <1>1, <1>2, <1>3, SideOfIs
<1>5. e.type \notin {"WHALE_TRADE", "WHALE_LIQUIDATED"}
  BY <1>3 DEF PositionEvents
<1> QED BY <1>3, <1>4, <1>5 DEF IsTrue

-----------------------------------------------------------------------------
(* The invariant.                                                          *)

\* What a worker does is about a job, and what it writes is true.
WorkerOk(s, m) ==
  /\ s.at \in {"idle", "fetch", "context", "persist"}
  /\ s.at # "idle" => s.job \in Jobs(m)
  /\ s.at = "fetch" => s.asked \in 0 .. Len(m)
  /\ s.at = "persist" => IsTrue(s.event, m)

WorkersInv ==
  /\ worker = [k \in Workers |-> worker[k]]
  /\ \A k \in Workers : WorkerOk(worker[k], market)

\* An identity is claimed by one row, or by one worker that writes one.
ClaimsInv ==
  /\ \A e \in Rows : IdentityKey(e) \in identities
  /\ \A e, f \in Rows : IdentityKey(e) = IdentityKey(f) => e = f
  /\ \A k \in Workers : worker[k].at = "persist" =>
       /\ IdentityKey(worker[k].event) \in identities
       /\ \A e \in Rows : IdentityKey(e) # IdentityKey(worker[k].event)
       /\ \A l \in Workers \ {k} :
            worker[l].at = "persist" => IdentityKey(worker[l].event) # IdentityKey(worker[k].event)

\* What was written is true and was written once.
RowsInv ==
  /\ \A e \in Rows : IsTrue(e, market) /\ recorded[e] = 1
  /\ alerts \subseteq Rows
  /\ DOMAIN table = Wallets
  /\ \A w \in Wallets : table[w].side \in Sides(market, w) \cup {None}

FeedInv ==
  /\ market \in Seq(Executions)
  /\ cfg \in Configs
  /\ tracked \in Registries(PastOf(market))
  /\ cfg.watch \subseteq Pins(tracked)
  /\ queue \in Seq(Jobs(market))

IngestInv == FeedInv /\ WorkersInv /\ ClaimsInv /\ RowsInv

-----------------------------------------------------------------------------
(* The steps of the workers.                                               *)

LEMMA AfterwardsOk ==
  ASSUME NEW m \in Seq(Executions), NEW job \in Jobs(m), NEW event, m = market
  PROVE  /\ WorkerOk(Afterwards(job, event), m) /\ Afterwards(job, event).at # "persist"
         /\ WorkerOk(Fetching(job), m) /\ Fetching(job).at # "persist"
         /\ WorkerOk(Enriched(job), m) /\ Enriched(job).at # "persist"
         /\ WorkerOk(Idle, m) /\ Idle.at # "persist"
<1>1. Len(m) \in 0 .. Len(m)
  OBVIOUS
<1>2. WorkerOk(Idle, m) /\ Idle.at = "idle"
  BY DEF WorkerOk, Idle
<1>3. WorkerOk(Fetching(job), m) /\ Fetching(job).at = "fetch"
  BY <1>1 DEF WorkerOk, Fetching
<1>4. WorkerOk(Stating(job), m) /\ Stating(job).at = "context"
  BY DEF WorkerOk, Stating
<1>5. Afterwards(job, event) \in {Stating(job), Fetching(job), Idle}
  BY DEF Afterwards
<1>6. Enriched(job) \in {Stating(job), Idle}
  BY DEF Enriched
<1> QED BY <1>2, <1>3, <1>4, <1>5, <1>6

\* A worker goes on without claiming anything; it may have claimed before.
LEMMA GoesOn ==
  ASSUME WorkersInv, ClaimsInv, NEW k \in Workers, NEW s, WorkerOk(s, market), s.at # "persist",
         worker' = [worker EXCEPT ![k] = s],
         UNCHANGED <<market, recorded>>,
         \/ identities' = identities
         \/ worker[k].at = "persist" /\ identities' = identities \ {IdentityKey(worker[k].event)}
  PROVE  WorkersInv' /\ ClaimsInv'
<1>1. /\ worker' = [l \in Workers |-> worker'[l]]
      /\ worker'[k] = s /\ \A l \in Workers \ {k} : worker'[l] = worker[l]
  BY DEF WorkersInv
<1>2. WorkersInv'
  BY <1>1 DEF WorkersInv
<1>3. Rows' = Rows
  BY DEF Rows
<1>4. ClaimsInv'
  BY <1>1, <1>3 DEF ClaimsInv
<1> QED BY <1>2, <1>4

\* A worker claims the identity of a true event, or goes on.
LEMMA EmitKeeps ==
  ASSUME WorkersInv, ClaimsInv, market \in Seq(Executions), NEW k \in Workers,
         worker[k].at # "persist", NEW job \in Jobs(market), NEW event, IsTrue(event, market),
         Emit(k, job, event), UNCHANGED <<market, recorded>>
  PROVE  WorkersInv' /\ ClaimsInv'
<1> DEFINE s == [at |-> "persist", job |-> job, asked |-> 0, event |-> event]
<1>1. \/ /\ identities' = identities
         /\ worker' = [worker EXCEPT ![k] = Afterwards(job, event)]
      \/ /\ IdentityKey(event) \notin identities
         /\ identities' = identities \cup {IdentityKey(event)}
         /\ worker' = [worker EXCEPT ![k] = s]
  BY DEF Emit
<1>2. CASE identities' = identities /\ worker' = [worker EXCEPT ![k] = Afterwards(job, event)]
  BY <1>2, AfterwardsOk, GoesOn
<1>3. CASE /\ IdentityKey(event) \notin identities
           /\ identities' = identities \cup {IdentityKey(event)}
           /\ worker' = [worker EXCEPT ![k] = s]
  <2>1. s.at = "persist" /\ s.event = event /\ WorkerOk(s, market)
    BY DEF WorkerOk
  <2> HIDE DEF s
  <2>2. /\ worker' = [l \in Workers |-> worker'[l]]
        /\ worker'[k] = s /\ \A l \in Workers \ {k} : worker'[l] = worker[l]
    BY <1>3 DEF WorkersInv
  <2>3. WorkersInv'
    BY <2>1, <2>2 DEF WorkersInv
  <2>4. Rows' = Rows
    BY DEF Rows
  <2>5. ClaimsInv'
    BY <1>3, <2>1, <2>2, <2>4 DEF ClaimsInv
  <2> QED BY <2>3, <2>5
<1> QED BY <1>1, <1>2, <1>3

LEMMA TakeKeeps ==
  ASSUME IngestInv, NEW k \in Workers, Take(k)
  PROVE  IngestInv'
<1> DEFINE job == Head(queue)
<1>1. /\ worker[k].at = "idle" /\ queue # <<>> /\ queue' = Tail(queue)
      /\ UNCHANGED <<market, cfg, tracked, recorded, alerts, table>>
  BY DEF Take, rows
<1>2. job \in Jobs(market) /\ queue' \in Seq(Jobs(market))
  BY <1>1 DEF IngestInv, FeedInv
<1>3. FeedInv'
  BY <1>1, <1>2 DEF IngestInv, FeedInv
<1>4. RowsInv'
  BY <1>1 DEF IngestInv, RowsInv, Rows
<1>5. CASE \E event \in Stated(job) : Emit(k, job, event)
  <2>1. PICK event \in Stated(job) : Emit(k, job, event)
    BY <1>5
  <2>2. IsTrue(event, market)
    BY <1>2, StatedIsTrue DEF IngestInv, FeedInv
  <2> HIDE DEF job
  <2>3. WorkersInv' /\ ClaimsInv'
    BY <1>1, <1>2, <2>1, <2>2, EmitKeeps DEF IngestInv, FeedInv
  <2> QED BY <1>3, <1>4, <2>3 DEF IngestInv
<1>6. CASE worker' = [worker EXCEPT ![k] = Fetching(job)] /\ UNCHANGED identities
  <2> HIDE DEF job
  <2>1. WorkersInv' /\ ClaimsInv'
    BY <1>1, <1>2, <1>6, AfterwardsOk, GoesOn DEF IngestInv, FeedInv
  <2> QED BY <1>3, <1>4, <2>1 DEF IngestInv
<1> QED BY <1>5, <1>6 DEF Take

LEMMA FetchedKeeps ==
  ASSUME IngestInv, NEW k \in Workers, Fetched(k)
  PROVE  IngestInv'
<1> DEFINE job == worker[k].job
           w == job.wallet
           before == Known(tracked, w)
<1>1. /\ worker[k].at = "fetch"
      /\ UNCHANGED <<market, cfg, queue, recorded, alerts, table>>
  BY DEF Fetched, rows
<1>2. market \in Seq(Executions)
  BY DEF IngestInv, FeedInv
<1>3. job \in Jobs(market) /\ w \in Wallets /\ worker[k].asked \in 0 .. Len(market)
  BY <1>1 DEF IngestInv, WorkersInv, WorkerOk, Jobs
<1>4. PICK position \in {HeldAfter(w)[n] : n \in worker[k].asked .. Len(market)} :
        /\ tracked' \in Applied(tracked, w, position)
        /\ \/ worker' = [worker EXCEPT ![k] = Enriched(job)] /\ UNCHANGED identities
           \/ \E event \in Changes(w, before, position) : Emit(k, job, event)
  BY DEF Fetched
<1>5. position \in Past(market, w)
  <2>1. PICK n \in worker[k].asked .. Len(market) : position = HeldAfter(w)[n]
    OBVIOUS
  <2>2. n \in 0 .. Len(market)
    BY <1>2, <1>3
  <2> HIDE DEF w
  <2> QED BY <2>1, <2>2, HeldAre DEF Past
<1>6. before \in Past(market, w) \cup {None}
  BY <1>2, <1>3, KnownIs DEF IngestInv, FeedInv, PastOf
<1> HIDE DEF job, w, before
<1>7. tracked' \in Registries(PastOf(market)) /\ Pins(tracked) \subseteq Pins(tracked')
  BY <1>2, <1>3, <1>4, <1>5, NumbersAre, AppliedKeeps DEF IngestInv, FeedInv, PastOf
<1>8. FeedInv'
  BY <1>1, <1>7 DEF IngestInv, FeedInv
<1>9. RowsInv'
  BY <1>1 DEF IngestInv, RowsInv, Rows
<1>10. WorkersInv' /\ ClaimsInv'
  <2>1. CASE worker' = [worker EXCEPT ![k] = Enriched(job)] /\ UNCHANGED identities
    BY <1>1, <1>2, <1>3, <2>1, AfterwardsOk, GoesOn DEF IngestInv
  <2>2. ASSUME NEW event \in Changes(w, before, position), Emit(k, job, event)
        PROVE  WorkersInv' /\ ClaimsInv'
    <3>1. IsTrue(event, market)
      BY <1>2, <1>3, <1>5, <1>6, ChangeIsTrue
    <3> QED BY <1>1, <1>2, <1>3, <2>2, <3>1, EmitKeeps DEF IngestInv
  <2> QED BY <1>4, <2>1, <2>2
<1> QED BY <1>8, <1>9, <1>10 DEF IngestInv

LEMMA StateEventKeeps ==
  ASSUME IngestInv, NEW k \in Workers, StateEvent(k)
  PROVE  IngestInv'
<1> DEFINE job == worker[k].job
<1>1. /\ worker[k].at = "context"
      /\ UNCHANGED <<market, cfg, tracked, queue, recorded, alerts, table>>
  BY DEF StateEvent, rows
<1>2. job \in Jobs(market)
  BY <1>1 DEF IngestInv, WorkersInv, WorkerOk
<1>3. PICK event \in Stated(job) : Emit(k, job, event)
  BY DEF StateEvent
<1> HIDE DEF job
<1>4. IsTrue(event, market)
  BY <1>2, StatedIsTrue DEF IngestInv, FeedInv
<1>5. WorkersInv' /\ ClaimsInv'
  BY <1>1, <1>2, <1>3, <1>4, EmitKeeps DEF IngestInv, FeedInv
<1>6. FeedInv' /\ RowsInv'
  BY <1>1 DEF IngestInv, FeedInv, RowsInv, Rows
<1> QED BY <1>5, <1>6 DEF IngestInv

\* A worker that only goes on.
LEMMA EndsKeep ==
  ASSUME IngestInv, NEW k \in Workers, NotFetched(k) \/ Fails(k) \/ PersistFails(k)
  PROVE  IngestInv'
<1> DEFINE job == worker[k].job
<1>1. UNCHANGED <<market, cfg, tracked, queue, recorded, alerts, table>>
  BY DEF NotFetched, Fails, PersistFails, rows
<1>2. worker[k].at \in {"fetch", "context", "persist"}
  BY DEF NotFetched, Fails, PersistFails
<1>3. market \in Seq(Executions) /\ job \in Jobs(market)
  BY <1>2 DEF IngestInv, FeedInv, WorkersInv, WorkerOk
<1>4. PICK s \in {Enriched(job), Idle, Afterwards(job, worker[k].event)} :
        /\ worker' = [worker EXCEPT ![k] = s]
        /\ \/ identities' = identities
           \/ worker[k].at = "persist" /\ identities' = identities \ {IdentityKey(worker[k].event)}
  BY DEF NotFetched, Fails, PersistFails
<1> HIDE DEF job
<1>5. WorkersInv' /\ ClaimsInv'
  BY <1>1, <1>3, <1>4, AfterwardsOk, GoesOn DEF IngestInv
<1>6. FeedInv' /\ RowsInv'
  BY <1>1 DEF IngestInv, FeedInv, RowsInv, Rows
<1> QED BY <1>5, <1>6 DEF IngestInv

\* What is written of a position is a side the wallet was on.
LEMMA RowAfterIs ==
  ASSUME RowsInv, NEW e, IsTrue(e, market)
  PROVE  RowAfter(e).side \in Sides(market, e.wallet) \cup {None}
<1> DEFINE stated == IF e.pos # None THEN e.pos ELSE e.side
           side == IF stated \in {"LONG", "SHORT"} THEN stated ELSE table[e.wallet].side
<1>1. e.wallet \in Wallets /\ table[e.wallet].side \in Sides(market, e.wallet) \cup {None}
  BY DEF RowsInv, IsTrue
<1>2. MayModifyPosition(e) => stated \in Sides(market, e.wallet)
  BY DEF MayModifyPosition, IsTrue
<1> HIDE DEF stated
<1>3. MayModifyPosition(e) => side \in Sides(market, e.wallet) \cup {None}
  BY <1>1, <1>2
<1> HIDE DEF side
<1>4. RowAfter(e) = IF MayModifyPosition(e) /\ side # None
                    THEN [side |-> side, open |-> e.type # "POSITION_CLOSED"]
                    ELSE table[e.wallet]
  BY DEF RowAfter, side, stated
<1> QED BY <1>1, <1>3, <1>4

\* The claim passes from the worker to the row it wrote.
LEMMA PersistKeeps ==
  ASSUME IngestInv, NEW k \in Workers, Persist(k)
  PROVE  IngestInv'
<1> DEFINE job == worker[k].job
           e == worker[k].event
           s == Afterwards(job, e)
<1>1. /\ worker[k].at = "persist"
      /\ UNCHANGED <<market, cfg, tracked, queue, identities>>
      /\ recorded' = recorded (+) SetToBag({e})
      /\ table' = [table EXCEPT ![e.wallet] = RowAfter(e)]
      /\ alerts' = alerts \/ alerts' = alerts \cup {e}
      /\ worker' = [worker EXCEPT ![k] = s]
  BY DEF Persist
<1>2. market \in Seq(Executions) /\ job \in Jobs(market) /\ IsTrue(e, market)
  BY <1>1 DEF IngestInv, FeedInv, WorkersInv, WorkerOk
<1> HIDE DEF job, e, s
<1>3. WorkerOk(s, market) /\ s.at # "persist"
  BY <1>2, AfterwardsOk DEF s
<1>4. /\ worker' = [l \in Workers |-> worker'[l]]
      /\ worker'[k] = s /\ \A l \in Workers \ {k} : worker'[l] = worker[l]
  BY <1>1 DEF IngestInv, WorkersInv
<1>5. WorkersInv'
  BY <1>1, <1>3, <1>4 DEF IngestInv, WorkersInv
<1>6. /\ IdentityKey(e) \in identities
      /\ \A f \in Rows : IdentityKey(f) # IdentityKey(e)
      /\ \A l \in Workers \ {k} :
           worker[l].at = "persist" => IdentityKey(worker[l].event) # IdentityKey(e)
  BY <1>1 DEF IngestInv, ClaimsInv, e
<1>7. Rows' = Rows \cup {e} /\ e \notin Rows
  BY <1>1, <1>6 DEF Rows, BagToSet, SetToBag, (+)
<1>8. \A f \in Rows' : recorded'[f] = 1
  <2>1. \A f \in Rows : recorded[f] = 1
    BY DEF IngestInv, RowsInv
  <2>2. DOMAIN recorded = Rows
    BY DEF Rows, BagToSet
  <2>3. recorded' = [f \in Rows \cup {e} |-> (IF f \in Rows THEN recorded[f] ELSE 0)
                                             + (IF f \in {e} THEN 1 ELSE 0)]
    BY <1>1, <2>2 DEF SetToBag, (+)
  <2> QED BY <1>7, <2>1, <2>3
<1>9. ClaimsInv'
  BY <1>1, <1>3, <1>4, <1>6, <1>7 DEF IngestInv, ClaimsInv
<1>10. RowsInv'
  <2>1. \A f \in Rows' : IsTrue(f, market')
    BY <1>1, <1>2, <1>7 DEF IngestInv, RowsInv
  <2>2. alerts' \subseteq Rows'
    BY <1>1, <1>7 DEF IngestInv, RowsInv
  <2>3. RowAfter(e).side \in Sides(market, e.wallet) \cup {None}
    BY <1>2, RowAfterIs DEF IngestInv
  <2>4. /\ DOMAIN table' = Wallets
        /\ \A w \in Wallets : table'[w].side \in Sides(market', w) \cup {None}
    BY <1>1, <2>3 DEF IngestInv, RowsInv
  <2> QED BY <1>8, <2>1, <2>2, <2>4 DEF RowsInv
<1>11. FeedInv'
  BY <1>1 DEF IngestInv, FeedInv
<1> QED BY <1>5, <1>9, <1>10, <1>11 DEF IngestInv

-----------------------------------------------------------------------------
(* The steps of the exchange, the feeds and the settings.                  *)

LEMMA MatchKeeps ==
  ASSUME IngestInv, NEW x \in Executions, Match(x)
  PROVE  IngestInv'
<1>1. /\ market' = Append(market, x) /\ market \in Seq(Executions)
      /\ UNCHANGED <<cfg, tracked, queue, worker, identities, recorded, alerts, table>>
  BY DEF Match, rows, IngestInv, FeedInv
<1>2. /\ market' \in Seq(Executions)
      /\ \A w \in Wallets : Sides(market, w) \subseteq Sides(market', w)
      /\ Jobs(market) \subseteq Jobs(market')
      /\ Registries(PastOf(market)) \subseteq Registries(PastOf(market'))
      /\ \A e : IsTrue(e, market) => IsTrue(e, market')
  BY <1>1, StaysTrue
<1>3. Seq(Jobs(market)) \subseteq Seq(Jobs(market'))
  BY <1>2
<1>4. FeedInv'
  BY <1>1, <1>2, <1>3 DEF IngestInv, FeedInv
<1>5. Len(market) \in Nat /\ Len(market') = Len(market) + 1
  BY <1>1
<1>6. \A k \in Workers : WorkerOk(worker[k], market')
  BY <1>2, <1>5 DEF IngestInv, WorkersInv, WorkerOk
<1>7. WorkersInv' /\ ClaimsInv'
  BY <1>1, <1>6 DEF IngestInv, WorkersInv, ClaimsInv, Rows
<1>8. RowsInv'
  BY <1>1, <1>2 DEF IngestInv, RowsInv, Rows
<1> QED BY <1>4, <1>7, <1>8 DEF IngestInv

\* The registry and the queue change; nothing that was written or is worked on.
LEMMA FeedsKeep ==
  ASSUME IngestInv, FeedInv',
         UNCHANGED <<market, worker, identities, recorded, alerts, table>>
  PROVE  IngestInv'
BY DEF IngestInv, WorkersInv, ClaimsInv, RowsInv, Rows

LEMMA OfferKeeps ==
  ASSUME queue \in Seq(Jobs(market)), NEW job \in Jobs(market), Offer(job)
  PROVE  queue' \in Seq(Jobs(market))
BY DEF Offer

LEMMA MarketFrameKeeps ==
  ASSUME IngestInv, NEW x \in Range(market), MarketFrame(x)
  PROVE  IngestInv'
<1> DEFINE job == [kind |-> "trade", x |-> x, wallet |-> Subject(x)]
<1>1. /\ UNCHANGED <<market, cfg, worker, identities, recorded, alerts, table>>
      /\ tracked' \in ObservedBoth(tracked, x) \/ UNCHANGED tracked
      /\ Offer(job) \/ UNCHANGED queue
  BY DEF MarketFrame, rows
<1>2. /\ market \in Seq(Executions) /\ queue \in Seq(Jobs(market)) /\ cfg \in Configs
      /\ tracked \in Registries(PastOf(market)) /\ cfg.watch \subseteq Pins(tracked)
  BY DEF IngestInv, FeedInv
<1>3. x.buyer \in Wallets /\ x.seller \in Wallets
  BY <1>2, ExecutionsAre
<1>4. job \in Jobs(market)
  BY <1>2, <1>3, TakersAre DEF Jobs
<1> HIDE DEF job
<1>5. queue' \in Seq(Jobs(market))
  BY <1>1, <1>2, <1>4, OfferKeeps
<1>6. tracked' \in Registries(PastOf(market)) /\ Pins(tracked) \subseteq Pins(tracked')
  <2>1. ASSUME tracked' \in ObservedBoth(tracked, x)
        PROVE  tracked' \in Registries(PastOf(market)) /\ Pins(tracked) \subseteq Pins(tracked')
    <3>1. PICK t \in Observed(tracked, x.buyer) : tracked' \in Observed(t, x.seller)
      BY <2>1 DEF ObservedBoth
    <3>2. t \in Registries(PastOf(market)) /\ Pins(tracked) \subseteq Pins(t)
      BY <1>2, <1>3, ObservedKeeps
    <3>3. tracked' \in Registries(PastOf(market)) /\ Pins(t) \subseteq Pins(tracked')
      BY <1>3, <3>1, <3>2, ObservedKeeps
    <3> QED BY <3>2, <3>3
  <2> QED BY <1>1, <1>2, <2>1
<1>7. FeedInv'
  BY <1>1, <1>2, <1>5, <1>6 DEF FeedInv
<1> QED BY <1>1, <1>7, FeedsKeep

LEMMA UserFrameKeeps ==
  ASSUME IngestInv, NEW x \in Range(market), NEW w \in {x.buyer, x.seller}, UserFrame(x, w)
  PROVE  IngestInv'
<1> DEFINE kind == IF x.forced # None THEN "liquidation" ELSE "fill"
           job == [kind |-> kind, x |-> x, wallet |-> w]
<1>1. /\ UNCHANGED <<market, cfg, tracked, worker, identities, recorded, alerts, table>>
      /\ Offer(job) \/ UNCHANGED queue
  BY DEF UserFrame, rows
<1>2. market \in Seq(Executions) /\ queue \in Seq(Jobs(market))
  BY DEF IngestInv, FeedInv
<1>3. w \in Wallets
  BY <1>2, ExecutionsAre
<1>4. kind \in {"fill", "liquidation"} /\ (kind = "liquidation" => x.forced # None)
  OBVIOUS
<1> HIDE DEF kind
<1>5. job \in Jobs(market)
  BY <1>3, <1>4 DEF Jobs
<1> HIDE DEF job
<1>6. FeedInv'
  BY <1>1, <1>2, <1>5, OfferKeeps DEF IngestInv, FeedInv
<1> QED BY <1>1, <1>6, FeedsKeep

LEMMA ConfigChangeKeeps ==
  ASSUME IngestInv, ConfigChange
  PROVE  IngestInv'
<1>1. /\ cfg' \in Configs /\ tracked' \in Pinned(tracked, cfg'.watch)
      /\ UNCHANGED <<market, queue, worker, identities, recorded, alerts, table>>
  BY DEF ConfigChange, rows
<1>2. cfg'.watch \in SUBSET Wallets /\ IsFiniteSet(cfg'.watch)
  BY <1>1, IngestAssumption DEF IngestAssumption
<1>3. tracked' \in Registries(PastOf(market)) /\ cfg'.watch \subseteq Pins(tracked')
  BY <1>1, <1>2, PinnedKeeps DEF IngestInv, FeedInv
<1>4. FeedInv'
  BY <1>1, <1>3 DEF IngestInv, FeedInv
<1> QED BY <1>1, <1>4, FeedsKeep

LEMMA PruneKeeps ==
  ASSUME IngestInv, Prune
  PROVE  IngestInv'
<1>1. PICK gone \in SUBSET {t \in Range(tracked) : ~t.pinned /\ t.snap \in {None, 0}} :
        tracked' = Without(tracked, {t.address : t \in gone})
  BY DEF Prune
<1> DEFINE lost == {t.address : t \in gone}
<1>2. UNCHANGED <<market, cfg, queue, worker, identities, recorded, alerts, table>>
  BY DEF Prune, rows
<1>3. tracked \in Registries(PastOf(market)) /\ cfg.watch \subseteq Pins(tracked)
  BY DEF IngestInv, FeedInv
<1>4. DOMAIN tracked = 1 .. Len(tracked) /\ Distinct(tracked)
  BY <1>3 DEF Registries
<1>5. \A t \in gone : \E i \in 1 .. Len(tracked) : t = tracked[i] /\ ~tracked[i].pinned
  BY <1>4 DEF Range
<1>6. Pins(tracked) \cap lost = {}
  BY <1>4, <1>5 DEF Pins, Distinct
<1> HIDE DEF lost
<1>7. tracked' \in Registries(PastOf(market)) /\ Pins(tracked) \subseteq Pins(tracked')
  BY <1>1, <1>3, <1>6, WithoutKeeps DEF lost
<1>8. FeedInv'
  BY <1>2, <1>3, <1>7 DEF IngestInv, FeedInv
<1> QED BY <1>2, <1>8, FeedsKeep

-----------------------------------------------------------------------------
(* The theorems.                                                           *)

LEMMA IngestInit == Init => IngestInv
<1> SUFFICES ASSUME Init PROVE IngestInv
  OBVIOUS
<1> USE DEF Init
<1>1. market \in Seq(Executions) /\ queue \in Seq(Jobs(market)) /\ cfg \in Configs
  OBVIOUS
<1>2. tracked \in Registries(PastOf(market)) /\ cfg.watch \subseteq Pins(tracked)
  <2>1. <<>> \in Registries(PastOf(market))
    BY DEF Registries, Distinct
  <2>2. cfg.watch \in SUBSET Wallets /\ IsFiniteSet(cfg.watch)
    BY <1>1, IngestAssumption DEF IngestAssumption
  <2> QED BY <2>1, <2>2, PinnedKeeps
<1>3. FeedInv
  BY <1>1, <1>2 DEF FeedInv
<1>4. Rows = {}
  BY DEF Rows, EmptyBag, SetToBag, BagToSet
<1>5. WorkersInv /\ ClaimsInv
  BY <1>4 DEF WorkersInv, ClaimsInv, WorkerOk, Idle
<1>6. RowsInv
  BY <1>4 DEF RowsInv, NoRow
<1> QED BY <1>3, <1>5, <1>6 DEF IngestInv

LEMMA IngestStep == IngestInv /\ [Next]_vars => IngestInv'
<1> SUFFICES ASSUME IngestInv, [Next]_vars PROVE IngestInv'
  OBVIOUS
<1>1. CASE UNCHANGED vars
  <2>1. UNCHANGED <<market, cfg, tracked, queue, worker, identities, recorded, alerts, table>>
    BY <1>1 DEF vars
  <2>2. FeedInv'
    BY <2>1 DEF IngestInv, FeedInv
  <2> QED BY <2>1, <2>2, FeedsKeep
<1>2. CASE \E x \in Executions : Match(x)
  BY <1>2, MatchKeeps
<1>3. CASE \E x \in Range(market) : MarketFrame(x)
  BY <1>3, MarketFrameKeeps
<1>4. CASE \E x \in Range(market) : \E w \in {x.buyer, x.seller} : UserFrame(x, w)
  BY <1>4, UserFrameKeeps
<1>5. ASSUME NEW k \in Workers, Work(k)
      PROVE  IngestInv'
  BY <1>5, TakeKeeps, FetchedKeeps, StateEventKeeps, EndsKeep, PersistKeeps DEF Work
<1>6. CASE ConfigChange \/ Prune
  BY <1>6, ConfigChangeKeeps, PruneKeeps
<1> QED BY <1>1, <1>2, <1>3, <1>4, <1>5, <1>6 DEF Next

LEMMA IngestAlways == Spec => []IngestInv
BY IngestInit, IngestStep, PTL DEF Spec

\* Every wallet of the watch list stays tracked and pinned: WalletTracker.pin
\* adds and pins the whole list before it returns, and touch, _enforce_capacity
\* and prune never take a pin away or evict a pinned wallet.
THEOREM IngestWatchedAreTracked == Spec => []WatchedAreTracked
<1>1. IngestInv => WatchedAreTracked
  <2> SUFFICES ASSUME IngestInv, NEW w \in cfg.watch
               PROVE  \E t \in Range(tracked) : t.address = w /\ t.pinned
    BY DEF WatchedAreTracked
  <2>1. tracked \in Registries(PastOf(market)) /\ w \in Pins(tracked)
    BY DEF IngestInv, FeedInv
  <2>2. PICK i \in 1 .. Len(tracked) : tracked[i].address = w /\ tracked[i].pinned
    BY <2>1 DEF Pins
  <2>3. tracked[i] \in Range(tracked)
    BY <2>1 DEF Registries, Range
  <2> QED BY <2>2, <2>3
<1> QED BY <1>1, IngestAlways, PTL

\* The positions table shows a wallet on no side it was never on:
\* _persist_position writes what a verified snapshot says and nothing that is
\* only known of an execution or a liquidation.
THEOREM IngestRowWasHeld == Spec => []RowWasHeld
<1>1. IngestInv => RowWasHeld
  BY SidesAre DEF IngestInv, FeedInv, RowsInv, RowWasHeld
<1> QED BY <1>1, IngestAlways, PTL

\* Every alert is true of an execution there was: the wallet had the part in it
\* that _process_trade, _process_fill or _process_liquidation gives it, and what
\* the tracker adds from an older snapshot is a position it had.
THEOREM IngestAlertIsTrue == Spec => []AlertIsTrue
<1>1. IngestInv => AlertIsTrue
  <2> SUFFICES ASSUME IngestInv PROVE AlertIsTrue
    OBVIOUS
  <2>1. \A w \in Wallets : SidesHeld(w) = Sides(market, w)
    BY SidesAre DEF IngestInv, FeedInv
  <2>2. alerts \subseteq Rows /\ \A e \in Rows : IsTrue(e, market)
    BY DEF IngestInv, RowsInv
  <2> QED BY <2>1, <2>2 DEF AlertIsTrue, IsTrue
<1> QED BY <1>1, IngestAlways, PTL

\* The part of a participant in an execution is one row, and a liquidation is
\* one, however often, on whatever feeds and in whatever order the fills come:
\* an identity is claimed before the row is written and is given back only when
\* the write failed.
THEOREM IngestOneAlertPerExecution == Spec => []OneAlertPerExecution
<1>1. IngestInv => OneAlertPerExecution
  <2> SUFFICES ASSUME IngestInv, NEW e \in Rows, NEW f \in Rows,
                      e.type \notin PositionEvents, f.type = e.type, f.tid = e.tid, f.role = e.role
               PROVE  e = f /\ recorded[e] = 1
    BY DEF OneAlertPerExecution
  <2>1. recorded[e] = 1 /\ e.type \in {"WHALE_TRADE", "WHALE_LIQUIDATED"}
    BY DEF IngestInv, RowsInv, IsTrue
  <2>2. IdentityKey(e) = IdentityKey(f)
    BY <2>1 DEF IdentityKey
  <2>3. e = f
    BY <2>2 DEF IngestInv, ClaimsInv
  <2> QED BY <2>1, <2>3
<1> QED BY <1>1, IngestAlways, PTL
-----------------------------------------------------------------------------
(* The ingest implements RecordOnce.                                       *)

HasRow(part) == \E e \in Rows : IdentityKey(e) = part

\* How many rows there are of a part, by whether there is one.
Tallied ==
  \A part \in PartKeys :
    /\ Copies(part) = {} <=> ~HasRow(part)
    /\ Cardinality(Copies(part)) = IF HasRow(part) THEN 1 ELSE 0

LEMMA InvTallies == IngestInv => Tallied
<1> SUFFICES ASSUME IngestInv, NEW part \in PartKeys
             PROVE  /\ Copies(part) = {} <=> ~HasRow(part)
                    /\ Cardinality(Copies(part)) = IF HasRow(part) THEN 1 ELSE 0
  BY DEF Tallied
<1>1. ASSUME ~HasRow(part)
      PROVE  Copies(part) = {} /\ Cardinality(Copies(part)) = 0
  <2>1. Copies(part) = {}
    BY <1>1 DEF Copies, HasRow
  <2> QED BY <2>1, FS_EmptySet
<1>2. ASSUME HasRow(part)
      PROVE  Copies(part) # {} /\ Cardinality(Copies(part)) = 1
  <2>1. PICK e \in Rows : IdentityKey(e) = part
    BY <1>2 DEF HasRow
  <2>2. \A f \in Rows : IdentityKey(f) = part <=> f = e
    BY <2>1 DEF IngestInv, ClaimsInv
  <2>3. {f \in Rows : IdentityKey(f) = part} = {e}
    BY <2>1, <2>2
  <2>4. recorded[e] = 1
    BY <2>1 DEF IngestInv, RowsInv
  <2>5. Copies(part) = {e} \X (1 .. 1)
    BY <2>3, <2>4 DEF Copies
  <2>6. 1 .. 1 = {1}
    OBVIOUS
  <2>7. Copies(part) = {<<e, 1>>}
    BY <2>5, <2>6
  <2> QED BY <2>7, FS_Singleton
<1> QED BY <1>1, <1>2

LEMMA RecordsNone == Init => Recorder!Init
<1> SUFFICES ASSUME Init PROVE Recorder!Init
  OBVIOUS
<1>1. Tallied
  BY IngestInit, InvTallies
<1>2. Rows = {}
  BY DEF Init, Rows, BagToSet, EmptyBag, SetToBag
<1>3. \A part \in PartKeys : Copies(part) = {} /\ Cardinality(Copies(part)) = 0
  BY <1>1, <1>2 DEF Tallied, HasRow
<1> QED BY <1>3 DEF Recorder!Init, Recorder!Absent

\* A commit records a part of which there is no row.
LEMMA PersistRecords ==
  ASSUME IngestInv, Tallied, Tallied', NEW k \in Workers, Persist(k)
  PROVE  \/ \E part \in PartKeys : Recorder!Record(part)
         \/ \A part \in PartKeys : /\ Copies(part)' = {} <=> Copies(part) = {}
                                   /\ Cardinality(Copies(part))' = Cardinality(Copies(part))
<1> DEFINE e == worker[k].event
<1>0. PICK new : new = IdentityKey(e)
  OBVIOUS
<1>1. Rows' = Rows \cup {e}
  BY DEF Persist, Rows, BagToSet, SetToBag, (+)
<1>2. \A f \in Rows : IdentityKey(f) # new
  BY <1>0 DEF IngestInv, ClaimsInv, Persist
<1> DEFINE was(part) == HasRow(part)
           is(part)  == \E f \in Rows \cup {e} : IdentityKey(f) = part
<1>3. \A part \in PartKeys :
        /\ Copies(part)' = {} <=> ~is(part)
        /\ Cardinality(Copies(part))' = IF is(part) THEN 1 ELSE 0
  BY <1>1 DEF Tallied, HasRow
<1>4. \A part \in PartKeys :
        /\ Copies(part) = {} <=> ~was(part)
        /\ Cardinality(Copies(part)) = IF was(part) THEN 1 ELSE 0
  BY DEF Tallied
<1>5. \A part \in PartKeys : is(part) <=> was(part) \/ part = new
  BY <1>0 DEF HasRow
<1>6. ~was(new)
  BY <1>2 DEF HasRow
<1> HIDE DEF was, is, e
<1>7. CASE new \notin PartKeys
  BY <1>3, <1>4, <1>5, <1>7
<1>8. CASE new \in PartKeys
  <2> DEFINE row == [part \in PartKeys |-> IF Copies(part) = {} THEN -1 ELSE 0]
             kept == [part \in PartKeys |-> Cardinality(Copies(part))]
  <2>1. row[new] \notin 0 .. 0
    BY <1>4, <1>6, <1>8
  <2>2. row' = [row EXCEPT ![new] = 0]
    <3>1. \A part \in PartKeys : row'[part] = IF part = new THEN 0 ELSE row[part]
      BY <1>3, <1>4, <1>5
    <3> QED BY <3>1
  <2>3. kept' = [kept EXCEPT ![new] = @ + 1]
    <3>1. \A part \in PartKeys : kept'[part] = IF part = new THEN kept[new] + 1 ELSE kept[part]
      BY <1>3, <1>4, <1>5, <1>6, <1>8
    <3> QED BY <3>1
  <2>4. Recorder!Record(new)
    BY <2>1, <2>2, <2>3 DEF Recorder!Record, Recorder!Live
  <2> QED BY <1>8, <2>4
<1> QED BY <1>7, <1>8

LEMMA RecordsOn ==
  ASSUME IngestInv, Tallied, Tallied', [Next]_vars
  PROVE  [Recorder!Next]_(<<[part \in PartKeys |-> IF Copies(part) = {} THEN -1 ELSE 0],
                           [part \in PartKeys |-> Cardinality(Copies(part))]>>)
<1>1. ASSUME NEW k \in Workers, Persist(k)
      PROVE  \/ Recorder!Next
             \/ \A part \in PartKeys : /\ Copies(part)' = {} <=> Copies(part) = {}
                                       /\ Cardinality(Copies(part))' = Cardinality(Copies(part))
  BY <1>1, PersistRecords DEF Recorder!Next
<1>2. CASE recorded' = recorded
  BY <1>2 DEF Copies, Rows
<1>3. recorded' = recorded \/ \E k \in Workers : Persist(k)
  BY DEF Next, vars, rows, Match, MarketFrame, UserFrame, Work, Fails, PersistFails, NotFetched,
         Take, Fetched, StateEvent, ConfigChange, Prune
<1> QED BY <1>1, <1>2, <1>3

\* However many feeds deliver an execution, and whichever worker is at it, of each
\* part in it one row is written and no second: the workers, _emit and the claim
\* of an identity implement RecordOnce as EmitPipeline does.
THEOREM IngestRecordsOnce == Spec => RecordsOnce
<1>1. Spec => Init /\ [][Next]_vars
  BY PTL DEF Spec
<1>2. IngestInv /\ Tallied /\ Tallied' /\ [Next]_vars
        => [Recorder!Next]_(<<[part \in PartKeys |-> IF Copies(part) = {} THEN -1 ELSE 0],
                             [part \in PartKeys |-> Cardinality(Copies(part))]>>)
  BY RecordsOn
<1> QED BY <1>1, <1>2, RecordsNone, InvTallies, IngestAlways, PTL DEF RecordsOnce, Recorder!Spec

-----------------------------------------------------------------------------
(* The rules that keep no state, for any thresholds, executions and orders. *)

Thresholds == Nat \cup {None}

\* What the filter reads of a configuration, for any names of coins.
Settings(names) ==
  [whale : Nat, overrides : [Classes -> Thresholds], all_coins : BOOLEAN,
   coins : SUBSET names, monitoring : BOOLEAN, paused : BOOLEAN,
   detectors : SUBSET {"trade", "position", "order", "book"},
   order_alerts : BOOLEAN, cancel_alerts : BOOLEAN, margin : Nat]

LEMMA MinOfNats ==
  ASSUME NEW S \in SUBSET Nat, S # {}
  PROVE  Min(S) \in S /\ \A n \in S : Min(S) <= n
<1>1. PICK n \in S : \A k \in Nat : k < n => k \notin S
  BY LeastOf
<1>2. \A k \in S : n <= k
  BY <1>1
<1> QED BY <1>2 DEF Min

LEMMA LowestIsLowest ==
  ASSUME NEW conf, \A class \in Classes : ThresholdFor(conf, class) \in Nat, NEW class \in Classes
  PROVE  LowestThreshold(conf) \in Nat /\ LowestThreshold(conf) <= ThresholdFor(conf, class)
<1> DEFINE S == {ThresholdFor(conf, k) : k \in Classes}
<1>1. S \in SUBSET Nat /\ S # {} /\ ThresholdFor(conf, class) \in S
  OBVIOUS
<1>2. LowestThreshold(conf) = Min(S)
  BY DEF LowestThreshold
<1> HIDE DEF S
<1>3. Min(S) \in S /\ \A n \in S : Min(S) <= n
  BY <1>1, MinOfNats
<1>4. Min(S) \in Nat /\ Min(S) <= ThresholdFor(conf, class)
  BY <1>1, <1>3
<1> QED BY <1>2, <1>4

LEMMA ClassOf ==
  ASSUME NEW type \in EventTypes
  PROVE  ThresholdClass(KindOf(type)) \in Classes
BY DEF EventTypes, PositionEvents, OrderEvents, ExecutionEvents, RestingOrderEvents, KindOf,
       ThresholdClass, Classes

\* A finite set of numbers has a greatest one: the one with the fewest above it.
LEMMA MaxOfFinite ==
  ASSUME NEW S \in SUBSET Nat, IsFiniteSet(S), S # {}
  PROVE  Max(S) \in S /\ \A n \in S : n <= Max(S)
<1> DEFINE Above(n) == {k \in S : n < k}
           Counts == {Cardinality(Above(n)) : n \in S}
<1>1. \A n \in S : IsFiniteSet(Above(n)) /\ Cardinality(Above(n)) \in Nat
  BY FS_Subset, FS_CardinalityType
<1>2. PICK n \in S : Cardinality(Above(n)) = Min(Counts)
  <2>1. Counts \in SUBSET Nat /\ Counts # {}
    BY <1>1
  <2>2. Min(Counts) \in Counts
    <3> HIDE DEF Counts
    <3> QED BY <2>1, MinOfNats
  <2> QED BY <2>2
<1>3. \A k \in S : Min(Counts) <= Cardinality(Above(k))
  <2>1. Counts \in SUBSET Nat /\ Counts # {}
    BY <1>1
  <2>2. \A m \in Counts : Min(Counts) <= m
    <3> HIDE DEF Counts
    <3> QED BY <2>1, MinOfNats
  <2> QED BY <2>2
<1>4. ASSUME NEW k \in S, n < k PROVE FALSE
  <2>0. n \in Nat /\ k \in Nat /\ \A m \in S : m \in Nat
    OBVIOUS
  <2>1. Above(k) \subseteq Above(n) /\ k \in Above(n) /\ k \notin Above(k)
    <3> HIDE DEF Counts
    <3>1. \A m \in S : k < m => n < m
      BY <1>4, <2>0
    <3>2. Above(k) \subseteq Above(n)
      BY <3>1
    <3>3. k \in Above(n)
      BY <1>4
    <3>4. k \notin Above(k)
      BY <2>0
    <3> QED BY <3>2, <3>3, <3>4
  <2>2. Cardinality(Above(k)) <= Cardinality(Above(n)) /\ Cardinality(Above(k)) # Cardinality(Above(n))
    <3> HIDE DEF Above
    <3> QED BY <1>1, <2>1, FS_Subset
  <2>3. Cardinality(Above(n)) <= Cardinality(Above(k))
    BY <1>2, <1>3
  <2> HIDE DEF Above
  <2> QED BY <1>1, <1>4, <2>2, <2>3
<1>5. \A k \in S : k <= n
  BY <1>4
<1> QED BY <1>5 DEF Max

\* Whatever the thresholds, switches and coins: a higher threshold lets nothing
\* more through, what has executed is judged alike whether or not resting orders
\* are alerted, and the margin gate takes nothing whose margin is never known.
THEOREM FilterKeepsItsPromises ==
  ASSUME NEW names, NEW conf \in Settings(names),
         NEW event, event.type \in EventTypes, event.notional \in Nat,
         NEW n \in Nat, conf.whale <= n, NEW m \in Nat
  PROVE  /\ Accepts(event, [conf EXCEPT !.whale = n]) => Accepts(event, conf)
         /\ Category(event.type) = "execution" =>
              (Accepts(event, conf) <=> Accepts(event, [conf EXCEPT !.order_alerts = TRUE]))
         /\ event.type \in OrderEvents \cup {"WHALE_LIQUIDATED", "BOOK_LEVEL"} =>
              (Accepts(event, conf) <=> Accepts(event, [conf EXCEPT !.margin = m]))
<1> DEFINE class == ThresholdClass(KindOf(event.type))
<1>1. class \in Classes
  BY ClassOf
<1>2. \A k \in Classes : conf.overrides[k] \in Thresholds /\ conf.whale \in Nat
  BY DEF Settings
<1>3. \A k \in Classes : ThresholdFor(conf, k) \in Nat
  BY <1>2 DEF ThresholdFor, Thresholds
<1>5. Accepts(event, [conf EXCEPT !.whale = n]) => Accepts(event, conf)
  <2> DEFINE higher == [conf EXCEPT !.whale = n]
  <2>1. /\ higher.overrides = conf.overrides /\ higher.whale = n
        /\ higher.monitoring = conf.monitoring /\ higher.all_coins = conf.all_coins
        /\ higher.coins = conf.coins /\ higher.detectors = conf.detectors
        /\ higher.order_alerts = conf.order_alerts
        /\ higher.cancel_alerts = conf.cancel_alerts /\ higher.margin = conf.margin
    BY DEF Settings
  <2> HIDE DEF higher
  <2>2. ThresholdFor(conf, class) \in Nat /\ ThresholdFor(conf, class) <= ThresholdFor(higher, class)
    <3> HIDE DEF class
    <3> QED BY <1>1, <1>2, <2>1 DEF ThresholdFor, Thresholds
  <2>3. ThresholdFor(higher, class) \in Nat
    <3> HIDE DEF class
    <3> QED BY <1>1, <1>2, <2>1 DEF ThresholdFor, Thresholds
  <2>4. event.notional >= ThresholdFor(higher, class) => event.notional >= ThresholdFor(conf, class)
    <3> HIDE DEF class
    <3> QED BY <2>2, <2>3
  <2>5. Accepts(event, higher) => Accepts(event, conf)
    BY <2>1, <2>4 DEF Accepts, CoinEnabled, MarginGate
  <2> QED BY <2>5 DEF higher
<1>6. Category(event.type) = "execution" =>
        (Accepts(event, conf) <=> Accepts(event, [conf EXCEPT !.order_alerts = TRUE]))
  <2> SUFFICES ASSUME Category(event.type) = "execution"
               PROVE  Accepts(event, conf) <=> Accepts(event, [conf EXCEPT !.order_alerts = TRUE])
    OBVIOUS
  <2> DEFINE alerted == [conf EXCEPT !.order_alerts = TRUE]
  <2>1. /\ alerted.overrides = conf.overrides /\ alerted.whale = conf.whale
        /\ alerted.monitoring = conf.monitoring /\ alerted.all_coins = conf.all_coins
        /\ alerted.coins = conf.coins /\ alerted.detectors = conf.detectors
        /\ alerted.cancel_alerts = conf.cancel_alerts /\ alerted.margin = conf.margin
    BY DEF Settings
  <2>2. event.type \notin RestingOrderEvents
    BY DEF Category, RestingOrderEvents, ExecutionEvents, PositionEvents, OrderEvents
  <2> HIDE DEF alerted
  <2>3. Accepts(event, conf) <=> Accepts(event, alerted)
    BY <2>1, <2>2 DEF Accepts, CoinEnabled, MarginGate, ThresholdFor
  <2> QED BY <2>3 DEF alerted
<1>7. event.type \in OrderEvents \cup {"WHALE_LIQUIDATED", "BOOK_LEVEL"} =>
        (Accepts(event, conf) <=> Accepts(event, [conf EXCEPT !.margin = m]))
  <2> SUFFICES ASSUME event.type \in OrderEvents \cup {"WHALE_LIQUIDATED", "BOOK_LEVEL"}
               PROVE  Accepts(event, conf) <=> Accepts(event, [conf EXCEPT !.margin = m])
    OBVIOUS
  <2> DEFINE gated == [conf EXCEPT !.margin = m]
  <2>1. /\ gated.overrides = conf.overrides /\ gated.whale = conf.whale
        /\ gated.monitoring = conf.monitoring /\ gated.all_coins = conf.all_coins
        /\ gated.coins = conf.coins /\ gated.detectors = conf.detectors
        /\ gated.order_alerts = conf.order_alerts /\ gated.cancel_alerts = conf.cancel_alerts
    BY DEF Settings
  <2>2. MarginGate(event, conf) /\ MarginGate(event, gated)
    BY DEF MarginGate, MarginExemptEvents
  <2> HIDE DEF gated
  <2>3. Accepts(event, conf) <=> Accepts(event, gated)
    BY <2>1, <2>2 DEF Accepts, CoinEnabled, ThresholdFor
  <2> QED BY <2>3 DEF gated
<1> QED BY <1>5, <1>6, <1>7

\* An order of any size, as any source may show it.
SeenOrders ==
  [was : Nat \cup {None}, rest : Nat, orig : Nat,
   status : {None, "open", "filled", "canceled", "rejected", "triggered"}]

LEMMA OrderTypes ==
  ASSUME NEW source \in OrderSources, NEW order \in SeenOrders
  PROVE  OrderType(source, order) \in OrderEvents
BY DEF OrderSources, SeenOrders, OrderType, OrderEvents

\* What is told of an order is never more than the figure that admitted it, but
\* of a part that a snapshot shows to have executed.
LEMMA ToldWasCompared ==
  ASSUME NEW source \in OrderSources, NEW order \in SeenOrders,
         Shows(source, order), ~PartOfSnapshot(source, order)
  PROVE  /\ Compared(source, order) \in Nat /\ OrderNotional(source, order) \in Int
         /\ OrderNotional(source, order) <= Compared(source, order)
<1>1. /\ order.was \in Nat \cup {None} /\ order.rest \in Nat /\ order.orig \in Nat
      /\ order.status \in {None, "open", "filled", "canceled", "rejected", "triggered"}
  BY DEF SeenOrders
<1>2. order.rest <= order.orig /\ (order.was # None => order.was <= order.orig)
  BY DEF Shows
<1>3. CASE source = "frame"
  <2>1. Compared(source, order) = order.orig
    <3>1. {order.rest, order.orig} \in SUBSET Nat /\ IsFiniteSet({order.rest, order.orig})
      <4>1. IsFiniteSet({order.rest})
        BY FS_Singleton
      <4>2. {order.rest, order.orig} = {order.rest} \cup {order.orig}
        OBVIOUS
      <4>3. IsFiniteSet({order.rest} \cup {order.orig})
        BY <4>1, FS_AddElement
      <4> QED BY <1>1, <4>2, <4>3
    <3>2. /\ Max({order.rest, order.orig}) \in {order.rest, order.orig}
          /\ \A n \in {order.rest, order.orig} : n <= Max({order.rest, order.orig})
      BY <3>1, MaxOfFinite
    <3>3. Max({order.rest, order.orig}) = order.orig
      BY <1>1, <1>2, <3>2
    <3> QED BY <1>3, <3>3 DEF Compared
  <2>2. OrderNotional(source, order) = FrameNotional(order)
    BY <1>3 DEF OrderNotional
  <2>3. order.status \in {"open", "filled", "canceled", "rejected", "triggered"} /\ order.status # None
    BY <1>1, <1>3 DEF Shows
  <2>4. OrderType("frame", order) =
          IF order.status = "open"
          THEN IF order.was = None THEN "ORDER_PLACED"
               ELSE IF order.was > order.rest THEN "ORDER_PARTIALLY_FILLED" ELSE "ORDER_MODIFIED"
          ELSE IF order.status = "filled" THEN "ORDER_FILLED"
          ELSE IF order.status = "canceled" THEN "ORDER_CANCELLED"
          ELSE IF order.status = "rejected" THEN "ORDER_REJECTED" ELSE "ORDER_MODIFIED"
    BY <2>3 DEF OrderType
  <2>5. FrameNotional(order) \in Int /\ FrameNotional(order) <= order.orig
    BY <1>1, <1>2, <2>3, <2>4 DEF FrameNotional
  <2> QED BY <1>1, <2>1, <2>2, <2>5
<1>4. CASE source = "snapshot"
  <2>1. OrderNotional(source, order) = order.rest /\ Compared(source, order) = order.rest
    BY <1>4 DEF OrderNotional, SnapshotNotional, PartOfSnapshot, Compared
  <2> QED BY <1>1, <2>1
<1>5. CASE source = "vanished"
  <2>1. OrderNotional(source, order) = order.was /\ Compared(source, order) = order.was
    BY <1>5 DEF OrderNotional, Compared
  <2>2. order.was \in Nat
    BY <1>1, <1>5 DEF Shows
  <2> QED BY <2>1, <2>2
<1> QED BY <1>3, <1>4, <1>5 DEF OrderSources

\* Whatever the thresholds, set or not, and the sizes of the order: what reaches
\* the filter's threshold has reached the prefilter, whichever figure the
\* detector of its source compares.  The exception is the part of a resting order
\* that a snapshot shows to have executed.
THEOREM PrefiltersDropNothing ==
  ASSUME NEW names, NEW conf \in Settings(names)
  PROVE  /\ \A source \in SomeSources : \A type \in TypesFrom(source) :
              Prefilter(source, conf) <= Asked(type, conf)
         /\ \A source \in OrderSources, order \in SeenOrders :
              Shows(source, order) /\ ~PartOfSnapshot(source, order)
              /\ OrderNotional(source, order) >= Asked(OrderType(source, order), conf)
                => Compared(source, order) >= Prefilter(source, conf)
<1>1. \A class \in Classes : ThresholdFor(conf, class) \in Nat
  <2>1. \A k \in Classes : conf.overrides[k] \in Thresholds /\ conf.whale \in Nat
    BY DEF Settings
  <2> QED BY <2>1 DEF ThresholdFor, Thresholds
<1>2. ASSUME NEW type \in EventTypes
      PROVE  /\ Asked(type, conf) \in Nat /\ LowestThreshold(conf) \in Nat
             /\ LowestThreshold(conf) <= Asked(type, conf)
  <2>1. ThresholdClass(KindOf(type)) \in Classes
    BY ClassOf
  <2> QED BY <1>1, <2>1, LowestIsLowest DEF Asked
<1>3. ASSUME NEW source \in SomeSources, NEW type \in TypesFrom(source)
      PROVE  Prefilter(source, conf) <= Asked(type, conf)
  <2>1. CASE source = "position"
    <3>1. type \in EventTypes
      BY <2>1 DEF TypesFrom, EventTypes, OrderSources
    <3>2. Prefilter(source, conf) = LowestThreshold(conf)
      BY <2>1 DEF Prefilter, OrderSources
    <3> QED BY <1>2, <3>1, <3>2
  <2>2. CASE source \in {"trade", "fill"}
    <3>1. type = "WHALE_TRADE"
      BY <2>2 DEF TypesFrom, OrderSources
    <3>2. Asked(type, conf) = ThresholdFor(conf, "trade")
      BY <3>1 DEF Asked, KindOf, ThresholdClass, ExecutionEvents, PositionEvents, RestingOrderEvents, OrderEvents
    <3>3. ThresholdFor(conf, "trade") \in Nat
      BY <1>1 DEF Classes
    <3> QED BY <2>2, <3>2, <3>3 DEF Prefilter, OrderSources
  <2>3. CASE source = "liquidation"
    <3>1. type = "WHALE_LIQUIDATED"
      BY <2>3 DEF TypesFrom, OrderSources
    <3>2. Asked(type, conf) = ThresholdFor(conf, "position")
      BY <3>1 DEF Asked, KindOf, ThresholdClass, ExecutionEvents, PositionEvents, RestingOrderEvents, OrderEvents
    <3>3. ThresholdFor(conf, "position") \in Nat
      BY <1>1 DEF Classes
    <3> QED BY <2>3, <3>2, <3>3 DEF Prefilter, OrderSources
  <2>4. CASE source = "book"
    <3>1. type = "BOOK_LEVEL"
      BY <2>4 DEF TypesFrom, OrderSources
    <3>2. Asked(type, conf) = ThresholdFor(conf, "order")
      BY <3>1 DEF Asked, KindOf, ThresholdClass, ExecutionEvents, PositionEvents, RestingOrderEvents, OrderEvents
    <3>3. ThresholdFor(conf, "order") \in Nat
      BY <1>1 DEF Classes
    <3> QED BY <2>4, <3>2, <3>3 DEF Prefilter, OrderSources
  <2> QED BY <2>1, <2>2, <2>3, <2>4 DEF SomeSources
<1>4. ASSUME NEW source \in OrderSources, NEW order \in SeenOrders,
             Shows(source, order), ~PartOfSnapshot(source, order),
             OrderNotional(source, order) >= Asked(OrderType(source, order), conf)
      PROVE  Compared(source, order) >= Prefilter(source, conf)
  <2>1. OrderType(source, order) \in EventTypes
    BY OrderTypes DEF EventTypes
  <2>2. Prefilter(source, conf) = LowestThreshold(conf)
    BY DEF Prefilter, OrderSources
  <2>3. /\ Compared(source, order) \in Nat /\ OrderNotional(source, order) \in Int
        /\ OrderNotional(source, order) <= Compared(source, order)
    BY <1>4, ToldWasCompared
  <2>4. /\ Asked(OrderType(source, order), conf) \in Nat /\ LowestThreshold(conf) \in Nat
        /\ LowestThreshold(conf) <= Asked(OrderType(source, order), conf)
    BY <1>2, <2>1
  <2> QED BY <1>4, <2>2, <2>3, <2>4
<1> QED BY <1>3, <1>4

\* Two trades have one identity if they are the same of one participant.
LEMMA TradeIdentity ==
  ASSUME NEW event, event.type = "WHALE_TRADE"
  PROVE  IdentityKey(event) = <<"trade", event.tid, event.role>>
<1>1. "WHALE_TRADE" \notin OrderEvents \cup PositionEvents
  BY DEF OrderEvents, PositionEvents
<1> QED BY <1>1 DEF IdentityKey

\* The two feeds of an execution tell it alike, whatever each was enriched with:
\* the market's and a participant's own have one identity, one cooldown and one
\* side, the two participants and two executions have different ones, the sides
\* are opposite, and a move of another magnitude is cooled down apart.
THEOREM FeedsTellAlike ==
  ASSUME NEW x, x.buyer # x.seller, x.side \in {"A", "B"},
         NEW y, NEW ctx, NEW other, NEW w, NEW v
  PROVE  /\ \A who \in {Taker(x), Maker(x)} :
              /\ IdentityKey(FromTrade(x, who, ctx)) = IdentityKey(FromFill(x, who, other))
              /\ CooldownKey(FromTrade(x, who, ctx)) = CooldownKey(FromFill(x, who, other))
              /\ FromTrade(x, who, ctx).side = FromFill(x, who, other).side
         /\ IdentityKey(FromFill(x, Maker(x), ctx)) # IdentityKey(FromFill(x, Taker(x), other))
         /\ FromFill(x, Maker(x), ctx).side # FromFill(x, Taker(x), other).side
         /\ x.tid # y.tid =>
              /\ IdentityKey(FromTrade(x, w, ctx)) # IdentityKey(FromFill(y, v, other))
              /\ IdentityKey(FromTrade(x, w, ctx)) # IdentityKey(FromTrade(y, v, other))
         /\ MagnitudeBucket(x.notional) # MagnitudeBucket(y.notional) =>
              CooldownKey(FromTrade(x, w, ctx)) # CooldownKey(FromTrade(y, v, other))
<1>1. Taker(x) # Maker(x) /\ {Taker(x), Maker(x)} = {x.buyer, x.seller}
  BY DEF Taker, Maker
<1>2. ASSUME NEW who \in {Taker(x), Maker(x)}
      PROVE  /\ FromTrade(x, who, ctx).type = "WHALE_TRADE" /\ FromFill(x, who, other).type = "WHALE_TRADE"
             /\ FromTrade(x, who, ctx).tid = x.tid /\ FromFill(x, who, other).tid = x.tid
             /\ FromTrade(x, who, ctx).role = FromFill(x, who, other).role
             /\ FromTrade(x, who, ctx).coin = FromFill(x, who, other).coin
             /\ FromTrade(x, who, ctx).wallet = FromFill(x, who, other).wallet
             /\ FromTrade(x, who, ctx).notional = FromFill(x, who, other).notional
             /\ FromTrade(x, who, ctx).trade_side = FromFill(x, who, other).trade_side
             /\ FromTrade(x, who, ctx).side = FromFill(x, who, other).side
  <2>1. /\ FromTrade(x, who, ctx).trade_side = FromFill(x, who, other).trade_side
        /\ FromTrade(x, who, ctx).side = FromFill(x, who, other).side
    BY <1>1, <1>2 DEF FromTrade, FromFill, Taker, Maker, SideLabel, Opposite
  <2> QED BY <2>1 DEF FromTrade, FromFill
<1>3. ASSUME NEW who \in {Taker(x), Maker(x)}
      PROVE  /\ IdentityKey(FromTrade(x, who, ctx)) = IdentityKey(FromFill(x, who, other))
             /\ CooldownKey(FromTrade(x, who, ctx)) = CooldownKey(FromFill(x, who, other))
             /\ FromTrade(x, who, ctx).side = FromFill(x, who, other).side
  <2> DEFINE e == FromTrade(x, who, ctx)
             f == FromFill(x, who, other)
  <2>1. /\ e.type = "WHALE_TRADE" /\ f.type = "WHALE_TRADE"
        /\ e.tid = f.tid /\ e.role = f.role /\ e.coin = f.coin /\ e.wallet = f.wallet
        /\ e.notional = f.notional /\ e.trade_side = f.trade_side /\ e.side = f.side
    BY <1>2, <1>3
  <2> HIDE DEF e, f
  <2>2. IdentityKey(e) = IdentityKey(f)
    BY <2>1, TradeIdentity
  <2>3. CooldownKey(e) = CooldownKey(f)
    BY <2>1 DEF CooldownKey, StableSide
  <2> QED BY <2>1, <2>2, <2>3 DEF e, f
<1>4. FromFill(x, Maker(x), ctx).side # FromFill(x, Taker(x), other).side
  BY <1>1 DEF FromFill, Taker, Maker, SideLabel
<1>5. IdentityKey(FromFill(x, Maker(x), ctx)) # IdentityKey(FromFill(x, Taker(x), other))
  <2>1. /\ FromFill(x, Maker(x), ctx).type = "WHALE_TRADE"
        /\ FromFill(x, Taker(x), other).type = "WHALE_TRADE"
        /\ FromFill(x, Maker(x), ctx).role = "maker"
        /\ FromFill(x, Taker(x), other).role = "taker"
    BY <1>1 DEF FromFill
  <2> QED BY <2>1, TradeIdentity
<1>6. ASSUME x.tid # y.tid
      PROVE  /\ IdentityKey(FromTrade(x, w, ctx)) # IdentityKey(FromFill(y, v, other))
             /\ IdentityKey(FromTrade(x, w, ctx)) # IdentityKey(FromTrade(y, v, other))
  <2>1. /\ FromTrade(x, w, ctx).type = "WHALE_TRADE" /\ FromTrade(x, w, ctx).tid = x.tid
        /\ FromFill(y, v, other).type = "WHALE_TRADE" /\ FromFill(y, v, other).tid = y.tid
        /\ FromTrade(y, v, other).type = "WHALE_TRADE" /\ FromTrade(y, v, other).tid = y.tid
    BY DEF FromTrade, FromFill
  <2> QED BY <1>6, <2>1, TradeIdentity
<1>7. ASSUME MagnitudeBucket(x.notional) # MagnitudeBucket(y.notional)
      PROVE  CooldownKey(FromTrade(x, w, ctx)) # CooldownKey(FromTrade(y, v, other))
  <2>1. FromTrade(x, w, ctx).notional = x.notional /\ FromTrade(y, v, other).notional = y.notional
    BY DEF FromTrade
  <2> QED BY <1>7, <2>1 DEF CooldownKey
<1> QED BY <1>3, <1>4, <1>5, <1>6, <1>7

\* Prices of some of finitely many orders are finitely many.
LEMMA PricesFinite ==
  ASSUME NEW orders, IsFiniteSet(orders), NEW some \in SUBSET orders
  PROVE  IsFiniteSet({o.px : o \in some})
<1> DEFINE prices == {o.px : o \in some}
           price == [o \in some |-> o.px]
<1>1. IsFiniteSet(some)
  BY FS_Subset
<1>2. price \in Surjection(some, prices)
  BY DEF Surjection
<1> HIDE DEF prices, price
<1>4. IsFiniteSet(prices)
  BY <1>1, <1>2, FS_Surjection
<1> QED BY <1>4 DEF prices

LEMMA NearestFires ==
  ASSUME NEW levels \in SUBSET Nat, IsFiniteSet(levels), NEW side \in {"LONG", "SHORT"},
         NEW isTp \in BOOLEAN
  PROVE  /\ Nearest(levels, side, isTp) = None <=> levels = {}
         /\ levels # {} =>
              /\ Nearest(levels, side, isTp) \in levels
              /\ \A l \in levels : IF (side = "LONG") = isTp
                                   THEN Nearest(levels, side, isTp) <= l
                                   ELSE l <= Nearest(levels, side, isTp)
<1>1. None \notin Nat
  BY IngestAssumption DEF IngestAssumption
<1>2. CASE levels = {}
  BY <1>2 DEF Nearest
<1>3. CASE levels # {}
  BY <1>1, <1>3, MinOfNats, MaxOfFinite DEF Nearest
<1> QED BY <1>2, <1>3

\* The levels told of a wallet's orders are the first of each kind that fire.
FirstFire(orders, coin, side, mark) ==
  LET told  == ExtractTpSl(orders, coin, side, mark)
      up    == side = "LONG"
      mine  == {o \in orders : o.coin = coin /\ o.px # None}
      ahead == {o \in mine : o.kind = "TP" \/ (o.kind = "TRIGGER" /\ ((o.px > mark) <=> up))}
      back  == mine \ ahead
  IN  /\ told.tp = None <=> ahead = {}
      /\ told.sl = None <=> back = {}
      /\ ahead # {} => /\ \E o \in ahead : told.tp = o.px
                       /\ \A o \in ahead : IF up THEN told.tp <= o.px ELSE o.px <= told.tp
      /\ back # {} => /\ \E o \in back : told.sl = o.px
                      /\ \A o \in back : IF up THEN o.px <= told.sl ELSE told.sl <= o.px

\* Whatever trigger orders a wallet has: the take profit told of its position is
\* the first that fires as the price moves from the mark in its favour, the stop
\* the first as it moves against it, a trigger of unknown type counts where it
\* lies, orders of other coins and without a price do not count, and None is
\* told only where there is nothing to fire.
THEOREM FirstLevelsAreTold ==
  ASSUME NEW coin, NEW side \in {"LONG", "SHORT"}, NEW mark \in Nat,
         NEW orders, IsFiniteSet(orders),
         \A o \in orders : o.px \in Nat \cup {None} /\ o.kind \in {"TP", "SL", "TRIGGER"}
  PROVE  FirstFire(orders, coin, side, mark)
<1> DEFINE mine  == {o \in orders : o.coin = coin /\ o.px # None}
           ahead == {o \in mine : o.kind = "TP" \/ (o.kind = "TRIGGER" /\ ((o.px > mark) <=> side = "LONG"))}
           back  == mine \ ahead
           takes == {o.px : o \in ahead}
           stops == {o.px : o \in back}
<1>1. None \notin Nat
  BY IngestAssumption DEF IngestAssumption
<1>2. \A o \in mine : o.px \in Nat /\ o.kind \in {"TP", "SL", "TRIGGER"}
  OBVIOUS
<1>3. side # None /\ mark # None
  BY IngestAssumption DEF IngestAssumption
<1>4. \A o \in mine : Takes(o, side, mark) <=> o \in ahead
  BY <1>2, <1>3 DEF Takes
<1>5. \A o \in mine : Stops(o, side, mark) <=> o \in back
  <2>1. \A o \in mine : Stops(o, side, mark) <=> ~Takes(o, side, mark)
    BY <1>2, <1>3 DEF Stops, Takes
  <2> HIDE DEF mine, ahead
  <2> QED BY <2>1, <1>4
<1>6. /\ {p \in mine : Takes(p, side, mark)} = ahead
      /\ {p \in mine : Stops(p, side, mark)} = back
  <2>1. ahead \subseteq mine /\ back \subseteq mine
    OBVIOUS
  <2> HIDE DEF mine, ahead, back
  <2> QED BY <1>4, <1>5, <2>1
<1>7. /\ ExtractTpSl(orders, coin, side, mark).tp = Nearest(takes, side, TRUE)
      /\ ExtractTpSl(orders, coin, side, mark).sl = Nearest(stops, side, FALSE)
  BY <1>6 DEF ExtractTpSl
<1>8. takes \in SUBSET Nat /\ stops \in SUBSET Nat
  BY <1>2
<1>9. IsFiniteSet(takes) /\ IsFiniteSet(stops)
  <2>1. ahead \in SUBSET orders /\ back \in SUBSET orders
    OBVIOUS
  <2> HIDE DEF ahead, back
  <2> QED BY <2>1, PricesFinite
<1>10. /\ Nearest(takes, side, TRUE) = None <=> takes = {}
       /\ takes # {} =>
            /\ Nearest(takes, side, TRUE) \in takes
            /\ \A l \in takes : IF side = "LONG" THEN Nearest(takes, side, TRUE) <= l
                                ELSE l <= Nearest(takes, side, TRUE)
  <2> HIDE DEF takes
  <2> QED BY <1>8, <1>9, NearestFires
<1>11. /\ Nearest(stops, side, FALSE) = None <=> stops = {}
       /\ stops # {} =>
            /\ Nearest(stops, side, FALSE) \in stops
            /\ \A l \in stops : IF side = "LONG" THEN l <= Nearest(stops, side, FALSE)
                                ELSE Nearest(stops, side, FALSE) <= l
  <2> HIDE DEF stops
  <2>1. ~((side = "LONG") = FALSE) <=> side = "LONG"
    OBVIOUS
  <2> QED BY <1>8, <1>9, <2>1, NearestFires
<1> DEFINE told == ExtractTpSl(orders, coin, side, mark)
<1>12. /\ told.tp = None <=> ahead = {}
       /\ ahead # {} => /\ \E o \in ahead : told.tp = o.px
                        /\ \A o \in ahead : IF side = "LONG" THEN told.tp <= o.px ELSE o.px <= told.tp
  <2> HIDE DEF ahead, told
  <2>1. (takes = {} <=> ahead = {}) /\ \A o \in ahead : o.px \in takes
    OBVIOUS
  <2>2. told.tp = Nearest(takes, side, TRUE)
    BY <1>7 DEF told
  <2> QED BY <1>10, <2>1, <2>2
<1>13. /\ told.sl = None <=> back = {}
       /\ back # {} => /\ \E o \in back : told.sl = o.px
                       /\ \A o \in back : IF side = "LONG" THEN o.px <= told.sl ELSE told.sl <= o.px
  <2> HIDE DEF back, told
  <2>1. (stops = {} <=> back = {}) /\ \A o \in back : o.px \in stops
    OBVIOUS
  <2>2. told.sl = Nearest(stops, side, FALSE)
    BY <1>7 DEF told
  <2> QED BY <1>11, <2>1, <2>2
<1> HIDE DEF told, mine
<1> QED BY <1>12, <1>13 DEF FirstFire, told, mine

-----------------------------------------------------------------------------
(* Magnitudes, words and books, of any size.                               *)

LEMMA DecadesFinite == IsFiniteSet(Decades)
<1>1. \E n \in Nat : \A d \in Decades : d <= n
  <2>1. 100000000 \in Nat /\ \A d \in Decades : d <= 100000000
    BY SMT DEF Decades
  <2> QED BY <2>1, SMT
<1>2. PICK n \in Nat : \A d \in Decades : d <= n
  BY <1>1
<1>3. Decades \in SUBSET Nat
  BY SMT DEF Decades
<1> QED BY <1>2, <1>3, FS_BoundedSetOfNaturals

\* A value ten times another is told although the other was: its bucket is a
\* higher one, up to the last decade that is counted.
THEOREM TenfoldIsNews ==
  ASSUME NEW v \in Nat, NEW u \in Nat, 1 <= v, \E d \in Decades : v < d, 10 * v <= u
  PROVE  MagnitudeBucket(v) < MagnitudeBucket(u)
<1> DEFINE Reached(n) == {d \in Decades : d <= n}
           above == {d \in Decades : v < d}
<1>1. Decades \in SUBSET Nat
  BY SMT DEF Decades
<1>2. \A d \in Decades : d = 10 \/ \E k \in Decades : d = 10 * k
  BY SMT DEF Decades
<1>3. PICK d \in above : \A k \in Nat : k < d => k \notin above
  <2>1. above \in SUBSET Nat
    BY <1>1
  <2>2. above # {}
    OBVIOUS
  <2> HIDE DEF above
  <2> QED BY <2>1, <2>2, LeastOf
<1>4. d \in Decades /\ v < d /\ d <= 10 * v
  <2>1. \A k \in Decades : k < d => k <= v
    BY <1>1, <1>3, SMT
  <2>2. d \in Decades /\ v < d /\ \A k \in Decades : k \in Nat
    BY <1>1, <1>3, SMT
  <2> HIDE DEF above
  <2>3. CASE d = 10
    BY <2>2, <2>3, SMT
  <2>4. CASE \E k \in Decades : d = 10 * k
    <3>1. PICK k \in Decades : d = 10 * k
      BY <2>4
    <3>2. k \in Nat /\ k < d /\ d \in Nat
      BY <2>2, <3>1, SMT
    <3> QED BY <2>1, <2>2, <3>1, <3>2, SMT
  <2> QED BY <1>2, <2>2, <2>3, <2>4
<1>5. Reached(v) \in SUBSET Reached(u) /\ d \in Reached(u) /\ d \notin Reached(v)
  <2>1. \A n \in Decades : n \in Nat /\ (n <= v => n <= u)
    BY <1>1, SMT
  <2> HIDE DEF above
  <2> QED BY <1>4, <2>1, SMT
<1>6. IsFiniteSet(Reached(u)) /\ IsFiniteSet(Reached(v))
  BY DecadesFinite, FS_Subset
<1>7. /\ Cardinality(Reached(v)) \in Nat /\ Cardinality(Reached(u)) \in Nat
      /\ Cardinality(Reached(v)) <= Cardinality(Reached(u))
      /\ Cardinality(Reached(v)) # Cardinality(Reached(u))
  <2> HIDE DEF Reached
  <2> QED BY <1>5, <1>6, FS_Subset, FS_CardinalityType
<1> QED BY <1>7 DEF MagnitudeBucket

\* Of a description that says that something closes, the first side named is the
\* side; of one that does not, or that names no side, there is none.
SideWords == {"long", "short"}

LEMMA FirstSideCounts ==
  ASSUME NEW words, NEW length \in Nat, DOMAIN words = 1 .. length
  PROVE  /\ \A i \in 1 .. length :
              /\ words[i] \in SideWords
              /\ \A k \in 1 .. length : k < i => words[k] \notin SideWords
              /\ \E k \in 1 .. length : words[k] \in ClosingWords
              => StatedDirection(words) = IF words[i] = "long" THEN "LONG" ELSE "SHORT"
         /\ (\A k \in 1 .. length : words[k] \notin ClosingWords) => StatedDirection(words) = None
         /\ (\A k \in 1 .. length : words[k] \notin SideWords) => StatedDirection(words) = None
<1> DEFINE named == {i \in DOMAIN words : words[i] \in SideWords}
<1>1. DOMAIN words = 1 .. length
  OBVIOUS
<1>2. named \in SUBSET Nat
  BY <1>1
<1>3. ASSUME NEW i \in 1 .. length, words[i] \in SideWords,
             \A k \in 1 .. length : k < i => words[k] \notin SideWords
      PROVE  Min(named) = i
  <2>1. i \in named /\ \A k \in named : i <= k
    BY <1>1, <1>3
  <2>2. Min(named) \in named /\ \A k \in named : Min(named) <= k
    <3> HIDE DEF named
    <3> QED BY <1>2, <2>1, MinOfNats
  <2> HIDE DEF named
  <2>3. Min(named) \in Nat /\ i \in Nat /\ Min(named) <= i /\ i <= Min(named)
    BY <1>2, <2>1, <2>2
  <2> QED BY <2>3
<1>4. StatedDirection(words) =
        IF (\E i \in 1 .. length : words[i] \in ClosingWords) /\ named # {}
        THEN IF words[Min(named)] = "long" THEN "LONG" ELSE "SHORT"
        ELSE None
  BY <1>1 DEF StatedDirection, SideWords
<1>5. \A i \in 1 .. length : words[i] \in SideWords => named # {}
  BY <1>1
<1>6. (\A k \in 1 .. length : words[k] \notin SideWords) => named = {}
  BY <1>1
<1> HIDE DEF named
<1> QED BY <1>3, <1>4, <1>5, <1>6

-----------------------------------------------------------------------------
(* Books.                                                                  *)

Priced == [side : {"BUY", "SELL"}, notional : Nat]

\* What from_book has found after each level.
EventsOf(all, count, minimum) ==
  LET events[i \in 0 .. count] ==
        IF i = 0 THEN <<>>
        ELSE IF all[i].notional >= minimum /\ Len(events[i - 1]) < MaxEvents
        THEN Append(events[i - 1], all[i])
        ELSE events[i - 1]
  IN  events

LEMMA EventsAre ==
  ASSUME NEW count \in Nat, NEW all \in [1 .. count -> Priced], NEW minimum \in Nat
  PROVE  LET events == EventsOf(all, count, minimum)
         IN  /\ events \in [0 .. count -> Seq(Priced)]
             /\ events[0] = <<>>
             /\ \A i \in 1 .. count :
                  events[i] = IF all[i].notional >= minimum /\ Len(events[i - 1]) < MaxEvents
                              THEN Append(events[i - 1], all[i]) ELSE events[i - 1]
<1> DEFINE Found(i, found) == IF all[i].notional >= minimum /\ Len(found) < MaxEvents
                             THEN Append(found, all[i]) ELSE found
           step == [q \in (1 .. count) \X Seq(Priced) |-> Found(q[1], q[2])]
           Fits(f) == f = [i \in 0 .. count |-> IF i = 0 THEN <<>> ELSE Found(i, f[i - 1])]
           e == EventsOf(all, count, minimum)
<1>1. \A i \in 1 .. count, found \in Seq(Priced) : Found(i, found) \in Seq(Priced)
  OBVIOUS
<1>2. step \in [(1 .. count) \X Seq(Priced) -> Seq(Priced)]
  <2> HIDE DEF Found
  <2> QED BY <1>1
<1>3. \A i \in 1 .. count, found \in Seq(Priced) : step[<<i, found>>] = Found(i, found)
  <2> HIDE DEF Found
  <2> QED OBVIOUS
<1>4. <<>> \in Seq(Priced)
  OBVIOUS
<1> HIDE DEF step
<1>5. PICK f \in [0 .. count -> Seq(Priced)] : IsRecursive(f, count, <<>>, step)
  BY <1>2, <1>4, Recursion
<1>6. \A i \in 0 .. count : f[i] = IF i = 0 THEN <<>> ELSE Found(i, f[i - 1])
  <2> SUFFICES ASSUME NEW i \in 0 .. count
               PROVE  f[i] = IF i = 0 THEN <<>> ELSE Found(i, f[i - 1])
    OBVIOUS
  <2> HIDE DEF Found
  <2>1. f[i] = IF i = 0 THEN <<>> ELSE step[<<i, f[i - 1]>>]
    BY <1>5 DEF IsRecursive
  <2>2. i # 0 => i \in 1 .. count /\ i - 1 \in 0 .. count
    OBVIOUS
  <2> QED BY <1>3, <1>5, <2>1, <2>2
<1>7. Fits(f)
  <2> HIDE DEF Found
  <2> QED BY <1>5, <1>6
<1>8. Fits(e)
  BY <1>7 DEF EventsOf
<1> HIDE DEF e, Found
<1>9. /\ DOMAIN e = 0 .. count
      /\ e[0] = <<>>
      /\ \A i \in 1 .. count : e[i] = Found(i, e[i - 1])
  BY <1>8
<1> DEFINE G == {i \in 0 .. count : e[i] \in Seq(Priced)}
<1>10. 0 \in G
  <2>1. e[0] \in Seq(Priced) /\ 0 \in 0 .. count
    BY <1>4, <1>9
  <2> QED BY <2>1
<1>11. ASSUME NEW i \in 1 .. count, i - 1 \in G
       PROVE  i \in G
  <2>1. e[i] = Found(i, e[i - 1]) /\ e[i - 1] \in Seq(Priced) /\ i \in 0 .. count
    BY <1>9, <1>11
  <2> QED BY <1>1, <2>1
<1>12. \A i \in 0 .. count : i \in G
  <2> HIDE DEF G
  <2> QED BY <1>10, <1>11, UpTo
<1>13. e = [i \in 0 .. count |-> e[i]]
  BY <1>8, <1>9
<1>14. e \in [0 .. count -> Seq(Priced)]
  BY <1>12, <1>13
<1> QED BY <1>9, <1>14 DEF e, Found

\* The levels among the first i that are large enough, and those that are bids.
LargeTo(all, minimum, i) == {k \in 1 .. i : all[k].notional >= minimum}
BidsTo(all, minimum, i) == {k \in LargeTo(all, minimum, i) : all[k].side = "BUY"}

BidsFirst(all, count, bids) == \A k \in 1 .. count : all[k].side = "BUY" <=> k <= bids

\* One level more is one large level more, or none; and a bid more, or none.
Grows(all, minimum, bids, i) ==
  \E C, D, P, Q \in Nat :
    /\ C = Cardinality(LargeTo(all, minimum, i - 1))
    /\ D = Cardinality(LargeTo(all, minimum, i))
    /\ P = Cardinality(BidsTo(all, minimum, i - 1))
    /\ Q = Cardinality(BidsTo(all, minimum, i))
    /\ P <= C
    /\ D = C + IF all[i].notional >= minimum THEN 1 ELSE 0
    /\ i <= bids => Q = D /\ P = C
    /\ bids < i => Q = P

LEMMA LargeGrow ==
  ASSUME NEW count \in Nat, NEW all \in [1 .. count -> Priced], NEW minimum \in Nat,
         NEW bids \in 0 .. count, BidsFirst(all, count, bids),
         NEW i \in 1 .. count
  PROVE  Grows(all, minimum, bids, i)
<1> DEFINE A == LargeTo(all, minimum, i - 1)
           B == BidsTo(all, minimum, i - 1)
           A1 == LargeTo(all, minimum, i)
           B1 == BidsTo(all, minimum, i)
<1>1. A \in SUBSET (1 .. i - 1) /\ B \in SUBSET A
  BY DEF LargeTo, BidsTo
<1>2. IsFiniteSet(A) /\ Cardinality(A) \in Nat
  <2>1. IsFiniteSet(1 .. i - 1)
    <3>1. 1 \in Int /\ i - 1 \in Int
      OBVIOUS
    <3> QED BY <3>1, FS_Interval
  <2> HIDE DEF A
  <2> QED BY <1>1, <2>1, FS_Subset, FS_CardinalityType
<1>3. Cardinality(B) \in Nat /\ Cardinality(B) <= Cardinality(A)
  BY <1>1, <1>2, FS_Subset, FS_CardinalityType
<1>4. A1 = IF all[i].notional >= minimum THEN A \cup {i} ELSE A
  <2>1. 1 .. i = (1 .. i - 1) \cup {i} /\ i \notin 1 .. i - 1
    OBVIOUS
  <2> QED BY <2>1 DEF LargeTo
<1>5. i \notin A
  BY <1>1
<1>6. Cardinality(A1) = Cardinality(A) + IF all[i].notional >= minimum THEN 1 ELSE 0
  <2>1. all[i].notional >= minimum => Cardinality(A1) = Cardinality(A) + 1
    <3> HIDE DEF A, A1
    <3> QED BY <1>2, <1>4, <1>5, FS_AddElement
  <2>2. ~(all[i].notional >= minimum) => Cardinality(A1) = Cardinality(A)
    BY <1>4
  <2> HIDE DEF A, A1
  <2> QED BY <1>2, <2>1, <2>2
<1>7. i <= bids => B1 = A1 /\ B = A
  BY DEF LargeTo, BidsTo, BidsFirst
<1>8. bids < i => B1 = B
  <2>1. bids < i => all[i].side # "BUY"
    BY DEF BidsFirst
  <2>2. B1 = {k \in A1 : all[k].side = "BUY"} /\ B = {k \in A : all[k].side = "BUY"}
    BY DEF BidsTo
  <2> HIDE DEF A, A1, B, B1
  <2> QED BY <1>4, <2>1, <2>2
<1> HIDE DEF A, A1, B, B1
<1>9. /\ Cardinality(A) \in Nat /\ Cardinality(B) \in Nat /\ Cardinality(B) <= Cardinality(A)
      /\ i <= bids => Cardinality(B1) = Cardinality(A1) /\ Cardinality(B) = Cardinality(A)
      /\ bids < i => Cardinality(B1) = Cardinality(B)
  BY <1>2, <1>3, <1>7, <1>8
<1>10. /\ Cardinality(A1) \in Nat /\ Cardinality(B1) \in Nat
       /\ Cardinality(A1) = Cardinality(A) + IF all[i].notional >= minimum THEN 1 ELSE 0
  BY <1>6, <1>9
<1> QED BY <1>9, <1>10 DEF Grows, A, A1, B, B1

\* At most so many.
Capped(n) == IF n > MaxEvents THEN MaxEvents ELSE n

\* After i levels: the first of the large ones, in their order, bids first.
FoundTo(all, minimum, i, found) ==
  /\ Len(found) = Capped(Cardinality(LargeTo(all, minimum, i)))
  /\ \A j \in 1 .. Len(found) :
       /\ found[j].side = "BUY" <=> j <= Cardinality(BidsTo(all, minimum, i))
       /\ \E k \in 1 .. i : /\ found[j] = all[k] /\ all[k].notional >= minimum
                            /\ Cardinality(LargeTo(all, minimum, k)) = j

LEMMA FoundGoesOn ==
  ASSUME NEW count \in Nat, NEW all \in [1 .. count -> Priced], NEW minimum \in Nat,
         NEW bids \in 0 .. count, BidsFirst(all, count, bids),
         NEW i \in 1 .. count, NEW found \in Seq(Priced), FoundTo(all, minimum, i - 1, found)
  PROVE  FoundTo(all, minimum, i,
                 IF all[i].notional >= minimum /\ Len(found) < MaxEvents
                 THEN Append(found, all[i]) ELSE found)
<1>1. PICK C, D, P, Q \in Nat :
        /\ C = Cardinality(LargeTo(all, minimum, i - 1))
        /\ D = Cardinality(LargeTo(all, minimum, i))
        /\ P = Cardinality(BidsTo(all, minimum, i - 1))
        /\ Q = Cardinality(BidsTo(all, minimum, i))
        /\ P <= C
        /\ D = C + IF all[i].notional >= minimum THEN 1 ELSE 0
        /\ i <= bids => Q = D /\ P = C
        /\ bids < i => Q = P
  <2>1. Grows(all, minimum, bids, i)
    BY LargeGrow
  <2> QED BY <2>1 DEF Grows
<1>2. /\ C \in Nat /\ P \in Nat /\ P <= C
      /\ D = C + IF all[i].notional >= minimum THEN 1 ELSE 0
      /\ i <= bids => Q = D /\ P = C
      /\ bids < i => Q = P
  BY <1>1
<1>3. /\ Len(found) = Capped(C)
      /\ \A j \in 1 .. Len(found) : found[j].side = "BUY" <=> j <= P
      /\ \A j \in 1 .. Len(found) : \E k \in 1 .. i - 1 :
           /\ found[j] = all[k] /\ all[k].notional >= minimum
           /\ Cardinality(LargeTo(all, minimum, k)) = j
  BY <1>1 DEF FoundTo
<1>4. \A j \in 1 .. Len(found) : \E k \in 1 .. i :
        /\ found[j] = all[k] /\ all[k].notional >= minimum
        /\ Cardinality(LargeTo(all, minimum, k)) = j
  <2>1. 1 .. i - 1 \subseteq 1 .. i
    OBVIOUS
  <2> QED BY <1>3, <2>1
<1>5. CASE all[i].notional >= minimum /\ Len(found) < MaxEvents
  <2> DEFINE more == Append(found, all[i])
  <2>1. Len(found) = C /\ D = C + 1 /\ D <= MaxEvents
    BY <1>2, <1>3, <1>5 DEF Capped, MaxEvents
  <2>2. /\ Len(more) = D
        /\ more[D] = all[i]
        /\ \A j \in 1 .. C : more[j] = found[j]
    BY <1>2, <2>1
  <2>3. all[i].side = "BUY" <=> D <= Q
    <3>1. all[i].side = "BUY" <=> i <= bids
      BY DEF BidsFirst
    <3> QED BY <1>2, <2>1, <3>1
  <2>4. \A j \in 1 .. C : j <= P <=> j <= Q
    BY <1>2, <2>1
  <2> HIDE DEF more
  <2>5. ASSUME NEW j \in 1 .. Len(more)
        PROVE  /\ more[j].side = "BUY" <=> j <= Q
               /\ \E k \in 1 .. i : /\ more[j] = all[k] /\ all[k].notional >= minimum
                                    /\ Cardinality(LargeTo(all, minimum, k)) = j
    <3>1. CASE j = D
      <4>1. more[j] = all[i] /\ i \in 1 .. i /\ Cardinality(LargeTo(all, minimum, i)) = j
        BY <1>1, <2>2, <3>1
      <4>2. more[j].side = "BUY" <=> j <= Q
        BY <2>3, <3>1, <4>1
      <4> QED BY <1>5, <4>1, <4>2
    <3>2. CASE j # D
      <4>1. j \in 1 .. C
        BY <1>2, <2>1, <2>2, <3>2
      <4> QED BY <1>3, <1>4, <2>1, <2>2, <2>4, <4>1
    <3> QED BY <3>1, <3>2
  <2>6. Len(more) = Capped(D)
    BY <1>2, <2>1, <2>2 DEF Capped, MaxEvents
  <2>7. FoundTo(all, minimum, i, more)
    BY <1>1, <2>5, <2>6 DEF FoundTo
  <2> QED BY <1>5, <2>7 DEF more
<1>6. CASE ~(all[i].notional >= minimum /\ Len(found) < MaxEvents)
  <2>1. Len(found) = Capped(D)
    BY <1>2, <1>3, <1>6 DEF Capped, MaxEvents
  <2>2. \A j \in 1 .. Len(found) : j <= P <=> j <= Q
    BY <1>2, <1>3, <1>6 DEF Capped, MaxEvents
  <2>3. \A j \in 1 .. Len(found) : found[j].side = "BUY" <=> j <= Q
    BY <1>3, <2>2
  <2>4. FoundTo(all, minimum, i, found)
    BY <1>1, <1>4, <2>1, <2>3 DEF FoundTo
  <2> QED BY <1>6, <2>4
<1> QED BY <1>5, <1>6

LEMMA BookIs ==
  ASSUME NEW bids \in Seq(Nat), NEW asks \in Seq(Nat)
  PROVE  LET all == BookLevels(bids, asks)
             count == Len(bids) + Len(asks)
         IN  /\ count \in Nat /\ Len(bids) \in 0 .. count
             /\ all \in [1 .. count -> Priced]
             /\ BidsFirst(all, count, Len(bids))
             /\ \A k \in 1 .. Len(bids) : all[k].notional = bids[k]
             /\ \A k \in 1 .. Len(asks) : all[Len(bids) + k].notional = asks[k]
<1> DEFINE level(i) == IF i <= Len(bids) THEN [side |-> "BUY", notional |-> bids[i]]
                       ELSE [side |-> "SELL", notional |-> asks[i - Len(bids)]]
<1>1. PICK b, a \in Nat : b = Len(bids) /\ a = Len(asks)
  OBVIOUS
<1>2. (\A k \in 1 .. b : bids[k] \in Nat) /\ \A k \in 1 .. a : asks[k] \in Nat
  BY <1>1
<1>3. \A i \in 1 .. b : level(i) = [side |-> "BUY", notional |-> bids[i]]
  BY <1>1
<1>4. \A i \in 1 .. b + a : ~(i <= b) => /\ level(i) = [side |-> "SELL", notional |-> asks[i - b]]
                                         /\ i - b \in 1 .. a
  BY <1>1
<1> DEFINE all == BookLevels(bids, asks)
<1>5. all = [i \in 1 .. b + a |-> level(i)]
  BY <1>1 DEF BookLevels
<1> HIDE DEF level, all
<1>6. \A i \in 1 .. b + a : level(i) \in Priced /\ (level(i).side = "BUY" <=> i <= b)
  <2> SUFFICES ASSUME NEW i \in 1 .. b + a
               PROVE  level(i) \in Priced /\ (level(i).side = "BUY" <=> i <= b)
    OBVIOUS
  <2>1. CASE i <= b
    <3>1. i \in 1 .. b
      BY <2>1
    <3> QED BY <1>2, <1>3, <2>1, <3>1 DEF Priced
  <2>2. CASE ~(i <= b)
    <3>1. level(i) = [side |-> "SELL", notional |-> asks[i - b]] /\ i - b \in 1 .. a
      BY <1>4, <2>2
    <3>2. asks[i - b] \in Nat
      BY <1>2, <3>1
    <3> QED BY <2>2, <3>1, <3>2 DEF Priced
  <2> QED BY <2>1, <2>2
<1>7. all \in [1 .. b + a -> Priced] /\ BidsFirst(all, b + a, b)
  BY <1>5, <1>6 DEF BidsFirst
<1>8. \A k \in 1 .. b : all[k].notional = bids[k]
  <2>1. \A k \in 1 .. b : k \in 1 .. b + a
    OBVIOUS
  <2> QED BY <1>3, <1>5, <2>1
<1>9. \A k \in 1 .. a : all[b + k].notional = asks[k]
  <2>1. \A k \in 1 .. a : b + k \in 1 .. b + a /\ ~(b + k <= b) /\ (b + k) - b = k
    OBVIOUS
  <2> QED BY <1>4, <1>5, <2>1
<1>10. b + a \in Nat /\ b \in 0 .. b + a
  OBVIOUS
<1> QED BY <1>1, <1>7, <1>8, <1>9, <1>10 DEF all

\* How many levels of one side are large.
LargeOf(levels, minimum) == Cardinality({i \in DOMAIN levels : levels[i] >= minimum})

LEMMA LargeAdd ==
  ASSUME NEW bids \in Seq(Nat), NEW asks \in Seq(Nat), NEW minimum \in Nat
  PROVE  LET all == BookLevels(bids, asks)
             count == Len(bids) + Len(asks)
         IN  /\ LargeOf(bids, minimum) \in Nat /\ LargeOf(asks, minimum) \in Nat
             /\ Cardinality(BidsTo(all, minimum, count)) = LargeOf(bids, minimum)
             /\ Cardinality(LargeTo(all, minimum, count)) =
                  LargeOf(bids, minimum) + LargeOf(asks, minimum)
<1> DEFINE all == BookLevels(bids, asks)
<1>1. PICK b, a \in Nat : b = Len(bids) /\ a = Len(asks)
  OBVIOUS
<1>2. /\ all \in [1 .. b + a -> Priced]
      /\ BidsFirst(all, b + a, b)
      /\ \A k \in 1 .. b : all[k].notional = bids[k]
      /\ \A k \in 1 .. a : all[b + k].notional = asks[k]
  BY <1>1, BookIs
<1>3. DOMAIN bids = 1 .. b /\ DOMAIN asks = 1 .. a
  BY <1>1
<1> HIDE DEF all
<1> DEFINE X == {i \in DOMAIN bids : bids[i] >= minimum}
           Y == {i \in DOMAIN asks : asks[i] >= minimum}
           Z == {k \in b + 1 .. b + a : all[k].notional >= minimum}
           shift == [i \in Y |-> b + i]
<1>4. BidsTo(all, minimum, b + a) = X
  <2>1. \A k \in 1 .. b + a : all[k].side = "BUY" <=> k <= b
    BY <1>2 DEF BidsFirst
  <2>2. \A k : k \in 1 .. b <=> k \in 1 .. b + a /\ k <= b
    OBVIOUS
  <2> QED BY <1>2, <1>3, <2>1, <2>2 DEF BidsTo, LargeTo
<1>5. LargeTo(all, minimum, b + a) = X \cup Z
  <2>1. 1 .. b + a = (1 .. b) \cup (b + 1 .. b + a)
    OBVIOUS
  <2> QED BY <1>2, <1>3, <2>1 DEF LargeTo
<1>6. X \cap Z = {}
  BY <1>3
<1>7. X \in SUBSET (1 .. b) /\ Y \in SUBSET (1 .. a)
  BY <1>3
<1>8. IsFiniteSet(1 .. b) /\ IsFiniteSet(1 .. a)
  <2>1. 1 \in Int /\ b \in Int /\ a \in Int
    OBVIOUS
  <2> QED BY <2>1, FS_Interval
<1>9. IsFiniteSet(X) /\ IsFiniteSet(Y) /\ Cardinality(X) \in Nat /\ Cardinality(Y) \in Nat
  <2> HIDE DEF X, Y
  <2> QED BY <1>7, <1>8, FS_Subset, FS_CardinalityType
<1>10. shift \in Bijection(Y, Z)
  <2>1. \A i \in Y : b + i \in Z
    BY <1>2, <1>3
  <2>2. \A i, j \in Y : b + i = b + j => i = j
    BY <1>3
  <2>3. \A k \in Z : \E i \in Y : b + i = k
    <3> SUFFICES ASSUME NEW k \in Z PROVE \E i \in Y : b + i = k
      OBVIOUS
    <3>1. k - b \in 1 .. a /\ b + (k - b) = k
      OBVIOUS
    <3>2. k - b \in Y
      BY <1>2, <1>3, <3>1
    <3> QED BY <3>1, <3>2
  <2> HIDE DEF Y, Z
  <2>4. shift \in [Y -> Z]
    BY <2>1
  <2>5. shift \in Injection(Y, Z)
    BY <2>2, <2>4 DEF Injection, IsInjective
  <2>6. shift \in Surjection(Y, Z)
    BY <2>3, <2>4 DEF Surjection
  <2> QED BY <2>5, <2>6 DEF Bijection
<1>11. IsFiniteSet(Z) /\ Cardinality(Z) = Cardinality(Y)
  <2>1. ExistsBijection(Y, Z)
    BY <1>10 DEF ExistsBijection
  <2> HIDE DEF Y, Z
  <2> QED BY <1>9, <2>1, FS_Bijection
<1>12. Cardinality(X \cup Z) = Cardinality(X) + Cardinality(Y)
  <2> HIDE DEF X, Y, Z
  <2>1. Cardinality(X \cup Z) = Cardinality(X) + Cardinality(Z) - Cardinality(X \cap Z)
    BY <1>9, <1>11, FS_Union
  <2>2. Cardinality(X \cap Z) = 0
    BY <1>6, FS_EmptySet
  <2> QED BY <1>9, <1>11, <2>1, <2>2
<1>13. LargeOf(bids, minimum) = Cardinality(X) /\ LargeOf(asks, minimum) = Cardinality(Y)
  BY DEF LargeOf
<1> HIDE DEF X, Y, Z
<1> QED BY <1>1, <1>4, <1>5, <1>9, <1>12, <1>13 DEF all

\* A book of any size: what is told is its first large levels, each of them once
\* and in the order of the book, the bids before the asks, and all of them if
\* they are four or fewer.
THEOREM BookIsTold ==
  ASSUME NEW bids \in Seq(Nat), NEW asks \in Seq(Nat), NEW minimum \in Nat
  PROVE  LET told == FromBook(bids, asks, minimum)
             all  == BookLevels(bids, asks)
         IN  /\ told \in Seq(Priced)
             /\ Len(told) = Capped(LargeOf(bids, minimum) + LargeOf(asks, minimum))
             /\ \A j \in 1 .. Len(told) :
                  /\ told[j].side = "BUY" <=> j <= LargeOf(bids, minimum)
                  /\ \E k \in 1 .. Len(bids) + Len(asks) :
                       /\ told[j] = all[k] /\ all[k].notional >= minimum
                       /\ Cardinality(LargeTo(all, minimum, k)) = j
<1> DEFINE all == BookLevels(bids, asks)
<1>1. PICK count : count = Len(bids) + Len(asks)
  OBVIOUS
<1>2. /\ count \in Nat /\ Len(bids) \in 0 .. count
      /\ all \in [1 .. count -> Priced]
      /\ BidsFirst(all, count, Len(bids))
  BY <1>1, BookIs
<1> DEFINE events == EventsOf(all, count, minimum)
<1>3. FromBook(bids, asks, minimum) = events[count]
  BY <1>1 DEF FromBook, EventsOf
<1> HIDE DEF all
<1>4. /\ events \in [0 .. count -> Seq(Priced)]
      /\ events[0] = <<>>
      /\ \A i \in 1 .. count :
           events[i] = IF all[i].notional >= minimum /\ Len(events[i - 1]) < MaxEvents
                       THEN Append(events[i - 1], all[i]) ELSE events[i - 1]
  BY <1>2, EventsAre
<1> HIDE DEF events
<1> DEFINE G == {i \in 0 .. count : FoundTo(all, minimum, i, events[i])}
<1>5. 0 \in G
  <2>1. LargeTo(all, minimum, 0) = {}
    BY DEF LargeTo
  <2>2. Cardinality(LargeTo(all, minimum, 0)) = 0
    BY <2>1, FS_EmptySet
  <2>3. Capped(0) = 0 /\ Len(events[0]) = 0
    BY <1>4 DEF Capped, MaxEvents
  <2>4. 1 .. Len(events[0]) = {}
    BY <2>3
  <2>5. FoundTo(all, minimum, 0, events[0])
    BY <2>2, <2>3, <2>4 DEF FoundTo
  <2> QED BY <1>2, <2>5
<1>6. ASSUME NEW i \in 1 .. count, i - 1 \in G
      PROVE  i \in G
  <2>1. i - 1 \in 0 .. count /\ i \in 0 .. count /\ FoundTo(all, minimum, i - 1, events[i - 1])
    BY <1>2, <1>6
  <2>2. events[i - 1] \in Seq(Priced)
    BY <1>4, <2>1
  <2>3. FoundTo(all, minimum, i, IF all[i].notional >= minimum /\ Len(events[i - 1]) < MaxEvents
                                 THEN Append(events[i - 1], all[i]) ELSE events[i - 1])
    <3> HIDE DEF G
    <3> QED BY <1>2, <2>1, <2>2, FoundGoesOn
  <2>4. FoundTo(all, minimum, i, events[i])
    BY <1>4, <2>3
  <2> QED BY <2>1, <2>4
<1>7. count \in G
  <2> HIDE DEF G
  <2>1. \A i \in 0 .. count : i \in G
    BY <1>2, <1>5, <1>6, UpTo
  <2>2. count \in 0 .. count
    BY <1>2
  <2> QED BY <2>1, <2>2
<1>8. FoundTo(all, minimum, count, events[count]) /\ events[count] \in Seq(Priced)
  BY <1>2, <1>4, <1>7
<1>9. /\ Cardinality(BidsTo(all, minimum, count)) = LargeOf(bids, minimum)
      /\ Cardinality(LargeTo(all, minimum, count)) = LargeOf(bids, minimum) + LargeOf(asks, minimum)
  BY <1>1, LargeAdd DEF all
<1> QED BY <1>1, <1>3, <1>8, <1>9 DEF FoundTo, all

-----------------------------------------------------------------------------
(* What the runs check of the rules.                                       *)

LEMMA BucketsAre ==
  ASSUME NEW v
  PROVE  MagnitudeBucket(v) \in Nat
<1> DEFINE reached == {d \in Decades : d <= v}
<1>1. reached \in SUBSET Decades
  OBVIOUS
<1> HIDE DEF reached
<1>2. Cardinality(reached) \in Nat
  BY <1>1, DecadesFinite, FS_Subset, FS_CardinalityType
<1> QED BY <1>2 DEF MagnitudeBucket, reached

LEMMA SomeAreSettings ==
  ASSUME NEW conf \in SomeConfigs
  PROVE  conf \in Settings({"BTC"})
<1>1. conf.overrides \in [Classes -> Thresholds]
  <2>1. conf.overrides \in [Classes -> {None, 0, 2}] /\ {None, 0, 2} \subseteq Thresholds
    BY DEF SomeConfigs, Thresholds
  <2> QED BY <2>1
<1>2. /\ conf.whale \in Nat /\ conf.margin \in Nat /\ conf.coins \in SUBSET {"BTC"}
      /\ conf.detectors \in SUBSET {"trade", "position", "order", "book"}
      /\ conf.all_coins \in BOOLEAN /\ conf.monitoring \in BOOLEAN /\ conf.paused \in BOOLEAN
      /\ conf.order_alerts \in BOOLEAN /\ conf.cancel_alerts \in BOOLEAN
  <2>1. {1, 3} \subseteq Nat /\ {0, 2} \subseteq Nat
    OBVIOUS
  <2>2. /\ conf.whale \in {1, 3} /\ conf.margin \in {0, 2} /\ conf.coins \in {{"BTC"}}
        /\ conf.detectors \in {{"trade", "position", "order", "book"}}
        /\ conf.all_coins \in {FALSE} /\ conf.monitoring \in {TRUE} /\ conf.paused \in BOOLEAN
        /\ conf.order_alerts \in BOOLEAN /\ conf.cancel_alerts \in {FALSE}
    BY DEF SomeConfigs
  <2> QED BY <2>1, <2>2
<1>3. conf = [whale |-> conf.whale, overrides |-> conf.overrides, all_coins |-> conf.all_coins,
              coins |-> conf.coins, monitoring |-> conf.monitoring, paused |-> conf.paused,
              detectors |-> conf.detectors, order_alerts |-> conf.order_alerts,
              cancel_alerts |-> conf.cancel_alerts, margin |-> conf.margin]
  BY DEF SomeConfigs
<1> QED BY <1>1, <1>2, <1>3 DEF Settings

LEMMA FiltersHold == FilterHolds
<1> SUFFICES ASSUME NEW conf \in SomeConfigs, NEW event \in SomeEvents
             PROVE  /\ Category(event.type) = "execution" =>
                         (Accepts(event, conf) <=> Accepts(event, [conf EXCEPT !.order_alerts = TRUE]))
                    /\ Accepts(event, [conf EXCEPT !.whale = @ + 1]) => Accepts(event, conf)
                    /\ event.type \in OrderEvents \cup {"WHALE_LIQUIDATED", "BOOK_LEVEL"} =>
                         (Accepts(event, conf) <=> Accepts(event, [conf EXCEPT !.margin = 2]))
  BY Zenon DEF FilterHolds
<1>1. conf \in Settings({"BTC"})
  BY SomeAreSettings
<1>2. event.type \in EventTypes /\ event.notional \in Nat
  BY DEF SomeEvents
<1>3. PICK n \in Nat : n = conf.whale + 1 /\ conf.whale <= n
  BY DEF SomeConfigs
<1>4. [conf EXCEPT !.whale = @ + 1] = [conf EXCEPT !.whale = n]
  BY <1>3
<1>5. 2 \in Nat
  OBVIOUS
<1> QED BY <1>1, <1>2, <1>3, <1>4, <1>5, FilterKeepsItsPromises

LEMMA PrefiltersHold == PrefiltersHideNothing
<1>1. SomeOrders \subseteq SeenOrders
  <2>1. 0 .. 3 \subseteq Nat
    OBVIOUS
  <2> QED BY <2>1 DEF SomeOrders, SeenOrders
<1>2. ASSUME NEW conf \in SomeThresholds
      PROVE  /\ \A source \in SomeSources : \A type \in TypesFrom(source) :
                  Prefilter(source, conf) <= Asked(type, conf)
             /\ \A source \in OrderSources, order \in SomeOrders :
                  Shows(source, order) /\ ~PartOfSnapshot(source, order)
                  /\ OrderNotional(source, order) >= Asked(OrderType(source, order), conf)
                    => Compared(source, order) >= Prefilter(source, conf)
  <2>1. conf \in Settings({"BTC"})
    <3>1. conf \in SomeConfigs
      BY DEF SomeThresholds
    <3> QED BY <3>1, SomeAreSettings
  <2> QED BY <1>1, <2>1, PrefiltersDropNothing
<1> QED BY <1>2, Zenon DEF PrefiltersHideNothing

\* Two units of three execute, all thresholds are 2, and one unit is left.
LEMMA PartsAreDropped == LargePartIsDropped
<1> DEFINE conf == [whale |-> 3, overrides |-> [class \in Classes |-> 2], all_coins |-> FALSE,
                    coins |-> {"BTC"}, monitoring |-> TRUE, paused |-> FALSE,
                    detectors |-> {"trade", "position", "order", "book"},
                    order_alerts |-> TRUE, cancel_alerts |-> FALSE, margin |-> 0]
           order == [was |-> 3, rest |-> 1, orig |-> 3, status |-> "open"]
<1>1. conf \in SomeThresholds
  <2>1. [class \in Classes |-> 2] \in [Classes -> {None, 0, 2}]
    OBVIOUS
  <2>2. conf \in SomeConfigs
    BY <2>1 DEF SomeConfigs
  <2> QED BY <2>2 DEF SomeThresholds
<1>2. order \in SomeOrders
  BY DEF SomeOrders
<1>3. 3 # None
  BY IngestAssumption
<1>4. /\ Shows("snapshot", order) /\ PartOfSnapshot("snapshot", order) /\ order.rest > 0
      /\ OrderNotional("snapshot", order) = 2 /\ Compared("snapshot", order) = 1
  <2>1. /\ order.was = 3 /\ order.rest = 1 /\ order.orig = 3 /\ order.status = "open"
    OBVIOUS
  <2> HIDE DEF order
  <2>2. OrderType("snapshot", order) = "ORDER_PARTIALLY_FILLED"
    BY <1>3, <2>1 DEF OrderType
  <2>3. OrderNotional("snapshot", order) = 2 /\ Compared("snapshot", order) = 1
    BY <2>1, <2>2 DEF OrderNotional, SnapshotNotional, Compared
  <2> QED BY <2>1, <2>2, <2>3 DEF Shows, PartOfSnapshot
<1>5. \A class \in Classes : ThresholdFor(conf, class) = 2
  <2>1. 2 \notin {None, 0}
    BY IngestAssumption
  <2> QED BY <2>1 DEF ThresholdFor
<1>6. Asked("ORDER_PARTIALLY_FILLED", conf) = 2
  <2>1. "ORDER_PARTIALLY_FILLED" \in EventTypes
    BY DEF EventTypes, OrderEvents
  <2>2. ThresholdClass(KindOf("ORDER_PARTIALLY_FILLED")) \in Classes
    BY <2>1, ClassOf
  <2> QED BY <1>5, <2>2 DEF Asked
<1>7. Prefilter("snapshot", conf) = 2
  <2>1. {ThresholdFor(conf, class) : class \in Classes} = {2}
    BY <1>5 DEF Classes
  <2>2. Min({2}) = 2
    BY MinOfNats
  <2>3. LowestThreshold(conf) = 2
    BY <2>1, <2>2 DEF LowestThreshold
  <2> QED BY <2>3 DEF Prefilter, OrderSources
<1> HIDE DEF conf, order
<1>8. /\ OrderNotional("snapshot", order) >= Asked("ORDER_PARTIALLY_FILLED", conf)
      /\ Compared("snapshot", order) < Prefilter("snapshot", conf)
  BY <1>4, <1>6, <1>7
<1> QED BY <1>1, <1>2, <1>4, <1>8, Zenon DEF LargePartIsDropped

LEMMA FeedsHold == FeedsAgree
<1> SUFFICES ASSUME NEW x \in SomeExecutions, NEW y \in SomeExecutions,
                    NEW ctx \in SomeContexts, NEW other \in SomeContexts
             PROVE  LET public == FromTrade(x, Taker(x), ctx)
                        own    == FromFill(x, Taker(x), other)
                        maker  == FromFill(x, Maker(x), other)
                        next   == FromTrade(y, Taker(y), other)
                    IN  /\ IdentityKey(public) = IdentityKey(own) /\ CooldownKey(public) = CooldownKey(own)
                        /\ public.side = own.side /\ own.side # maker.side
                        /\ IdentityKey(maker) # IdentityKey(own)
                        /\ x.tid # y.tid => IdentityKey(public) # IdentityKey(next)
                        /\ x.notional # y.notional => CooldownKey(public) # CooldownKey(next)
  BY Zenon DEF FeedsAgree
<1> DEFINE public == FromTrade(x, Taker(x), ctx)
           own    == FromFill(x, Taker(x), other)
           maker  == FromFill(x, Maker(x), other)
           next   == FromTrade(y, Taker(y), other)
<1>1. /\ x.buyer # x.seller /\ x.side \in {"A", "B"}
      /\ x.notional \in {5, 50} /\ y.notional \in {5, 50}
  BY DEF SomeExecutions
<1>2. x.notional # y.notional => MagnitudeBucket(x.notional) # MagnitudeBucket(y.notional)
  <2>1. 5 \in Nat /\ 50 \in Nat /\ 1 <= 5 /\ 10 * 5 <= 50 /\ \E d \in Decades : 5 < d
    BY SMT DEF Decades
  <2>2. MagnitudeBucket(5) < MagnitudeBucket(50)
    BY <2>1, TenfoldIsNews
  <2>3. MagnitudeBucket(5) \in Nat /\ MagnitudeBucket(50) \in Nat
    BY <2>1, BucketsAre
  <2>4. MagnitudeBucket(5) # MagnitudeBucket(50)
    BY <2>2, <2>3
  <2> QED BY <1>1, <2>4
<1>3. /\ IdentityKey(public) = IdentityKey(own) /\ CooldownKey(public) = CooldownKey(own)
      /\ public.side = own.side
  BY <1>1, FeedsTellAlike
<1>4. /\ IdentityKey(maker) # IdentityKey(own)
      /\ own.side # maker.side
  BY <1>1, FeedsTellAlike
<1>5. /\ x.tid # y.tid => IdentityKey(public) # IdentityKey(next)
      /\ x.notional # y.notional => CooldownKey(public) # CooldownKey(next)
  BY <1>1, <1>2, FeedsTellAlike
<1> QED BY <1>3, <1>4, <1>5

LEMMA DirectionsHold == DirectionsRead
<1>1. StatedDirection(<<"open", "long">>) = None
  <2> DEFINE words == <<"open", "long">>
  <2>1. DOMAIN words = 1 .. 2 /\ words[1] = "open" /\ words[2] = "long"
    OBVIOUS
  <2> HIDE DEF words
  <2>2. \A k \in 1 .. 2 : words[k] \notin ClosingWords
    BY <2>1 DEF ClosingWords
  <2>3. StatedDirection(words) = None
    BY <2>1, <2>2, FirstSideCounts
  <2> QED BY <2>3 DEF words
<1>2. StatedDirection(<<"close", "long">>) = "LONG"
  <2> DEFINE words == <<"close", "long">>
  <2>1. DOMAIN words = 1 .. 2 /\ words[1] = "close" /\ words[2] = "long"
    OBVIOUS
  <2> HIDE DEF words
  <2>2. /\ 2 \in 1 .. 2 /\ words[2] \in SideWords
        /\ \A k \in 1 .. 2 : k < 2 => words[k] \notin SideWords
        /\ \E k \in 1 .. 2 : words[k] \in ClosingWords
    <3>1. 1 \in 1 .. 2 /\ words[1] \in ClosingWords
      BY <2>1 DEF ClosingWords
    <3> QED BY <2>1, <3>1 DEF SideWords
  <2>3. StatedDirection(words) = IF words[2] = "long" THEN "LONG" ELSE "SHORT"
    BY <2>1, <2>2, FirstSideCounts
  <2> QED BY <2>1, <2>3 DEF words
<1>3. StatedDirection(<<"liquidat", "short">>) = "SHORT"
  <2> DEFINE words == <<"liquidat", "short">>
  <2>1. DOMAIN words = 1 .. 2 /\ words[1] = "liquidat" /\ words[2] = "short"
    OBVIOUS
  <2> HIDE DEF words
  <2>2. /\ 2 \in 1 .. 2 /\ words[2] \in SideWords
        /\ \A k \in 1 .. 2 : k < 2 => words[k] \notin SideWords
        /\ \E k \in 1 .. 2 : words[k] \in ClosingWords
    <3>1. 1 \in 1 .. 2 /\ words[1] \in ClosingWords
      BY <2>1 DEF ClosingWords
    <3> QED BY <2>1, <3>1 DEF SideWords
  <2>3. StatedDirection(words) = IF words[2] = "long" THEN "LONG" ELSE "SHORT"
    BY <2>1, <2>2, FirstSideCounts
  <2> QED BY <2>1, <2>3 DEF words
<1>4. StatedDirection(<<"long", ">", "short">>) = "LONG"
  <2> DEFINE words == <<"long", ">", "short">>
  <2>1. DOMAIN words = 1 .. 3 /\ words[1] = "long" /\ words[2] = ">" /\ words[3] = "short"
    OBVIOUS
  <2> HIDE DEF words
  <2>2. /\ 1 \in 1 .. 3 /\ words[1] \in SideWords
        /\ \A k \in 1 .. 3 : k < 1 => words[k] \notin SideWords
        /\ \E k \in 1 .. 3 : words[k] \in ClosingWords
    <3>1. 2 \in 1 .. 3 /\ words[2] \in ClosingWords
      BY <2>1 DEF ClosingWords
    <3> QED BY <2>1, <3>1 DEF SideWords
  <2>3. StatedDirection(words) = IF words[1] = "long" THEN "LONG" ELSE "SHORT"
    BY <2>1, <2>2, FirstSideCounts
  <2> QED BY <2>1, <2>3 DEF words
<1>5. StatedDirection(<<"short", ">", "long">>) = "SHORT"
  <2> DEFINE words == <<"short", ">", "long">>
  <2>1. DOMAIN words = 1 .. 3 /\ words[1] = "short" /\ words[2] = ">" /\ words[3] = "long"
    OBVIOUS
  <2> HIDE DEF words
  <2>2. /\ 1 \in 1 .. 3 /\ words[1] \in SideWords
        /\ \A k \in 1 .. 3 : k < 1 => words[k] \notin SideWords
        /\ \E k \in 1 .. 3 : words[k] \in ClosingWords
    <3>1. 2 \in 1 .. 3 /\ words[2] \in ClosingWords
      BY <2>1 DEF ClosingWords
    <3> QED BY <2>1, <3>1 DEF SideWords
  <2>3. StatedDirection(words) = IF words[1] = "long" THEN "LONG" ELSE "SHORT"
    BY <2>1, <2>2, FirstSideCounts
  <2> QED BY <2>1, <2>3 DEF words
<1>6. StatedDirection(<<"close">>) = None
  <2> DEFINE words == <<"close">>
  <2>1. DOMAIN words = 1 .. 1 /\ words[1] = "close"
    OBVIOUS
  <2> HIDE DEF words
  <2>2. \A k \in 1 .. 1 : words[k] \notin SideWords
    BY <2>1 DEF SideWords
  <2>3. StatedDirection(words) = None
    BY <2>1, <2>2, FirstSideCounts
  <2> QED BY <2>3 DEF words
<1> QED BY <1>1, <1>2, <1>3, <1>4, <1>5, <1>6 DEF DirectionsRead

LEMMA BooksHold == BookTold
<1> DEFINE Books == UNION {[1 .. n -> {1, 2}] : n \in 0 .. 5}
<1>1. Books \subseteq Seq(Nat)
  <2> SUFFICES ASSUME NEW n \in 0 .. 5, NEW b \in [1 .. n -> {1, 2}]
               PROVE  b \in Seq(Nat)
    OBVIOUS
  <2>1. n \in Nat /\ b \in [1 .. n -> Nat]
    OBVIOUS
  <2> QED BY <2>1
<1> SUFFICES ASSUME NEW bids \in Seq(Nat), NEW asks \in Seq(Nat)
             PROVE  LET told == FromBook(bids, asks, 2)
                        large(levels) == Cardinality({i \in DOMAIN levels : levels[i] >= 2})
                        ofBids == Cardinality({i \in DOMAIN told : told[i].side = "BUY"})
                    IN  /\ Len(told) = IF large(bids) + large(asks) > 4 THEN 4 ELSE large(bids) + large(asks)
                        /\ ofBids = IF large(bids) > 4 THEN 4 ELSE large(bids)
                        /\ \A i \in DOMAIN told : told[i].notional >= 2 /\ (told[i].side = "BUY" <=> i <= ofBids)
  BY <1>1, Zenon DEF BookTold
<1> DEFINE told == FromBook(bids, asks, 2)
           bought == {i \in DOMAIN told : told[i].side = "BUY"}
<1>2. PICK B, A : B = LargeOf(bids, 2) /\ A = LargeOf(asks, 2)
  OBVIOUS
<1>3. B \in Nat /\ A \in Nat /\ 2 \in Nat
  BY <1>2, LargeAdd
<1>4. /\ told \in Seq(Priced)
      /\ Len(told) = Capped(B + A)
      /\ \A j \in 1 .. Len(told) :
           /\ told[j].side = "BUY" <=> j <= B
           /\ \E k : told[j] = BookLevels(bids, asks)[k] /\ BookLevels(bids, asks)[k].notional >= 2
  BY <1>2, <1>3, BookIsTold
<1> HIDE DEF told
<1>5. \A j \in 1 .. Len(told) : told[j].notional >= 2
  BY <1>4
<1>6. /\ DOMAIN told = 1 .. Len(told) /\ Len(told) \in Nat
      /\ Len(told) = IF B + A > 4 THEN 4 ELSE B + A
  <2>1. told \in Seq(Priced)
    BY <1>4
  <2>2. Len(told) = IF B + A > 4 THEN 4 ELSE B + A
    BY <1>4 DEF Capped, MaxEvents
  <2>3. DOMAIN told = 1 .. Len(told) /\ Len(told) \in Nat
    BY <2>1
  <2> QED BY <2>2, <2>3
<1>7. PICK F \in Nat : F = IF B > 4 THEN 4 ELSE B
  BY <1>3
<1>8. bought = 1 .. F
  <2>1. ASSUME NEW j \in 1 .. Len(told)
        PROVE  told[j].side = "BUY" <=> j <= F
    <3>1. told[j].side = "BUY" <=> j <= B
      BY <1>4
    <3>2. j <= B <=> j <= F
      BY <1>3, <1>6, <1>7
    <3> QED BY <3>1, <3>2
  <2>2. F <= Len(told)
    BY <1>3, <1>6, <1>7
  <2> QED BY <1>6, <2>1, <2>2
<1>9. Cardinality(bought) = F
  <2>1. Cardinality(1 .. F) = F
    <3>1. 1 \in Int /\ F \in Int
      OBVIOUS
    <3>2. Cardinality(1 .. F) = IF 1 > F THEN 0 ELSE F - 1 + 1
      BY <3>1, FS_Interval
    <3> QED BY <3>2
  <2> QED BY <1>8, <2>1
<1>10. \A j \in DOMAIN told : told[j].side = "BUY" <=> j <= F
  BY <1>6, <1>8
<1>11. /\ Len(told) = IF LargeOf(bids, 2) + LargeOf(asks, 2) > 4 THEN 4
                      ELSE LargeOf(bids, 2) + LargeOf(asks, 2)
       /\ Cardinality(bought) = IF LargeOf(bids, 2) > 4 THEN 4 ELSE LargeOf(bids, 2)
       /\ \A j \in DOMAIN told :
            told[j].notional >= 2 /\ (told[j].side = "BUY" <=> j <= Cardinality(bought))
  <2> HIDE DEF bought
  <2> QED BY <1>2, <1>5, <1>6, <1>7, <1>9, <1>10
<1> QED BY <1>11, Zenon DEF LargeOf, told, bought

LEMMA SomeOrdersFinite ==
  IsFiniteSet([coin : {"BTC"}, kind : {"TP", "SL", "TRIGGER"}, px : {2, 4, 5}])
<1> DEFINE Kinds == {"TP", "SL", "TRIGGER"}
           Levels == {2, 4, 5}
           Orders == [coin : {"BTC"}, kind : Kinds, px : Levels]
           order == [q \in Kinds \X Levels |-> [coin |-> "BTC", kind |-> q[1], px |-> q[2]]]
<1>1. IsFiniteSet(Kinds)
  <2>1. Kinds = (({} \cup {"TP"}) \cup {"SL"}) \cup {"TRIGGER"}
    OBVIOUS
  <2> HIDE DEF Kinds
  <2>2. IsFiniteSet({} \cup {"TP"})
    BY FS_EmptySet, FS_AddElement
  <2>3. IsFiniteSet(({} \cup {"TP"}) \cup {"SL"})
    BY <2>2, FS_AddElement
  <2>4. IsFiniteSet((({} \cup {"TP"}) \cup {"SL"}) \cup {"TRIGGER"})
    BY <2>3, FS_AddElement
  <2> QED BY <2>1, <2>4
<1>2. IsFiniteSet(Levels)
  <2>1. Levels \in SUBSET Nat /\ 5 \in Nat /\ \A l \in Levels : l <= 5
    OBVIOUS
  <2> HIDE DEF Levels
  <2> QED BY <2>1, FS_BoundedSetOfNaturals
<1>3. IsFiniteSet(Kinds \X Levels)
  <2> HIDE DEF Kinds, Levels
  <2> QED BY <1>1, <1>2, FS_Product
<1>4. order \in Surjection(Kinds \X Levels, Orders)
  <2> HIDE DEF Kinds, Levels
  <2>1. order \in [Kinds \X Levels -> Orders]
    OBVIOUS
  <2>2. ASSUME NEW o \in Orders
        PROVE  \E q \in Kinds \X Levels : order[q] = o
    <3>1. <<o.kind, o.px>> \in Kinds \X Levels
      OBVIOUS
    <3>2. o = [coin |-> "BTC", kind |-> o.kind, px |-> o.px]
      OBVIOUS
    <3>3. order[<<o.kind, o.px>>] = o
      BY <3>1, <3>2
    <3> QED BY <3>1, <3>3
  <2> QED BY <2>1, <2>2 DEF Surjection
<1>5. IsFiniteSet(Orders)
  <2> HIDE DEF order, Orders, Kinds, Levels
  <2> QED BY <1>3, <1>4, FS_Surjection
<1> QED BY <1>5

LEMMA LevelsHold == LevelsFireFirst
<1> SUFFICES ASSUME NEW orders \in SUBSET [coin : {"BTC"}, kind : {"TP", "SL", "TRIGGER"}, px : {2, 4, 5}],
                    NEW side \in {"LONG", "SHORT"}
             PROVE  LET mark  == 3
                        told  == ExtractTpSl(orders, "BTC", side, mark)
                        up    == side = "LONG"
                        ahead == {o.px : o \in {p \in orders : p.kind # "SL" /\ (p.kind = "TP" \/ (p.px > mark) = up)}}
                        back  == {o.px : o \in {p \in orders : p.kind # "TP" /\ (p.kind = "SL" \/ (p.px < mark) = up)}}
                    IN  /\ told.tp = None <=> ahead = {}
                        /\ told.sl = None <=> back = {}
                        /\ ahead # {} => FiresFirst(told.tp, ahead, mark, up)
                        /\ back # {} => FiresFirst(told.sl, back, mark, ~up)
  BY Zenon DEF LevelsFireFirst
<1> DEFINE told  == ExtractTpSl(orders, "BTC", side, 3)
           up    == side = "LONG"
           mine  == {o \in orders : o.coin = "BTC" /\ o.px # None}
           first == {o \in mine : o.kind = "TP" \/ (o.kind = "TRIGGER" /\ ((o.px > 3) <=> up))}
           rest  == mine \ first
           for == {p \in orders : p.kind # "SL" /\ (p.kind = "TP" \/ (p.px > 3) = up)}
           against == {p \in orders : p.kind # "TP" /\ (p.kind = "SL" \/ (p.px < 3) = up)}
           ahead == {o.px : o \in for}
           back  == {o.px : o \in against}
<1>1. \A o \in orders : o.coin = "BTC" /\ o.px \in {2, 4, 5} /\ o.kind \in {"TP", "SL", "TRIGGER"}
  OBVIOUS
<1>2. None \notin Nat
  BY IngestAssumption DEF IngestAssumption
<1>3. IsFiniteSet(orders)
  BY SomeOrdersFinite, FS_Subset
<1>4. /\ told.tp = None <=> first = {}
      /\ told.sl = None <=> rest = {}
      /\ first # {} => /\ \E o \in first : told.tp = o.px
                       /\ \A o \in first : IF up THEN told.tp <= o.px ELSE o.px <= told.tp
      /\ rest # {} => /\ \E o \in rest : told.sl = o.px
                      /\ \A o \in rest : IF up THEN o.px <= told.sl ELSE told.sl <= o.px
  <2>1. \A o \in orders : o.px \in Nat \cup {None} /\ o.kind \in {"TP", "SL", "TRIGGER"}
    BY <1>1
  <2>2. 3 \in Nat
    OBVIOUS
  <2>3. FirstFire(orders, "BTC", side, 3)
    BY <1>3, <2>1, <2>2, FirstLevelsAreTold
  <2> QED BY <2>3 DEF FirstFire
<1>5. mine = orders
  BY <1>1, <1>2
<1>6. \A p \in orders : p \in first <=> p \in for
  BY <1>1, <1>5
<1>7. \A p \in orders : p \in rest <=> p \in against
  BY <1>1, <1>5
<1>8. first = for /\ rest = against
  BY <1>5, <1>6, <1>7
<1> HIDE DEF told, first, rest, for, against, mine
<1>9. /\ told.tp = None <=> ahead = {}
      /\ ahead # {} => FiresFirst(told.tp, ahead, 3, up)
  BY <1>4, <1>8 DEF FiresFirst
<1>10. /\ told.sl = None <=> back = {}
       /\ back # {} => FiresFirst(told.sl, back, 3, ~up)
  BY <1>4, <1>8 DEF FiresFirst
<1> QED BY <1>9, <1>10 DEF told, for, against

\* What the filter, the prefilters, the feeds, the words of a fill, trigger orders and books are
\* found to promise of small inputs is so, each by the theorem above that is
\* about all inputs.
THEOREM IngestRulesHold == Spec => []RulesHold
<1>1. RulesHold
  BY FiltersHold, PrefiltersHold, PartsAreDropped, FeedsHold, DirectionsHold, LevelsHold, BooksHold DEF RulesHold
<1> QED BY <1>1, PTL
=============================================================================
