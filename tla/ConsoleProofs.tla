--------------------------- MODULE ConsoleProofs ---------------------------
(***************************************************************************)
(* Proofs about Console, for any users, coins, wallets, environments,      *)
(* bounds of the settings and number of requests: the tables hold what     *)
(* their columns may, memory agrees with them, a restart restores it, and  *)
(* nothing is written without authority or under a pause.                  *)
(***************************************************************************)
EXTENDS Console, TLAPS

USE ConsoleAssumption DEF ConsoleAssumption

-----------------------------------------------------------------------------
(* Types.                                                                  *)

Puts == UNION {[on : {p}, do : {"put"}, with : Domain(p)] : p \in Keys \cup {"coins"}}
RowWrites ==
  [on : {"coins"}, do : {"add", "remove"}, with : Coins]
    \cup [on : {"wallets"}, do : {"add", "remove"}, with : Wallets]
    \cup [on : {"admins"}, do : {"add", "remove"}, with : Users \ {Main}]
Writes == Puts \cup RowWrites \cup {SelectedCoins, ResetAll}

\* A part of the tables or of memory never holds what its column cannot, and no
\* setting is missing once the services have loaded.
Full(d) == d = [p \in Parts |-> d[p]] /\ \A p \in Parts : d[p] \in Domain(p)

\* A write that takes no more than an administrator's rights.
Ordinary(w) == w.on # "admins" /\ w.do # "reset"

\* Of a list of writes only coins are written in more than one step.
OfCoins(w) == w.on \in {"coins", "all_coins"} /\ w.do # "reset"

OfThePause(w) == w.on = "paused" /\ w.do # "reset"

\* What user u may have the handler write.
MayWrite(u, todo) ==
  /\ todo \in Seq(Writes)
  /\ u = Main \/ (u \in mem.admins /\ \A i \in DOMAIN todo : Ordinary(todo[i]))
  /\ Len(todo) > 1 => \A i \in DOMAIN todo : OfCoins(todo[i])
  /\ mem.paused => \A i \in DOMAIN todo : OfThePause(todo[i])

ConsoleInv ==
  /\ env \in Envs
  /\ Full(db)
  /\ Full(mem)
  /\ handler = [user |-> handler.user, todo |-> handler.todo, at |-> handler.at]
  /\ handler.at \in {"commit", "refresh"}
  /\ MayWrite(handler.user, handler.todo)
  /\ MemoryIsDatabase

-----------------------------------------------------------------------------
(* Loading.                                                                *)

LEMMA LoadedIsFull ==
  ASSUME NEW e \in Envs, NEW d, \A p \in Parts : d[p] \in Domain(p) \cup (IF p \in Keys THEN {NotSet} ELSE {})
  PROVE  Full(Loaded(e, d))
BY DEF Full, Loaded, Parts

\* Nothing is seeded into tables that are full.
LEMMA FullIsKept ==
  ASSUME NEW e \in Envs, NEW d, Full(d)
  PROVE  Loaded(e, d) = d
<1>1. \A k \in Keys : d[k] # NotSet
  BY DEF Full, Parts
<1>2. "paused" \in Keys
  BY DEF Keys
<1>3. \A p \in Parts : Loaded(e, d)[p] = d[p]
  BY <1>1, <1>2 DEF Loaded
<1> QED BY <1>3 DEF Full, Loaded

LEMMA FoundAreTables ==
  ASSUME NEW d \in Found
  PROVE  \A p \in Parts : d[p] \in Domain(p) \cup (IF p \in Keys THEN {NotSet} ELSE {})
<1>1. CASE d = NewTables
  BY <1>1 DEF NewTables, Parts, Domain, Keys
<1>2. ASSUME NEW e \in Envs, NEW co \in SUBSET (Users \ {Main}), d = OldTables(e, co)
      PROVE  \A p \in Parts : d[p] \in Domain(p) \cup (IF p \in Keys THEN {NotSet} ELSE {})
  <2> SUFFICES ASSUME NEW p \in Parts
               PROVE  d[p] \in Domain(p) \cup (IF p \in Keys THEN {NotSet} ELSE {})
    OBVIOUS
  <2>1. CASE p = "admins"
    BY <1>2, <2>1 DEF OldTables, Domain
  <2>2. CASE p \in Keys \ {"min_margin_value"}
    BY <1>2, <2>2 DEF OldTables, Keys
  <2>3. CASE p \in {"min_margin_value", "coins", "wallets"}
    BY <1>2, <2>3 DEF OldTables, NewTables, Domain, Keys
  <2> QED BY <2>1, <2>2, <2>3 DEF Parts
<1> QED BY <1>1, <1>2 DEF Found

LEMMA ConsoleInit == Init => ConsoleInv
<1> SUFFICES ASSUME Init PROVE ConsoleInv
  OBVIOUS
<1>1. PICK d \in Found : db = Loaded(env, d)
  BY DEF Init
<1>2. env \in Envs /\ Full(db) /\ mem = db
  BY <1>1, LoadedIsFull, FoundAreTables DEF Init
<1>3. handler = [user |-> Main, todo |-> <<>>, at |-> "commit"]
  BY DEF Init, Idle
<1>4. MayWrite(handler.user, handler.todo)
  BY <1>3 DEF MayWrite
<1> QED BY <1>2, <1>3, <1>4 DEF ConsoleInv, MemoryIsDatabase, Settled

-----------------------------------------------------------------------------
(* What the writes do.                                                     *)

LEMMA PartsAre ==
  /\ Keys \subseteq Parts
  /\ {"coins", "wallets", "admins", "all_coins", "paused"} \subseteq Parts
  /\ {"coins", "wallets", "admins"} \cap Keys = {}
  /\ {"all_coins", "paused"} \subseteq Keys
BY DEF Parts, Keys

LEMMA WritesAre ==
  ASSUME NEW w \in Writes
  PROVE  /\ w.on \in Parts
         /\ Touched(w) \subseteq Parts
         /\ w.do \in {"put", "add", "remove", "off", "reset"}
         /\ w.do \in {"put", "off"} => w.with \in Domain(w.on)
         /\ w.do \in {"add", "remove"} => w.on \in {"coins", "wallets", "admins"}
         /\ w.do = "add" => {w.with} \in Domain(w.on)
         /\ w.do = "reset" => w.on = "coins"
<1>1. CASE w \in Puts
  BY <1>1, PartsAre DEF Puts, Touched
<1>2. CASE w \in RowWrites
  <2>1. w.do \in {"add", "remove"}
    BY <1>2 DEF RowWrites
  <2>2. \/ w.on = "coins" /\ w.with \in Coins
        \/ w.on = "wallets" /\ w.with \in Wallets
        \/ w.on = "admins" /\ w.with \in Users \ {Main}
    BY <1>2 DEF RowWrites
  <2>3. {w.with} \in Domain(w.on)
    BY <2>2 DEF Domain
  <2> QED BY <2>1, <2>2, <2>3, PartsAre DEF Touched
<1>3. CASE w = SelectedCoins
  BY <1>3, PartsAre DEF SelectedCoins, Touched, Domain
<1>4. CASE w = ResetAll
  BY <1>4, PartsAre DEF ResetAll, Touched
<1> QED BY <1>1, <1>2, <1>3, <1>4 DEF Writes

\* A write changes the parts it touches and keeps the tables full.
LEMMA WrittenIs ==
  ASSUME env \in Envs, Full(db), NEW w \in Writes
  PROVE  /\ Full(Written(w))
         /\ \A p \in Parts \ Touched(w) : Written(w)[p] = db[p]
<1>1. CASE w.do = "reset"
  <2>1. Written(w) = [p \in Parts |-> IF p \in Keys \cup {"coins"} THEN env[p] ELSE db[p]]
    BY <1>1 DEF Written, Touched
  <2> QED BY <1>1, <2>1 DEF Full, Touched
<1>2. CASE w.do # "reset"
  <2> DEFINE v == Written(w)[w.on]
  <2>1. w.on \in Parts /\ DOMAIN db = Parts
    BY WritesAre DEF Full
  <2>2. Written(w) = [db EXCEPT ![w.on] = v]
    BY <1>2, <2>1, WritesAre DEF Written
  <2>3. v \in Domain(w.on)
    <3>1. CASE w.do \in {"put", "off"}
      BY <2>1, <3>1, WritesAre DEF Written
    <3>2. ASSUME w.do \in {"add", "remove"}
          PROVE  \E X : Domain(w.on) = SUBSET X
      BY <3>2, WritesAre DEF Domain
    <3>3. CASE w.do = "add"
      <4>1. v = db[w.on] \cup {w.with}
        BY <2>1, <3>3 DEF Written
      <4>2. db[w.on] \in Domain(w.on) /\ {w.with} \in Domain(w.on)
        BY <2>1, <3>3, WritesAre DEF Full
      <4> HIDE DEF v
      <4> QED BY <3>2, <3>3, <4>1, <4>2
    <3>4. CASE w.do = "remove"
      <4>1. v = db[w.on] \ {w.with}
        BY <2>1, <3>4 DEF Written
      <4>2. db[w.on] \in Domain(w.on)
        BY <2>1 DEF Full
      <4> HIDE DEF v
      <4> QED BY <3>2, <3>4, <4>1, <4>2
    <3> QED BY <1>2, <3>1, <3>3, <3>4, WritesAre
  <2> HIDE DEF v
  <2> QED BY <1>2, <2>1, <2>2, <2>3 DEF Full, Touched
<1> QED BY <1>1, <1>2

-----------------------------------------------------------------------------
(* What is asked for is what the one who asks may have written.            *)

\* The lists of writes that a request for a capability may begin.
Permitted(capability, whenPaused, todo) ==
  /\ todo \in Seq(Writes)
  /\ capability \in MainOnly \/ \A i \in DOMAIN todo : Ordinary(todo[i])
  /\ Len(todo) > 1 => \A i \in DOMAIN todo : OfCoins(todo[i])
  /\ whenPaused => \A i \in DOMAIN todo : OfThePause(todo[i])

LEMMA Taken ==
  ASSUME ConsoleInv, NEW u \in Users, NEW capability, NEW whenPaused \in BOOLEAN, NEW todo,
         Accepted(u, capability, whenPaused), Permitted(capability, whenPaused, todo),
         Begin(u, todo)
  PROVE  ConsoleInv' /\ UNCHANGED <<db, mem>>
<1>1. /\ UNCHANGED <<env, db, mem, lost>>
      /\ handler' = [user |-> u, todo |-> todo, at |-> "commit"]
  BY DEF Begin
<1>2. handler.at = "commit"
  BY DEF Accepted, Idle
<1>3. Settled' = Settled
  BY <1>1, <1>2 DEF Settled
<1>4. MemoryIsDatabase'
  BY <1>1, <1>3 DEF ConsoleInv, MemoryIsDatabase
<1>5. u = Main \/ (u \in mem.admins /\ capability \notin MainOnly)
  BY DEF Accepted, Can
<1>6. mem.paused => whenPaused
  BY DEF Accepted
<1>7. MayWrite(u, todo)
  BY <1>5, <1>6 DEF MayWrite, Permitted
<1>8. MayWrite(handler.user, handler.todo)'
  BY <1>1, <1>7 DEF MayWrite
<1> QED BY <1>1, <1>4, <1>8 DEF ConsoleInv, Full

LEMMA OneWrite ==
  ASSUME NEW w \in Writes, NEW capability, capability \in MainOnly \/ Ordinary(w)
  PROVE  Permitted(capability, FALSE, <<w>>)
BY DEF Permitted

LEMMA CoinWrites ==
  ASSUME NEW todo \in Seq(Writes), NEW capability, \A i \in DOMAIN todo : OfCoins(todo[i])
  PROVE  Permitted(capability, FALSE, todo)
BY DEF Permitted, OfCoins, Ordinary

LEMMA PutsAre ==
  ASSUME NEW p \in Keys \cup {"coins"}, NEW v \in Domain(p)
  PROVE  Put(p, v) \in Writes /\ Ordinary(Put(p, v))
BY PartsAre DEF Put, Writes, Puts, Ordinary

LEMMA RowsAre ==
  /\ \A c \in Coins : /\ AddTo("coins", c) \in Writes /\ OfCoins(AddTo("coins", c))
                      /\ RemoveFrom("coins", c) \in Writes /\ OfCoins(RemoveFrom("coins", c))
  /\ \A w \in Wallets : /\ AddTo("wallets", w) \in Writes /\ Ordinary(AddTo("wallets", w))
                        /\ RemoveFrom("wallets", w) \in Writes /\ Ordinary(RemoveFrom("wallets", w))
  /\ \A t \in Users \ {Main} : AddTo("admins", t) \in Writes /\ RemoveFrom("admins", t) \in Writes
  /\ SelectedCoins \in Writes /\ OfCoins(SelectedCoins)
BY DEF AddTo, RemoveFrom, SelectedCoins, Writes, RowWrites, OfCoins, Ordinary

\* Beginning with one write, or with writes to the coins.
BeginsOne(u) == \E w \in Writes : Ordinary(w) /\ Begin(u, <<w>>)
BeginsAny(u) == \E w \in Writes : Begin(u, <<w>>)
BeginsCoins(u) ==
  \E todo \in Seq(Writes) : (\A i \in DOMAIN todo : OfCoins(todo[i])) /\ Begin(u, todo)

LEMMA AmountsAreKept ==
  ASSUME NEW u
  PROVE  /\ SetThreshold(u) => BeginsOne(u)
         /\ SetMargin(u) => BeginsOne(u)
         /\ SetCooldown(u) => BeginsOne(u)
<1>1. ASSUME NEW a \in Nat
      PROVE  Clamped(a, MinThreshold, MaxThreshold) \in Amount \ {0}
  BY DEF Clamped, Amount
<1>2. ASSUME NEW s \in Int
      PROVE  Clamped(s, 0, MaxCooldown) \in 0 .. MaxCooldown
  BY DEF Clamped
<1>3. SetThreshold(u) => BeginsOne(u)
  <2>1. "min_whale_value" \in Keys /\ Domain("min_whale_value") = Amount \ {0}
    BY DEF Keys, Domain
  <2> QED BY <1>1, <2>1, PutsAre DEF SetThreshold, BeginsOne
<1>4. SetMargin(u) => BeginsOne(u)
  <2>1. "min_margin_value" \in Keys /\ Domain("min_margin_value") = Amount
    BY DEF Keys, Domain
  <2>2. \A a \in Amounts : (IF a = 0 THEN 0 ELSE Clamped(a, MinThreshold, MaxThreshold)) \in Amount
    BY <1>1 DEF Amount
  <2> QED BY <2>1, <2>2, PutsAre DEF SetMargin, BeginsOne
<1>5. SetCooldown(u) => BeginsOne(u)
  <2>1. "alert_cooldown_seconds" \in Keys /\ Domain("alert_cooldown_seconds") = 0 .. MaxCooldown
    BY DEF Keys, Domain
  <2> QED BY <1>2, <2>1, PutsAre DEF SetCooldown, BeginsOne
<1> QED BY <1>3, <1>4, <1>5

LEMMA CoinsAreKept ==
  ASSUME NEW u
  PROVE  /\ AddCoins(u, <<>>) => BeginsCoins(u)
         /\ AddCoins(u, <<SelectedCoins>>) => BeginsCoins(u)
         /\ RemoveCoins(u) => BeginsCoins(u)
         /\ SetCoins(u) => BeginsCoins(u)
         /\ ToggleCoin(u) => BeginsCoins(u)
<1>1. \A l \in CoinLists : l \in Seq(Coins)
  <2>1. \A c \in Coins : <<c>> \in Seq(Coins)
    OBVIOUS
  <2>2. \A l \in Coins \X Coins : l \in Seq(Coins)
    <3>1. \A c, d \in Coins : <<c, d>> \in Seq(Coins)
      OBVIOUS
    <3> QED BY <3>1
  <2> QED BY <2>1, <2>2 DEF CoinLists
<1>2. ASSUME NEW l \in Seq(Coins), NEW then \in {<<>>, <<SelectedCoins>>},
             Begin(u, [i \in DOMAIN l |-> AddTo("coins", l[i])] \o then)
      PROVE  BeginsCoins(u)
  <2> DEFINE s == [i \in DOMAIN l |-> AddTo("coins", l[i])]
             todo == s \o then
  <2>1. s \in Seq(Writes) /\ Len(s) = Len(l) /\ \A i \in 1 .. Len(l) : OfCoins(s[i])
    BY RowsAre
  <2>2. then \in Seq(Writes) /\ \A i \in 1 .. Len(then) : OfCoins(then[i])
    <3>1. CASE then = <<>>
      BY <3>1
    <3>2. CASE then = <<SelectedCoins>>
      BY <3>2, RowsAre
    <3> QED BY <3>1, <3>2
  <2>3. Begin(u, todo)
    BY <1>2
  <2> HIDE DEF s
  <2>4. todo \in Seq(Writes) /\ \A i \in DOMAIN todo : OfCoins(todo[i])
    BY <2>1, <2>2
  <2> HIDE DEF todo
  <2> QED BY <2>3, <2>4 DEF BeginsCoins
<1>3. ASSUME NEW l \in Seq(Coins), Begin(u, [i \in DOMAIN l |-> RemoveFrom("coins", l[i])])
      PROVE  BeginsCoins(u)
  <2> DEFINE s == [i \in DOMAIN l |-> RemoveFrom("coins", l[i])]
  <2>1. s \in Seq(Writes) /\ \A i \in DOMAIN s : OfCoins(s[i])
    BY RowsAre
  <2> QED BY <1>3, <2>1 DEF BeginsCoins
<1>4. ASSUME NEW set \in SUBSET Coins, Begin(u, <<Put("coins", set), SelectedCoins>>)
      PROVE  BeginsCoins(u)
  <2> DEFINE w == Put("coins", set)
  <2>1. w \in Writes /\ OfCoins(w)
    BY PutsAre DEF Domain, OfCoins, Put
  <2> HIDE DEF w
  <2>2. <<w, SelectedCoins>> \in Seq(Writes)
    BY <2>1, RowsAre
  <2>3. \A i \in DOMAIN <<w, SelectedCoins>> : OfCoins(<<w, SelectedCoins>>[i])
    BY <2>1, RowsAre
  <2> QED BY <1>4, <2>2, <2>3 DEF BeginsCoins, w
<1>5. ASSUME NEW w \in Writes, OfCoins(w), Begin(u, <<w>>)
      PROVE  BeginsCoins(u)
  <2>1. <<w>> \in Seq(Writes) /\ \A i \in DOMAIN <<w>> : OfCoins(<<w>>[i])
    BY <1>5
  <2> QED BY <1>5, <2>1 DEF BeginsCoins
<1>6. ToggleCoin(u) => BeginsCoins(u)
  BY <1>5, RowsAre DEF ToggleCoin
<1> QED BY <1>1, <1>2, <1>3, <1>4, <1>6 DEF AddCoins, RemoveCoins, SetCoins

LEMMA RowsAreKept ==
  ASSUME ConsoleInv, NEW u
  PROVE  /\ AddWallet(u) => BeginsOne(u)
         /\ RemoveWallet(u) => BeginsOne(u)
         /\ AddAdmin(u) => BeginsAny(u)
         /\ RemoveAdmin(u) => BeginsAny(u)
<1>1. mem.admins \subseteq Users \ {Main}
  BY PartsAre DEF ConsoleInv, Full, Domain
<1>2. AddWallet(u) => BeginsOne(u)
  BY RowsAre DEF AddWallet, BeginsOne
<1>3. RemoveWallet(u) => BeginsOne(u)
  BY RowsAre DEF RemoveWallet, BeginsOne
<1>4. AddAdmin(u) => BeginsAny(u)
  BY RowsAre DEF AddAdmin, BeginsAny
<1>5. RemoveAdmin(u) => BeginsAny(u)
  BY <1>1, RowsAre DEF RemoveAdmin, BeginsAny
<1> QED BY <1>2, <1>3, <1>4, <1>5

\* Whatever begins in one of these ways keeps the invariant.
LEMMA Begun ==
  ASSUME ConsoleInv, NEW u \in Users, NEW capability, Accepted(u, capability, FALSE),
         \/ BeginsOne(u) \/ BeginsCoins(u)
         \/ BeginsAny(u) /\ capability \in MainOnly
  PROVE  ConsoleInv' /\ UNCHANGED <<db, mem>>
<1>1. CASE BeginsOne(u)
  <2>1. PICK w \in Writes : Ordinary(w) /\ Begin(u, <<w>>)
    BY <1>1 DEF BeginsOne
  <2> QED BY <2>1, OneWrite, Taken
<1>2. CASE BeginsCoins(u)
  <2>1. PICK todo \in Seq(Writes) : (\A i \in DOMAIN todo : OfCoins(todo[i])) /\ Begin(u, todo)
    BY <1>2 DEF BeginsCoins
  <2> QED BY <2>1, CoinWrites, Taken
<1>3. CASE BeginsAny(u) /\ capability \in MainOnly
  <2>1. PICK w \in Writes : Begin(u, <<w>>)
    BY <1>3 DEF BeginsAny
  <2> QED BY <1>3, <2>1, OneWrite, Taken
<1> QED BY <1>1, <1>2, <1>3

LEMMA RequestKeeps ==
  ASSUME ConsoleInv, NEW u \in Users, Request(u)
  PROVE  ConsoleInv' /\ UNCHANGED <<db, mem>>
<1>1. CASE MonitoringRequest(u)
  <2>1. "monitoring_enabled" \in Keys /\ Domain("monitoring_enabled") = BOOLEAN
    BY DEF Keys, Domain
  <2>2. BeginsOne(u)
    BY <1>1, <2>1, PutsAre DEF MonitoringRequest, BeginsOne
  <2> QED BY <1>1, <2>2, Begun DEF MonitoringRequest
<1>2. CASE PauseRequest(u)
  <2>1. PICK on \in BOOLEAN : Accepted(u, "CONTROL_MONITORING", TRUE) /\ Begin(u, <<Put("paused", on)>>)
    BY <1>2 DEF PauseRequest
  <2>2. "paused" \in Keys /\ Domain("paused") = BOOLEAN
    BY DEF Keys, Domain
  <2>3. Put("paused", on) \in Writes /\ Ordinary(Put("paused", on)) /\ OfThePause(Put("paused", on))
    BY <2>2, PutsAre DEF OfThePause, Put
  <2>4. Permitted("CONTROL_MONITORING", TRUE, <<Put("paused", on)>>)
    BY <2>3 DEF Permitted
  <2> QED BY <2>1, <2>4, Taken
<1>3. CASE ThresholdRequest(u)
  BY <1>3, AmountsAreKept, Begun DEF ThresholdRequest
<1>4. CASE CoinRequest(u)
  <2>1. "all_coins" \in Keys /\ Domain("all_coins") = BOOLEAN /\ {} \in Domain("coins")
    BY DEF Keys, Domain
  <2>2. Begin(u, <<Put("coins", {})>>) => BeginsOne(u)
    BY <2>1, PutsAre DEF BeginsOne
  <2>3. ASSUME NEW on \in BOOLEAN
        PROVE  Begin(u, <<Put("all_coins", on)>>) => BeginsOne(u)
    BY <2>1, PutsAre DEF BeginsOne
  <2> QED BY <1>4, <2>2, <2>3, CoinsAreKept, Begun DEF CoinRequest
<1>5. CASE WalletRequest(u)
  BY <1>5, RowsAreKept, Begun DEF WalletRequest
<1>6. CASE AdminRequest(u)
  BY <1>6, RowsAreKept, Begun DEF AdminRequest, MainOnly
<1>7. CASE PublicRequest(u)
  <2>1. "public_mode" \in Keys /\ Domain("public_mode") = BOOLEAN
    BY DEF Keys, Domain
  <2>2. BeginsOne(u)
    BY <1>7, <2>1, PutsAre DEF PublicRequest, BeginsOne
  <2> QED BY <1>7, <2>2, Begun DEF PublicRequest
<1>8. CASE SettingsRequest(u)
  <2>1. "enable_order_alerts" \in Keys /\ Domain("enable_order_alerts") = BOOLEAN
    BY DEF Keys, Domain
  <2>2. Begin(u, <<Put("enable_order_alerts", ~mem.enable_order_alerts)>>) => BeginsOne(u)
    BY <2>1, PutsAre DEF BeginsOne
  <2> QED BY <1>8, <2>2, AmountsAreKept, Begun DEF SettingsRequest
<1>9. CASE ResetRequest(u)
  <2>1. ResetAll \in Writes
    BY DEF Writes
  <2>2. BeginsAny(u)
    BY <1>9, <2>1 DEF ResetRequest, BeginsAny
  <2> QED BY <1>9, <2>2, Begun DEF ResetRequest, MainOnly
<1> QED BY <1>1, <1>2, <1>3, <1>4, <1>5, <1>6, <1>7, <1>8, <1>9 DEF Request

\* A prompt gives its kind's capability and no more.
LEMMA AnswerKeeps ==
  ASSUME ConsoleInv, NEW u \in Users, Answer(u)
  PROVE  ConsoleInv' /\ UNCHANGED <<db, mem>>
<1> DEFINE kind == pending[u]
<1>1. Accepted(u, Needs[kind], FALSE) /\ Answered(u, kind)
  BY DEF Answer
<1> HIDE DEF kind
<1>2. \/ BeginsOne(u) \/ BeginsCoins(u)
      \/ BeginsAny(u) /\ kind \in {"admin_add", "admin_remove"}
  BY <1>1, AmountsAreKept, CoinsAreKept, RowsAreKept DEF Answered
<1>3. kind \in {"admin_add", "admin_remove"} => Needs[kind] \in MainOnly
  BY DEF Needs, MainOnly
<1> QED BY <1>1, <1>2, <1>3, Begun

-----------------------------------------------------------------------------
(* The writes.                                                             *)

LEMMA HeadIs ==
  ASSUME ConsoleInv, Writing
  PROVE  /\ Write \in Writes
         /\ handler.user = Main \/ (handler.user \in mem.admins /\ Ordinary(Write))
         /\ Len(handler.todo) # 1 => OfCoins(Write)
         /\ mem.paused => OfThePause(Write)
<1>1. MayWrite(handler.user, handler.todo)
  BY DEF ConsoleInv
<1>2. handler.todo \in Seq(Writes) /\ handler.todo # <<>>
  BY <1>1 DEF MayWrite, Writing
<1>3. Write = handler.todo[1] /\ 1 \in DOMAIN handler.todo
  BY <1>2 DEF Write
<1>4. Write \in Writes
  BY <1>2, <1>3
<1>5. Len(handler.todo) # 1 => Len(handler.todo) > 1
  <2> DEFINE todo == handler.todo
  <2>1. todo \in Seq(Writes) /\ 1 \in DOMAIN todo
    BY <1>2, <1>3
  <2> HIDE DEF todo
  <2>2. Len(todo) \in Nat /\ DOMAIN todo = 1 .. Len(todo)
    BY <2>1
  <2>3. Len(todo) # 1 => Len(todo) > 1
    BY <2>1, <2>2
  <2> QED BY <2>3 DEF todo
<1> QED BY <1>1, <1>3, <1>4, <1>5 DEF MayWrite

\* What comes next in the list may be written as well: where there is a next
\* write, the one before it wrote coins, and neither paused nor demoted.
LEMMA NextIs ==
  ASSUME ConsoleInv, Writing, Proceed, UNCHANGED env,
         Len(handler.todo) # 1 => mem'.paused = mem.paused /\ mem'.admins = mem.admins
  PROVE  /\ handler' = [user |-> handler'.user, todo |-> handler'.todo, at |-> handler'.at]
         /\ handler'.at = "commit"
         /\ MayWrite(handler.user, handler.todo)'
<1>1. CASE Len(handler.todo) = 1
  <2>1. handler' = [user |-> Main, todo |-> <<>>, at |-> "commit"]
    BY <1>1 DEF Proceed, Idle
  <2> QED BY <2>1 DEF MayWrite
<1>2. CASE Len(handler.todo) # 1
  <2> DEFINE todo == handler.todo
  <2>1. handler' = [user |-> handler.user, todo |-> Tail(todo), at |-> "commit"]
    BY <1>2 DEF Proceed, ConsoleInv
  <2>2. MayWrite(handler.user, todo) /\ todo \in Seq(Writes) /\ todo # <<>>
    BY DEF ConsoleInv, MayWrite, Writing
  <2> HIDE DEF todo
  <2>3. Tail(todo) \in Seq(Writes) /\ Len(Tail(todo)) = Len(todo) - 1
    BY <2>2
  <2>4. \A i \in DOMAIN Tail(todo) : i + 1 \in DOMAIN todo /\ Tail(todo)[i] = todo[i + 1]
    BY <2>2, <2>3
  <2>5. Len(todo) \in Nat
    BY <2>2
  <2>6. MayWrite(handler.user, Tail(todo))
    BY <2>2, <2>3, <2>4, <2>5 DEF MayWrite
  <2> QED BY <1>2, <2>1, <2>6 DEF MayWrite
<1> QED BY <1>1, <1>2

LEMMA CommitKeeps ==
  ASSUME ConsoleInv, Commit
  PROVE  ConsoleInv'
<1>1. Writing /\ handler.at = "commit" /\ UNCHANGED <<env, mem, lost>> /\ Write \in Writes
  BY HeadIs DEF Commit
<1>2. Settled = Parts \ lost
  BY <1>1 DEF Settled
<1>3. CASE db' = Written(Write) /\ handler' = [handler EXCEPT !.at = "refresh"]
  <2>1. handler' = [user |-> handler.user, todo |-> handler.todo, at |-> "refresh"]
    BY <1>3 DEF ConsoleInv
  <2>2. Settled' = Parts \ (lost \cup Touched(Write))
    BY <1>1, <2>1 DEF Settled, Writing, Write, Touched
  <2>3. Full(db)' /\ \A p \in Parts \ Touched(Write) : db'[p] = db[p]
    BY <1>1, <1>3, WrittenIs DEF ConsoleInv, Full
  <2>4. MemoryIsDatabase'
    BY <1>1, <1>2, <2>2, <2>3 DEF ConsoleInv, MemoryIsDatabase
  <2>5. MayWrite(handler.user, handler.todo)'
    BY <1>1, <2>1 DEF ConsoleInv, MayWrite
  <2> QED BY <1>1, <2>1, <2>3, <2>4, <2>5 DEF ConsoleInv, Full
<1>4. CASE Proceed /\ UNCHANGED db
  <2>1. /\ handler' = [user |-> handler'.user, todo |-> handler'.todo, at |-> handler'.at]
        /\ handler'.at = "commit"
        /\ MayWrite(handler.user, handler.todo)'
    BY <1>1, <1>4, NextIs
  <2>2. Settled' = Parts \ lost
    BY <1>1, <2>1 DEF Settled
  <2>3. MemoryIsDatabase'
    BY <1>1, <1>2, <1>4, <2>2 DEF ConsoleInv, MemoryIsDatabase
  <2> QED BY <1>1, <1>4, <2>1, <2>3 DEF ConsoleInv, Full
<1> QED BY <1>3, <1>4 DEF Commit

\* A handler that has ended.
LEMMA EndedKeeps ==
  ASSUME ConsoleInv, handler' = Idle, env' \in Envs, Full(db'), Full(mem'),
         \A p \in Parts \ lost' : mem'[p] = db'[p]
  PROVE  ConsoleInv'
<1>1. handler' = [user |-> Main, todo |-> <<>>, at |-> "commit"]
  BY DEF Idle
<1>2. MayWrite(handler.user, handler.todo)'
  BY <1>1 DEF MayWrite
<1>3. Settled' = Parts \ lost'
  BY <1>1 DEF Settled
<1> QED BY <1>1, <1>2, <1>3 DEF ConsoleInv, MemoryIsDatabase, Full

LEMMA CommitFailsKeeps ==
  ASSUME ConsoleInv, CommitFails
  PROVE  ConsoleInv'
<1>1. /\ Writing /\ handler.at = "commit" /\ Write \in Writes
      /\ handler' = Idle /\ UNCHANGED <<env, mem>>
  BY HeadIs DEF CommitFails
<1>2. \A p \in Parts \ lost : mem[p] = db[p]
  BY <1>1 DEF ConsoleInv, MemoryIsDatabase, Settled
<1>3. CASE UNCHANGED <<db, lost>>
  BY <1>1, <1>2, <1>3, EndedKeeps DEF ConsoleInv
<1>4. CASE db' = Written(Write) /\ lost' = lost \cup Touched(Write)
  <2>1. Full(db') /\ \A p \in Parts \ Touched(Write) : db'[p] = db[p]
    BY <1>1, <1>4, WrittenIs DEF ConsoleInv
  <2> QED BY <1>1, <1>2, <1>4, <2>1, EndedKeeps DEF ConsoleInv
<1> QED BY <1>3, <1>4 DEF CommitFails

LEMMA RefreshKeeps ==
  ASSUME ConsoleInv, Refresh
  PROVE  ConsoleInv'
<1>1. /\ Writing /\ handler.at = "refresh" /\ Write \in Writes
      /\ mem' = [p \in Parts |-> IF p \in Brought(Write) THEN db[p] ELSE mem[p]]
      /\ lost' = lost \ Brought(Write) /\ Proceed /\ UNCHANGED <<env, db>>
  BY HeadIs DEF Refresh
<1>2. Touched(Write) \subseteq Brought(Write)
  BY DEF Touched, Brought
<1>3. Full(mem')
  BY <1>1 DEF ConsoleInv, Full
<1>4. \A p \in Parts \ lost' : mem'[p] = db'[p]
  BY <1>1, <1>2 DEF ConsoleInv, MemoryIsDatabase, Settled
<1>5. ASSUME Len(handler.todo) # 1
      PROVE  mem'.paused = mem.paused /\ mem'.admins = mem.admins
  <2>1. OfCoins(Write)
    BY <1>1, <1>5, HeadIs
  <2>2. "paused" \notin Brought(Write) /\ "admins" \notin Brought(Write)
    BY <2>1 DEF OfCoins, Brought
  <2> QED BY <1>1, <2>2, PartsAre
<1>6. /\ handler' = [user |-> handler'.user, todo |-> handler'.todo, at |-> handler'.at]
      /\ handler'.at = "commit"
      /\ MayWrite(handler.user, handler.todo)'
  BY <1>1, <1>5, NextIs
<1>7. MemoryIsDatabase'
  BY <1>4, <1>6 DEF MemoryIsDatabase, Settled
<1> QED BY <1>1, <1>3, <1>6, <1>7 DEF ConsoleInv, Full

LEMMA RefreshFailsKeeps ==
  ASSUME ConsoleInv, RefreshFails
  PROVE  ConsoleInv'
<1>1. /\ Writing /\ Write.do # "reset" /\ lost' = lost \cup {Write.on}
      /\ handler' = Idle /\ UNCHANGED <<env, db, mem>>
  BY DEF RefreshFails
<1>2. Touched(Write) = {Write.on}
  BY <1>1 DEF Touched
<1>3. \A p \in Parts \ lost' : mem'[p] = db'[p]
  BY <1>1, <1>2 DEF ConsoleInv, MemoryIsDatabase, Settled
<1> QED BY <1>1, <1>3, EndedKeeps DEF ConsoleInv

LEMMA RestartKeeps ==
  ASSUME ConsoleInv, Restart
  PROVE  ConsoleInv' /\ UNCHANGED db
<1>1. db' = db /\ mem' = db /\ env' \in Envs /\ handler' = Idle
  BY FullIsKept DEF Restart, ConsoleInv
<1> QED BY <1>1, EndedKeeps DEF ConsoleInv

LEMMA ConsoleStep == ConsoleInv /\ [Next]_vars => ConsoleInv'
<1> SUFFICES ASSUME ConsoleInv, [Next]_vars PROVE ConsoleInv'
  OBVIOUS
<1>1. CASE UNCHANGED <<env, db, mem, handler, lost>>
  BY <1>1 DEF ConsoleInv, Full, MayWrite, MemoryIsDatabase, Settled, Writing, Write, Touched
<1>2. ASSUME NEW u \in Users, NEW kind, Ask(u, kind) PROVE ConsoleInv'
  BY <1>1, <1>2 DEF Ask
<1>3. ASSUME NEW u \in Users, DropPrompt(u) PROVE ConsoleInv'
  BY <1>1, <1>3 DEF DropPrompt
<1>4. ASSUME NEW u \in Users, Prompt(u) PROVE ConsoleInv'
  BY <1>2, <1>3, <1>4, AnswerKeeps DEF Prompt
<1> QED BY <1>1, <1>4, RequestKeeps, CommitKeeps, CommitFailsKeeps, RefreshKeeps,
           RefreshFailsKeeps, RestartKeeps DEF Next, vars

-----------------------------------------------------------------------------
(* The theorems.                                                           *)

LEMMA ConsoleHolds == Spec => []ConsoleInv
BY ConsoleInit, ConsoleStep, PTL DEF Spec

\* Neither the tables nor memory ever hold a value outside its bounds, a coin or
\* wallet that does not exist, or the main administrator as a row that could be
\* removed: whatever was sent, clamped, toggled, reset or loaded.
THEOREM ConsoleFull == Spec => [](Full(db) /\ Full(mem))
<1>1. ConsoleInv => Full(db) /\ Full(mem)
  BY DEF ConsoleInv
<1> QED BY <1>1, ConsoleHolds, PTL

\* Memory is what the tables hold, but for the parts whose own last write
\* failed: MemoryIsDatabase.
THEOREM ConsoleMemoryIsDatabase == Spec => []MemoryIsDatabase
<1>1. ConsoleInv => MemoryIsDatabase
  BY DEF ConsoleInv
<1> QED BY <1>1, ConsoleHolds, PTL

\* A restart under any environment brings back what memory said: RestartRestores.
THEOREM ConsoleRestartRestores == Spec => RestartRestores
<1>1. ConsoleInv /\ [Next]_vars =>
        [pending' = NobodyAsked /\ Restart => \A p \in Settled : mem'[p] = mem[p]]_vars
  <2> SUFFICES ASSUME ConsoleInv, Restart
               PROVE  \A p \in Settled : mem'[p] = mem[p]
    OBVIOUS
  <2>1. mem' = db
    BY RestartKeeps DEF Restart
  <2> QED BY <2>1 DEF ConsoleInv, MemoryIsDatabase
<1> QED BY <1>1, ConsoleHolds, PTL DEF Spec, RestartRestores

\* The steps that change the tables are those of a write that its user may make.
LEMMA WritersAre ==
  ASSUME ConsoleInv, [Next]_vars, db' # db
  PROVE  /\ Writing /\ handler.at = "commit" /\ db' = Written(Write)
<1>1. ~Restart
  BY RestartKeeps
<1>2. \A u \in Users : ~Request(u)
  BY RequestKeeps
<1>3. \A u \in Users : ~Prompt(u)
  BY AnswerKeeps DEF Prompt, Ask, DropPrompt
<1>4. Commit \/ CommitFails \/ Refresh \/ RefreshFails
  BY <1>1, <1>2, <1>3 DEF Next, vars
<1> QED BY <1>4 DEF Commit, CommitFails, Refresh, RefreshFails

\* Whoever changes the tables is an administrator in them at that moment, and
\* the main one for roles and resets: NoStaleAuthority.
THEOREM ConsoleNoStaleAuthority == Spec => NoStaleAuthority
<1>1. ConsoleInv /\ [Next]_vars =>
        [db' # db => \/ handler.user = Main
                     \/ /\ handler.user \in db.admins \/ "admins" \in lost
                        /\ db'.admins = db.admins
                        /\ Write.do # "reset"]_vars
  <2> SUFFICES ASSUME ConsoleInv, [Next]_vars, db' # db, handler.user # Main
               PROVE  /\ handler.user \in db.admins \/ "admins" \in lost
                      /\ db'.admins = db.admins
                      /\ Write.do # "reset"
    OBVIOUS
  <2>1. Writing /\ handler.at = "commit" /\ db' = Written(Write)
    BY WritersAre
  <2>2. Write \in Writes /\ handler.user \in mem.admins /\ Ordinary(Write)
    BY <2>1, HeadIs
  <2>3. "admins" \in Settled \/ "admins" \in lost
    BY <2>1, PartsAre DEF Settled
  <2>4. handler.user \in db.admins \/ "admins" \in lost
    BY <2>2, <2>3 DEF ConsoleInv, MemoryIsDatabase
  <2>5. "admins" \in Parts \ Touched(Write) /\ Write.do # "reset"
    BY <2>2, PartsAre DEF Ordinary, Touched
  <2> QED BY <2>1, <2>2, <2>4, <2>5, WrittenIs DEF ConsoleInv
<1> QED BY <1>1, ConsoleHolds, PTL DEF Spec, NoStaleAuthority

\* Under a pause only the pause is written: PausedIsFrozen.
THEOREM ConsolePausedIsFrozen == Spec => PausedIsFrozen
<1>1. ConsoleInv /\ [Next]_vars =>
        [mem.paused => \A p \in Parts \ {"paused"} : db'[p] = db[p]]_vars
  <2> SUFFICES ASSUME ConsoleInv, [Next]_vars, mem.paused, db' # db
               PROVE  \A p \in Parts \ {"paused"} : db'[p] = db[p]
    OBVIOUS
  <2>1. Writing /\ db' = Written(Write)
    BY WritersAre
  <2>2. Write \in Writes /\ OfThePause(Write)
    BY <2>1, HeadIs
  <2>3. Touched(Write) = {"paused"}
    BY <2>2 DEF OfThePause, Touched
  <2> QED BY <2>1, <2>2, <2>3, WrittenIs DEF ConsoleInv
<1> QED BY <1>1, ConsoleHolds, PTL DEF Spec, PausedIsFrozen

=============================================================================
