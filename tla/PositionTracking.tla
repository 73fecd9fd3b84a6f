-------------------------- MODULE PositionTracking --------------------------
(***************************************************************************)
(* What the engine tells about the positions of one tracked wallet: the    *)
(* clearinghouseState snapshots that WalletTracker stores, and the         *)
(* position events that WhaleDetector derives from two of them.            *)
(*                                                                         *)
(* A snapshot is fetched by a reader: the position poll loop, or a worker  *)
(* that enriches a trade of the wallet.  Readers interleave where the code *)
(* awaits: while a snapshot is on its way and while an event is emitted.   *)
(* So a snapshot may be applied after one that was taken later.            *)
(*                                                                         *)
(* A position is its signed size, 0 when there is none: the parser leaves  *)
(* flat positions out, so an absent coin and a flat one are the same.  The *)
(* mark price is constant, so the cash flow of a change is the difference  *)
(* of the sizes.  An event is the change it states, not its event type,    *)
(* which from_position_change reads off the two sizes.                     *)
(***************************************************************************)
EXTENDS Integers, FiniteSets

CONSTANTS
  Coins,     \* numbered in the order of sorted()
  Readers,   \* tasks that fetch snapshots: _position_loop and the workers
  Least,     \* config.lowest_threshold
  MaxSize,   \* bound: the largest position
  MaxMoves,  \* bound: how often the trader changes a position
  MaxDrops   \* bound: times the wallet is dropped or the process restarted

ASSUME PositionAssumption ==
  /\ Coins \subseteq Nat
  /\ IsFiniteSet(Coins)
  /\ IsFiniteSet(Readers)
  /\ Least \in Nat \ {0}
  /\ MaxSize \in Nat
  /\ MaxMoves \in Nat
  /\ MaxDrops \in Nat

VARIABLES
  held,     \* the exchange: the position in each coin
  moves,    \* how often a position was changed
  enabled,  \* RuntimeConfig.enable_position_detector
  known,    \* TrackedWallet.has_baseline
  tracked,  \* TrackedWallet.positions
  reader,   \* what each reader is doing
  told,     \* the events this process handed to _emit
  had,      \* history: the positions there were in each coin since its start
  ledger,   \* history: the baseline plus every change told or passed over
  drops     \* how often the wallet was dropped or the process restarted

exchange == <<held, moves>>
wallet   == <<known, tracked>>
history  == <<told, had, ledger>>
vars == <<held, moves, enabled, known, tracked, reader, told, had, ledger, drops>>

-----------------------------------------------------------------------------
Sizes     == -MaxSize..MaxSize
Positions == [Coins -> Sizes]
Flat      == [c \in Coins |-> 0]

Delta(prev, snap, c) == snap[c] - prev[c]

Magnitude(n) == IF n < 0 THEN -n ELSE n

\* WhaleDetector.from_position_change: the coins there is an event of.
Changed(prev, snap) == {c \in Coins : Magnitude(Delta(prev, snap, c)) >= Least}

Change(prev, snap, c) == [coin |-> c, before |-> prev[c], after |-> snap[c]]

\* The coin whose turn it is.
First(coins) == CHOOSE c \in coins : \A d \in coins : c <= d

Idle == [at |-> "idle", prev |-> Flat, snap |-> Flat, todo |-> {}, current |-> FALSE]

\* A reader with these changes left to tell.
Rest(prev, snap, todo, current) ==
  IF todo = {} THEN Idle
  ELSE [at |-> "telling", prev |-> prev, snap |-> snap, todo |-> todo,
        current |-> current]

-----------------------------------------------------------------------------
\* Positions may be open before the wallet is tracked.
Init ==
  /\ held \in Positions
  /\ moves = 0
  /\ enabled \in BOOLEAN
  /\ known = FALSE
  /\ tracked = Flat
  /\ reader = [r \in Readers |-> Idle]
  /\ told = {}
  /\ had = [c \in Coins |-> {held[c]}]
  /\ ledger = Flat
  /\ drops = 0

\* The trader opens, changes, flips or closes a position.
Move(c) ==
  /\ moves < MaxMoves
  /\ moves' = moves + 1
  /\ \E size \in Sizes \ {held[c]} :
       /\ held' = [held EXCEPT ![c] = size]
       /\ had' = [had EXCEPT ![c] = @ \cup {size}]
  /\ UNCHANGED <<enabled, wallet, reader, told, ledger, drops>>

\* The exchange answers clearinghouseState; a request that fails changes
\* nothing here.  A worker asks whether or not the detector is on, and the
\* loop does not look at the switch again within a round.  Nothing says that
\* a reader ever comes to this wallet: the loop serves the wallets with the
\* highest scores, within its budget, and none under a pause.
Poll(r) ==
  /\ reader[r].at = "idle"
  /\ reader' = [reader EXCEPT ![r].at = "polled", ![r].snap = held]
  /\ UNCHANGED <<exchange, enabled, wallet, history, drops>>

\* Mutant of Differences: the first snapshot is compared with no positions.
DifferencesFromNothing(snap) == IF enabled THEN Changed(tracked, snap) ELSE {}

\* The changes to tell of a snapshot: the first one is a baseline, and so is
\* one that comes while the detector is off.
Differences(snap) == IF known /\ enabled THEN Changed(tracked, snap) ELSE {}

\* Mutant of Apply: a change below the threshold is not stored.
ApplyAboveThreshold(r) ==
  LET snap  == reader[r].snap
      todo  == Differences(snap)
      first == IF todo = {} THEN {} ELSE {First(todo)}
  IN
  /\ reader[r].at = "polled"
  /\ known' = TRUE
  /\ tracked' = [c \in Coins |->
                   IF known /\ c \notin Changed(tracked, snap) THEN tracked[c] ELSE snap[c]]
  /\ told' = told \cup {Change(tracked, snap, c) : c \in first}
  /\ ledger' = tracked'
  /\ reader' = [reader EXCEPT ![r] = Rest(tracked, snap, todo \ first, TRUE)]
  /\ UNCHANGED <<exchange, enabled, had, drops>>

\* apply_positions and the rest of _ingest_account_state up to its first
\* await, which is in the emission of the first change.  What is not to be
\* told is passed over here and now.
Apply(r) ==
  LET snap  == reader[r].snap
      todo  == Differences(snap)
      first == IF todo = {} THEN {} ELSE {First(todo)}
  IN
  /\ reader[r].at = "polled"
  /\ known' = TRUE
  /\ tracked' = snap
  /\ told' = told \cup {Change(tracked, snap, c) : c \in first}
  /\ ledger' = [c \in Coins |->
                  IF ~known THEN snap[c]
                  ELSE IF c \in todo \ first THEN ledger[c]
                  ELSE ledger[c] + Delta(tracked, snap, c)]
  /\ reader' = [reader EXCEPT ![r] = Rest(tracked, snap, todo \ first, TRUE)]
  /\ UNCHANGED <<exchange, enabled, had, drops>>

\* Mutant of Report: the position is looked up again when its turn comes.
ReportLive(r) ==
  LET c == First(reader[r].todo)
  IN
  /\ reader[r].at = "telling"
  /\ told' = told \cup {Change(reader[r].prev, tracked, c)}
  /\ ledger' = IF reader[r].current
               THEN [ledger EXCEPT ![c] = @ + Delta(reader[r].prev, tracked, c)]
               ELSE ledger
  /\ reader' = [reader EXCEPT ![r] =
                  Rest(reader[r].prev, reader[r].snap, reader[r].todo \ {c},
                       reader[r].current)]
  /\ UNCHANGED <<exchange, enabled, wallet, had, drops>>

\* The emission before has returned: the next change of the same snapshot.
Report(r) ==
  LET now == reader[r]
      c   == First(now.todo)
  IN
  /\ now.at = "telling"
  /\ told' = told \cup {Change(now.prev, now.snap, c)}
  /\ ledger' = IF now.current
               THEN [ledger EXCEPT ![c] = @ + Delta(now.prev, now.snap, c)]
               ELSE ledger
  /\ reader' = [reader EXCEPT ![r] =
                  Rest(now.prev, now.snap, now.todo \ {c}, now.current)]
  /\ UNCHANGED <<exchange, enabled, wallet, had, drops>>

-----------------------------------------------------------------------------
\* The position detector is switched on or off.
Toggle ==
  /\ enabled' = ~enabled
  /\ UNCHANGED <<exchange, wallet, reader, history, drops>>

\* The wallet is pruned or evicted; the next touch starts it afresh.  Changes
\* still to be told belong to the ledger that ends here.
Forget ==
  /\ known
  /\ drops < MaxDrops
  /\ drops' = drops + 1
  /\ known' = FALSE
  /\ tracked' = Flat
  /\ ledger' = Flat
  /\ reader' = [r \in Readers |-> [reader[r] EXCEPT !.current = FALSE]]
  /\ UNCHANGED <<exchange, enabled, told, had>>

\* The process is started again.
Restart ==
  /\ drops < MaxDrops
  /\ drops' = drops + 1
  /\ known' = FALSE
  /\ tracked' = Flat
  /\ ledger' = Flat
  /\ reader' = [r \in Readers |-> Idle]
  /\ told' = {}
  /\ had' = [c \in Coins |-> {held[c]}]
  /\ UNCHANGED <<exchange, enabled>>

-----------------------------------------------------------------------------
Ingest(r) == Apply(r) \/ Report(r)

Next ==
  \/ \E c \in Coins : Move(c)
  \/ \E r \in Readers : Poll(r) \/ Ingest(r)
  \/ Toggle
  \/ Forget
  \/ Restart

\* A reader that has a snapshot goes on: emissions end.  Polling is not fair.
Fairness == \A r \in Readers : WF_vars(Ingest(r))

Spec     == Init /\ [][Next]_vars
FairSpec == Spec /\ Fairness

-----------------------------------------------------------------------------
(* Properties.                                                             *)

Reader == [at : {"idle", "polled", "telling"}, prev : Positions, snap : Positions,
           todo : SUBSET Coins, current : BOOLEAN]

TypeOK ==
  /\ held \in Positions
  /\ moves \in 0..MaxMoves
  /\ enabled \in BOOLEAN
  /\ known \in BOOLEAN
  /\ tracked \in Positions
  /\ reader \in [Readers -> Reader]
  /\ \A r \in Readers : reader[r].at = "telling" <=> reader[r].todo # {}
  /\ told \subseteq [coin : Coins, before : Sizes, after : Sizes]
  /\ had \in [Coins -> SUBSET Sizes]
  /\ ledger \in [Coins -> Int]
  /\ drops \in 0..MaxDrops

\* Nothing is told of a position that there never was: both ends of a change
\* were held since the process began.  The first snapshot of a wallet is a
\* baseline, so neither a restart nor a wallet that was dropped and came back
\* makes an open position look like one that was just opened, and a snapshot
\* that comes late tells of nothing that never happened.
ToldWasHeld ==
  \A e \in told : e.before # e.after /\ {e.before, e.after} \subseteq had[e.coin]

\* What a reader still has to tell of a coin.
Owing(now, c) ==
  IF now.current /\ c \in now.todo THEN Delta(now.prev, now.snap, c) ELSE 0

\* The sum of the readers' amounts, counted in units: those up less those down.
Units(amount) == {u \in Readers \X (1 .. 2 * MaxSize) : u[2] <= amount[u[1]]}

Total(amount) ==
  Cardinality(Units(amount)) - Cardinality(Units([r \in Readers |-> -amount[r]]))

\* What they all have to tell of it.
Owed(c) == Total([r \in Readers |-> Owing(reader[r], c)])

\* The changes add up to the position that is tracked: the baseline, what was
\* told, what is below the threshold or came while the detector was off, and
\* what a reader has still to tell.  No two readers tell of the same change
\* and none is left out between them, in whatever order snapshots come.
LedgerBalances == known => \A c \in Coins : tracked[c] = ledger[c] + Owed(c)

\* Once the trader has stopped, a reader that comes back to the wallet again and
\* again settles it, whichever reader that is: the tracked positions become those
\* that are held, every change is told or passed over, and both stay so.  Snapshots
\* of the others that were overtaken, switching the detector, dropping the wallet
\* and restarting do no lasting harm.  Of a wallet nobody reads nothing is promised.
Settles ==
  \A r \in Readers :
    []<><<Poll(r)>>_vars => <>[](tracked = held /\ ledger = held)
=============================================================================
