---------------------------- MODULE OrderTracking ---------------------------
(***************************************************************************)
(* What the engine tells about the orders of one tracked wallet: the book  *)
(* of resting orders in WalletTracker, the live orderUpdates frames and    *)
(* the frontendOpenOrders snapshots that update it, and the events         *)
(* WhaleDetector derives from the differences.                             *)
(*                                                                         *)
(* A snapshot is fetched by a reader: the order poll loop, or a worker     *)
(* that enriches a trade of the wallet.  Readers and frames interleave     *)
(* where the code awaits: while the snapshot is on its way, while an event *)
(* is emitted and while orderStatus is asked.                              *)
(*                                                                         *)
(* Every order has the same price, so its notional is its size.  An event  *)
(* is the part of its identity key (dedup.identity_key) that is about the  *)
(* order's state; told is the set of those handed to _emit, whose own      *)
(* behaviour is in EmitPipeline.                                           *)
(***************************************************************************)
EXTENDS Integers, Sequences

CONSTANTS
  Oids,       \* the orders of the wallet
  Orig,       \* the size each order is placed with
  Readers,    \* tasks that fetch snapshots
  Loop,       \* the reader that is _order_loop; the others are workers
  Least,      \* config.lowest_threshold
  QueueMax,   \* room for frames in the engine's queue
  MaxDrops    \* bound: times the wallet is dropped or the process restarted

ASSUME OrderAssumption ==
  /\ Orig \in [Oids -> Nat \ {0}]
  /\ Loop \in Readers
  /\ Least \in Nat \ {0}
  /\ QueueMax \in Nat \ {0}
  /\ MaxDrops \in Nat

VARIABLES
  book,        \* the exchange: status and remaining size of each order
  frames,      \* orderUpdates frames on their way to the workers
  enabled,     \* RuntimeConfig.enable_order_detector
  known,       \* TrackedWallet.orders_at is set
  tracked,     \* TrackedWallet.orders: the size of each order, 0 when absent
  reader,      \* what each reader is doing
  told,        \* the events handed to _emit
  overlooked,  \* history: orders that left tracked where the code is silent
  drops        \* how often the wallet was dropped or the process restarted

exchange == <<book, frames>>
wallet   == <<known, tracked>>
history == <<overlooked, drops>>
vars == <<book, frames, enabled, known, tracked, reader, told, overlooked, drops>>

-----------------------------------------------------------------------------
Final    == {"filled", "canceled", "rejected"}
Statuses == {"unplaced", "open", "triggered"} \cup Final

Sizes == [Oids -> Nat]
Empty == [o \in Oids |-> 0]

Listed(sizes) == {o \in Oids : sizes[o] > 0}

\* What frontendOpenOrders answers.
Resting == [o \in Oids |-> IF book[o].status = "open" THEN book[o].size ELSE 0]

Frame(o, status, size) == [oid |-> o, status |-> status, size |-> size]

\* identity_key of an order event; the size in it is left out.
Event(o, type, status) == [oid |-> o, type |-> type, status |-> status]

\* How an open order differs from the state it was last seen in.
Change(old, new) ==
  IF old = 0 THEN "ORDER_PLACED"
  ELSE IF new < old THEN "ORDER_PARTIALLY_FILLED"
  ELSE IF new > old THEN "ORDER_MODIFIED"
  ELSE "none"

\* The event type of an order's last status; anything else is unresolved.
Outcome(status) ==
  CASE status = "filled"   -> "ORDER_FILLED"
    [] status = "canceled" -> "ORDER_CANCELLED"
    [] status = "rejected" -> "ORDER_REJECTED"
    [] OTHER               -> "ORDER_MODIFIED"

\* WhaleDetector.from_order_update.
FromOrderUpdate(f) ==
  LET type == IF f.status = "open" THEN Change(tracked[f.oid], f.size)
                                   ELSE Outcome(f.status)
  IN IF type # "none" /\ (f.size >= Least \/ Orig[f.oid] >= Least)
     THEN {Event(f.oid, type, f.status)}
     ELSE {}

\* WhaleDetector.from_open_order: the orders of a snapshot there is an event of.
Announced(prev, snap) ==
  {o \in Listed(snap) : snap[o] >= Least /\ Change(prev[o], snap[o]) # "none"}

\* Mutant of FromDisappearance: an unresolved order is taken for a cancelled one.
FromDisappearanceGuessed(o, status) ==
  Event(o, IF status \in {"filled", "triggered"} THEN "ORDER_FILLED"
           ELSE IF status = "rejected" THEN "ORDER_REJECTED" ELSE "ORDER_CANCELLED",
        status)

\* WhaleDetector.from_order_disappearance.
FromDisappearance(o, status) ==
  Event(o, IF status = "triggered" THEN "ORDER_FILLED" ELSE Outcome(status), status)

-----------------------------------------------------------------------------
Idle == [at |-> "idle", snap |-> Empty, prev |-> Empty, now |-> {}, same |-> FALSE,
         todo |-> {}]

\* Orders may rest in the book before the wallet is tracked.
Init ==
  /\ \E resting \in SUBSET Oids :
       book = [o \in Oids |-> IF o \in resting
                              THEN [status |-> "open", size |-> Orig[o]]
                              ELSE [status |-> "unplaced", size |-> 0]]
  /\ frames = <<>>
  /\ enabled \in BOOLEAN
  /\ known = FALSE
  /\ tracked = Empty
  /\ reader = [r \in Readers |-> Idle]
  /\ told = {}
  /\ overlooked = {}
  /\ drops = 0

-----------------------------------------------------------------------------
(* The exchange.                                                           *)

\* A change is reported in a frame; the frame is lost when the wallet is not
\* in the focus slate, while its socket reconnects, and when the queue is full.
Becomes(o, status, size) ==
  /\ book' = [book EXCEPT ![o] = [status |-> status, size |-> size]]
  /\ \/ UNCHANGED frames
     \/ Len(frames) < QueueMax /\ frames' = Append(frames, Frame(o, status, size))
  /\ UNCHANGED <<enabled, wallet, reader, told, history>>

Submit(o) ==
  /\ book[o].status = "unplaced"
  /\ \E status \in {"open", "rejected"} : Becomes(o, status, Orig[o])

Execute(o) ==
  /\ book[o].status = "open"
  /\ \E size \in 1..(book[o].size - 1) : Becomes(o, "open", size)

Fill(o)    == book[o].status \in {"open", "triggered"} /\ Becomes(o, "filled", 0)
Cancel(o)  == /\ book[o].status \in {"open", "triggered"}
              /\ Becomes(o, "canceled", book[o].size)
Trigger(o) == book[o].status = "open" /\ Becomes(o, "triggered", book[o].size)

Trade(o) == Submit(o) \/ Execute(o) \/ Fill(o) \/ Cancel(o) \/ Trigger(o)

-----------------------------------------------------------------------------
(* The live feed.                                                          *)

\* Mutant of ApplyFrame: the detector switch is looked at after the book was
\* updated.
ApplyFrameFirst ==
  /\ frames # <<>>
  /\ frames' = Tail(frames)
  /\ LET f == Head(frames)
         sizes == [tracked EXCEPT ![f.oid] = IF f.status = "open" THEN f.size ELSE 0]
     IN /\ tracked' = sizes
        /\ known' = TRUE
        /\ reader' = [r \in Readers |->
                        IF reader[r].same THEN [reader[r] EXCEPT !.now = Listed(sizes)]
                                          ELSE reader[r]]
        /\ told' = IF enabled THEN told \cup FromOrderUpdate(f) ELSE told
  /\ UNCHANGED <<book, enabled, history>>

\* _process_order_update up to its await.  The dictionary it changes in place
\* is the one the last snapshot installed, which its reader still looks at.
ApplyFrame ==
  /\ frames # <<>>
  /\ frames' = Tail(frames)
  /\ IF enabled
     THEN LET f == Head(frames)
              sizes == [tracked EXCEPT ![f.oid] = IF f.status = "open" THEN f.size ELSE 0]
          IN /\ tracked' = sizes
             /\ known' = TRUE
             /\ reader' = [r \in Readers |->
                             IF reader[r].same
                             THEN [reader[r] EXCEPT !.now = Listed(sizes)]
                             ELSE reader[r]]
             /\ told' = told \cup FromOrderUpdate(f)
     ELSE UNCHANGED <<wallet, reader, told>>
  /\ UNCHANGED <<book, enabled, history>>

-----------------------------------------------------------------------------
(* The snapshots.                                                          *)

\* The exchange answers frontendOpenOrders.  The loop asks only while the
\* detector is on; an enrichment that backs an alert asks anyway.
Poll(r) ==
  /\ reader[r].at = "idle"
  /\ r = Loop => enabled
  /\ reader' = [reader EXCEPT ![r].at = "polled", ![r].snap = Resting]
  /\ UNCHANGED <<exchange, enabled, wallet, told, history>>

\* The orders of prev, of at least that size, that are not there now.
Gone(prev, now, least) == {o \in Oids : prev[o] >= least /\ o \notin now}

\* The reader looks up the orders that vanished, or is done.
Lookup(prev, now) ==
  IF Gone(prev, now, Least) = {} THEN Idle
  ELSE [Idle EXCEPT !.at = "lookup", !.todo = Gone(prev, now, Least)]

\* apply_orders and the rest of _ingest_open_orders up to its first await.
\* The snapshot replaces the book as one new dictionary.  The first one is a
\* baseline; so is any that comes while the detector is off.
ApplyOrders(r) ==
  LET snap == reader[r].snap
      todo == Announced(tracked, snap)
  IN
  /\ reader[r].at = "polled"
  /\ known' = TRUE
  /\ tracked' = snap
  /\ reader' = [q \in Readers |->
       IF q # r THEN [reader[q] EXCEPT !.same = FALSE]
       ELSE IF ~known \/ ~enabled THEN Idle
       ELSE IF todo # {}
       THEN [at |-> "announce", snap |-> snap, prev |-> tracked, now |-> Listed(snap),
             same |-> TRUE, todo |-> todo]
       ELSE Lookup(tracked, Listed(snap))]
  /\ overlooked' = overlooked \cup
       IF enabled THEN Gone(tracked, Listed(snap), 1) \ Gone(tracked, Listed(snap), Least)
                  ELSE Gone(tracked, Listed(snap), 1)
  /\ UNCHANGED <<exchange, enabled, told, drops>>

\* from_open_order and _emit, for one order of the snapshot.
Announce(r, o) ==
  LET snap == reader[r].snap
      prev == reader[r].prev
  IN
  /\ reader[r].at = "announce"
  /\ o \in reader[r].todo
  /\ told' = told \cup {Event(o, Change(prev[o], snap[o]), "open")}
  /\ reader' = [reader EXCEPT ![r].todo = @ \ {o}]
  /\ UNCHANGED <<exchange, enabled, wallet, history>>

\* Every order of the snapshot was handed over: which ones vanished is found
\* out now, from the dictionary as it is after those awaits.
Compare(r) ==
  /\ reader[r].at = "announce"
  /\ reader[r].todo = {}
  /\ LET prev == reader[r].prev
         now  == reader[r].now
     IN /\ reader' = [reader EXCEPT ![r] = Lookup(prev, now)]
        /\ overlooked' = overlooked \cup (Gone(prev, now, 1) \ Gone(prev, now, Least))
  /\ UNCHANGED <<exchange, enabled, wallet, told, drops>>

\* _resolve_order_status, which may fail, and from_order_disappearance.
Resolve(r, o) ==
  /\ reader[r].at = "lookup"
  /\ o \in reader[r].todo
  /\ \E status \in {book[o].status, "unknown"} :
       /\ told' = told \cup {FromDisappearance(o, status)}
       /\ overlooked' = IF status = "open" THEN overlooked \cup {o} ELSE overlooked
  /\ reader' = [reader EXCEPT ![r] =
                  IF reader[r].todo = {o} THEN Idle
                                          ELSE [reader[r] EXCEPT !.todo = @ \ {o}]]
  /\ UNCHANGED <<exchange, enabled, wallet, drops>>

-----------------------------------------------------------------------------
\* The order detector is switched on or off.
Toggle ==
  /\ enabled' = ~enabled
  /\ UNCHANGED <<exchange, wallet, reader, told, history>>

\* The wallet is pruned or evicted; the next touch starts it afresh.
Forget ==
  /\ known
  /\ drops < MaxDrops
  /\ drops' = drops + 1
  /\ known' = FALSE
  /\ tracked' = Empty
  /\ overlooked' = overlooked \cup Listed(tracked)
  /\ reader' = [r \in Readers |-> [reader[r] EXCEPT !.same = FALSE]]
  /\ UNCHANGED <<exchange, enabled, told>>

\* What a reader has still to look up or to tell.
Pending(r) ==
  IF reader[r].at = "announce" THEN Gone(reader[r].prev, reader[r].now, 1)
  ELSE IF reader[r].at = "lookup" THEN reader[r].todo
  ELSE {}

\* The process is started again; what was told stays told.
Restart ==
  /\ drops < MaxDrops
  /\ drops' = drops + 1
  /\ known' = FALSE
  /\ tracked' = Empty
  /\ frames' = <<>>
  /\ overlooked' = overlooked \cup Listed(tracked) \cup UNION {Pending(r) : r \in Readers}
  /\ reader' = [r \in Readers |-> Idle]
  /\ UNCHANGED <<book, enabled, told>>

-----------------------------------------------------------------------------
Ingest(r) ==
  \/ ApplyOrders(r)
  \/ Compare(r)
  \/ \E o \in Oids : Announce(r, o) \/ Resolve(r, o)

Next ==
  \/ \E o \in Oids : Trade(o)
  \/ ApplyFrame
  \/ \E r \in Readers : Poll(r) \/ Ingest(r)
  \/ Toggle
  \/ Forget
  \/ Restart

Spec == Init /\ [][Next]_vars

-----------------------------------------------------------------------------
(* Properties.                                                             *)

OrderSizes == {s \in Sizes : \A o \in Oids : s[o] <= Orig[o]}

TypeOK ==
  /\ book \in [Oids -> [status : Statuses, size : Nat]]
  /\ frames \in Seq([oid : Oids, status : Statuses, size : Nat])
  /\ enabled \in BOOLEAN
  /\ known \in BOOLEAN
  /\ tracked \in OrderSizes
  /\ reader \in [Readers -> [at : {"idle", "polled", "announce", "lookup"},
                             snap : OrderSizes, prev : OrderSizes,
                             now : SUBSET Oids, same : BOOLEAN, todo : SUBSET Oids]]
  /\ \A r \in Readers : reader[r].at = "lookup" => reader[r].todo # {}
  /\ overlooked \subseteq Oids
  /\ drops \in Nat

\* An ending that is told is the one the exchange reported: an order whose
\* lookup fails is never said to be filled, cancelled or rejected.  Frames
\* that come late and snapshots that come out of order do not change that.
\* The exception is an order whose trigger fired: it is told as filled.
OutcomeIsTrue ==
  \A e \in told :
    /\ e.type = "ORDER_FILLED" => e.status = "triggered" \/ book[e.oid].status = "filled"
    /\ e.type = "ORDER_CANCELLED" => book[e.oid].status = "canceled"
    /\ e.type = "ORDER_REJECTED" => book[e.oid].status = "rejected"

\* An order that was told as resting and is not tracked any more has had its
\* end told, or a reader is about to tell it: between two readers, the live
\* feed and its gaps no ending falls through.  What the code leaves out on
\* purpose is in overlooked: below the threshold, detector off, wallet dropped,
\* process restarted, or orderStatus says the order is still open.
EndIsTold ==
  \A o \in Oids \ overlooked :
    (\E e \in told : e.oid = o /\ e.status = "open") =>
      \/ tracked[o] > 0
      \/ \E r \in Readers : o \in Pending(r)
      \/ \E e \in told : e.oid = o /\ e.status # "open"
=============================================================================
