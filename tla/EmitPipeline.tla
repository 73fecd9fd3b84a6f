---------------------------- MODULE EmitPipeline ----------------------------
(***************************************************************************)
(* WhaleEngine._emit (src/app/whale/engine.py) and what it runs through:   *)
(* the Deduplicator's two TTL caches, the durable duplicate gate on        *)
(* whale_events, the write lock, and the hand-over to the alert queue.     *)
(*                                                                         *)
(* An emitter is an asyncio task that calls _emit: one of the workers, or  *)
(* the position, order or book loop.  Tasks interleave only where the code *)
(* awaits, so one action is the code between two awaits.  An observation   *)
(* is named by its identity key; every key may be observed by any emitter  *)
(* at any time, which covers snapshots replayed after a reconnect and the  *)
(* same fact delivered by two feeds.                                       *)
(*                                                                         *)
(* Time is kept as ages.  A Tick ages every entry by one; an age of        *)
(* TTL + 1 means "longer ago than IDENTITY_TTL".                           *)
(***************************************************************************)
EXTENDS Integers, Sequences, FiniteSets

LOCAL INSTANCE Functions

CONSTANTS
  Emitters,     \* tasks that call _emit
  Keys,         \* identity keys of observations
  CoolKeys,     \* cooldown keys: type, coin, wallet, side, magnitude
  CooldownOf,   \* the cooldown key of each identity key
  TTL,          \* IDENTITY_TTL, also the window of the durable gate
  Cooldown,     \* alert_cooldown_seconds; 0 switches the cooldown off
  QueueMax,     \* AlertService.QUEUE_MAX
  MaxRows,      \* bound: rows recorded when an emission may still begin
  None

ASSUME EmitAssumption ==
  /\ TTL \in Nat \ {0}
  /\ Cooldown \in 0..TTL
  /\ QueueMax \in Nat \ {0}
  /\ MaxRows \in Nat
  /\ CooldownOf \in [Keys -> CoolKeys]
  /\ None \notin Emitters
  /\ None \notin Keys

VARIABLES
  monitoring,   \* RuntimeConfig.monitoring_enabled
  paused,       \* RuntimeConfig.paused
  identity,     \* Deduplicator._identity: age of the entry of each key
  cooldown,     \* Deduplicator._cooldown: age of the entry of each cooldown key
  pc,           \* where each emitter stands in _emit
  obs,          \* the observation it carries
  blind,        \* whether its durable gate could not be read
  lock,         \* WhaleEngine._write_lock: the holder
  row,          \* whale_events: age of the newest row of each key
  rows,         \* whale_events: rows ever written for each key
  queue,        \* AlertService._queue, the observation of each job
  history,      \* alert_history: age of the newest delivered alert of each key
  sent          \* alerts that left the bot for each key

cacheVars == <<identity, cooldown>>
emitVars  == <<pc, obs, blind, lock>>
dbVars    == <<row, rows, history>>
vars == <<monitoring, paused, identity, cooldown, pc, obs, blind, lock, row,
          rows, queue, history, sent>>

-----------------------------------------------------------------------------
(* Ages and the TTL cache.                                                 *)

Absent   == -1
MaybeAge == Absent..(TTL + 1)

\* The age of an entry after one more tick; ages past TTL are not told apart.
Older(age) == IF age = Absent \/ age > TTL THEN age ELSE age + 1

\* TTLCache.set: the entry is stamped now.
Stamped(cache, k) == [cache EXCEPT ![k] = 0]

Cached(cache) == {k \in DOMAIN cache : cache[k] # Absent}

\* The entries an eviction takes first.
Oldest(cache) ==
  {v \in Cached(cache) : \A u \in Cached(cache) : cache[u] <= cache[v]}

\* TTLCache.purge.
Purged(cache) ==
  [k \in DOMAIN cache |-> IF cache[k] > TTL THEN Absent ELSE cache[k]]

\* TTLCache.get: an expired entry counts as missing.
Known(k) == identity[k] \in 0..TTL

\* TTLCache.age does not look at the ttl, only at the stamp.
CoolingDown(k) ==
  LET age == cooldown[CooldownOf[k]] IN age # Absent /\ age < Cooldown

\* EventRepository.seen_recently.
Live(k) == row[k] \in 0..TTL

\* The observations that are between the memory gate and the end of _emit.
\* Timing assumption: an emission is over (a few database calls, seconds)
\* before its identity entry is TTL (an hour) old or maxsize (16384) entries
\* behind.  It is a guard of Tick and of Evict, and nowhere else.
InFlight == {obs[w] : w \in {v \in Emitters : pc[v] # "idle"}}

\* Rows written in the whole behaviour.
Written == FoldFunction(+, 0, rows)

-----------------------------------------------------------------------------
Init ==
  /\ monitoring \in BOOLEAN
  /\ paused \in BOOLEAN
  /\ identity = [k \in Keys |-> Absent]
  /\ cooldown = [c \in CoolKeys |-> Absent]
  /\ pc    = [w \in Emitters |-> "idle"]
  /\ obs   = [w \in Emitters |-> None]
  /\ blind = [w \in Emitters |-> FALSE]
  /\ lock = None
  /\ row  = [k \in Keys |-> Absent]
  /\ rows = [k \in Keys |-> 0]
  /\ queue = <<>>
  /\ history = [k \in Keys |-> Absent]
  /\ sent = [k \in Keys |-> 0]

\* The emitter is done with its observation.
Finish(w) ==
  /\ pc'    = [pc EXCEPT ![w] = "idle"]
  /\ obs'   = [obs EXCEPT ![w] = None]
  /\ blind' = [blind EXCEPT ![w] = FALSE]

-----------------------------------------------------------------------------
(* _emit, step by step.                                                    *)

\* filter.evaluate accepts, dedup.check finds a recent alert of the same
\* cooldown key: the identity is remembered and the event goes no further.  A
\* known identity is dropped with no change of state at all.
Suppress(w, k) ==
  /\ monitoring
  /\ pc[w] = "idle"
  /\ ~Known(k)
  /\ CoolingDown(k)
  /\ identity' = Stamped(identity, k)
  /\ UNCHANGED <<monitoring, paused, cooldown, emitVars, dbVars, queue, sent>>

\* Mutant of Admit: the identity is not stamped before the first await.
AdmitUnstamped(w, k) ==
  /\ monitoring
  /\ pc[w] = "idle"
  /\ ~Known(k)
  /\ ~CoolingDown(k)
  /\ Written < MaxRows
  /\ pc'  = [pc EXCEPT ![w] = "gate"]
  /\ obs' = [obs EXCEPT ![w] = k]
  /\ UNCHANGED <<monitoring, paused, cacheVars, blind, lock, dbVars, queue, sent>>

\* dedup.check passes: it stamps both caches before the first await.
Admit(w, k) ==
  /\ monitoring
  /\ pc[w] = "idle"
  /\ ~Known(k)
  /\ ~CoolingDown(k)
  /\ Written < MaxRows
  /\ identity' = Stamped(identity, k)
  /\ cooldown' = IF Cooldown > 0 THEN Stamped(cooldown, CooldownOf[k]) ELSE cooldown
  /\ pc'  = [pc EXCEPT ![w] = "gate"]
  /\ obs' = [obs EXCEPT ![w] = k]
  /\ UNCHANGED <<monitoring, paused, blind, lock, dbVars, queue, sent>>

\* _already_recorded finds a row younger than IDENTITY_TTL.
GateSeen(w) ==
  /\ pc[w] = "gate"
  /\ Live(obs[w])
  /\ Finish(w)
  /\ UNCHANGED <<monitoring, paused, cacheVars, lock, dbVars, queue, sent>>

\* Mutant of GateClear: the durable gate is not consulted.
GateSkipped(w) ==
  /\ pc[w] = "gate"
  /\ pc' = [pc EXCEPT ![w] = "persist"]
  /\ UNCHANGED <<monitoring, paused, cacheVars, obs, blind, lock, dbVars, queue, sent>>

\* _already_recorded finds none.
GateClear(w) ==
  /\ pc[w] = "gate"
  /\ ~Live(obs[w])
  /\ pc' = [pc EXCEPT ![w] = "persist"]
  /\ UNCHANGED <<monitoring, paused, cacheVars, obs, blind, lock, dbVars, queue, sent>>

\* The query fails: the answer is "not seen".
GateError(w) ==
  /\ pc[w] = "gate"
  /\ pc'    = [pc EXCEPT ![w] = "persist"]
  /\ blind' = [blind EXCEPT ![w] = TRUE]
  /\ UNCHANGED <<monitoring, paused, cacheVars, obs, lock, dbVars, queue, sent>>

\* _persist enters the write lock and opens its session.
TakeLock(w) ==
  /\ pc[w] = "persist"
  /\ lock = None
  /\ lock' = w
  /\ pc' = [pc EXCEPT ![w] = "write"]
  /\ UNCHANGED <<monitoring, paused, cacheVars, obs, blind, dbVars, queue, sent>>

\* The transaction commits in the database.
Commit(w) ==
  /\ pc[w] = "write"
  /\ row'  = [row EXCEPT ![obs[w]] = 0]
  /\ rows' = [rows EXCEPT ![obs[w]] = @ + 1]
  /\ pc'   = [pc EXCEPT ![w] = "stored"]
  /\ UNCHANGED <<monitoring, paused, cacheVars, obs, blind, lock, history, queue, sent>>

\* Mutant of GiveUp: the lock is not released on the error path.
GiveUpLocked(w) ==
  /\ identity' = [identity EXCEPT ![obs[w]] = Absent]
  /\ Finish(w)
  /\ UNCHANGED <<monitoring, paused, cooldown, lock, dbVars, queue, sent>>

\* _persist returns None: the lock is released and dedup.forget pops the
\* identity; the cooldown entry stays.
GiveUp(w) ==
  /\ lock' = None
  /\ identity' = [identity EXCEPT ![obs[w]] = Absent]
  /\ Finish(w)
  /\ UNCHANGED <<monitoring, paused, cooldown, dbVars, queue, sent>>

\* Mutant of WriteFails: _emit does not return when _persist gave no row id.
WriteFailsAlerted(w) ==
  /\ pc[w] = "write"
  /\ lock' = None
  /\ identity' = [identity EXCEPT ![obs[w]] = Absent]
  /\ queue' = Append(queue, obs[w])
  /\ Finish(w)
  /\ UNCHANGED <<monitoring, paused, cooldown, dbVars, sent>>

\* A statement fails before the commit; the session rolled back.
WriteFails(w) == pc[w] = "write" /\ GiveUp(w)

\* The commit took effect but its acknowledgement was lost.
CommitUnknown(w) == pc[w] = "stored" /\ GiveUp(w)

\* _persist returns the row id; the lock is released and the alert callback,
\* AlertService.enqueue, runs in the same step: it never suspends.
HandOver(w) ==
  /\ pc[w] = "stored"
  /\ lock' = None
  /\ queue' = IF paused \/ Len(queue) >= QueueMax THEN queue ELSE Append(queue, obs[w])
  /\ Finish(w)
  /\ UNCHANGED <<monitoring, paused, cacheVars, dbVars, sent>>

-----------------------------------------------------------------------------
(* The environment of _emit.                                               *)

\* The sender takes one job through _dispatch: the alert leaves or not, and
\* when it leaves _record may still fail to write the history row.
Deliver ==
  /\ queue # <<>>
  /\ queue' = Tail(queue)
  /\ \/ UNCHANGED <<sent, history>>
     \/ /\ sent' = [sent EXCEPT ![Head(queue)] = @ + 1]
        /\ \/ history' = [history EXCEPT ![Head(queue)] = 0]
           \/ UNCHANGED history
  /\ UNCHANGED <<monitoring, paused, cacheVars, emitVars, row, rows>>

\* /pause, /go and the monitoring switch.
Configure ==
  /\ \/ monitoring' = ~monitoring /\ UNCHANGED paused
     \/ paused' = ~paused /\ UNCHANGED monitoring
  /\ UNCHANGED <<cacheVars, emitVars, dbVars, queue, sent>>

\* Keys are the observations the model follows; the caches hold those of every
\* other wallet too.  Once a cache is at maxsize, stamping one of those takes
\* the oldest entry.
Evict ==
  /\ \/ /\ \E k \in Oldest(identity) \ InFlight :
             identity' = [identity EXCEPT ![k] = Absent]
        /\ UNCHANGED cooldown
     \/ /\ \E c \in Oldest(cooldown) : cooldown' = [cooldown EXCEPT ![c] = Absent]
        /\ UNCHANGED identity
  /\ UNCHANGED <<monitoring, paused, emitVars, dbVars, queue, sent>>

\* dedup.purge, from the maintenance loop.
Purge ==
  /\ identity' = Purged(identity)
  /\ cooldown' = Purged(cooldown)
  /\ UNCHANGED <<monitoring, paused, emitVars, dbVars, queue, sent>>

\* Delivered within the last hour: what AlertRepository.recent_keys selects.
RecentlyDelivered == {k \in Keys : history[k] \in 0..TTL}

\* The process dies and is started again.  Everything in memory is gone: a
\* transaction that had not committed rolls back.  _warm_dedup stamps now the
\* keys it reads; its query is limited and may fail, so it may read fewer.
Restart ==
  /\ \E warmed \in SUBSET RecentlyDelivered :
       identity' = [k \in Keys |-> IF k \in warmed THEN 0 ELSE Absent]
  /\ cooldown' = [c \in CoolKeys |-> Absent]
  /\ pc'    = [w \in Emitters |-> "idle"]
  /\ obs'   = [w \in Emitters |-> None]
  /\ blind' = [w \in Emitters |-> FALSE]
  /\ lock'  = None
  /\ queue' = <<>>
  /\ UNCHANGED <<monitoring, paused, dbVars, sent>>

\* Time passes.
Tick ==
  /\ \A k \in InFlight : identity[k] < TTL
  /\ identity' = [k \in Keys |-> Older(identity[k])]
  /\ cooldown' = [c \in CoolKeys |-> Older(cooldown[c])]
  /\ row'      = [k \in Keys |-> Older(row[k])]
  /\ history'  = [k \in Keys |-> Older(history[k])]
  /\ UNCHANGED <<monitoring, paused, emitVars, rows, queue, sent>>

-----------------------------------------------------------------------------
Gate(w)    == GateSeen(w) \/ GateClear(w) \/ GateError(w)
Write(w)   == Commit(w) \/ WriteFails(w)
Return(w)  == HandOver(w) \/ CommitUnknown(w)
Observe(w) == \E k \in Keys : Suppress(w, k) \/ Admit(w, k)

Emit(w) == Observe(w) \/ Gate(w) \/ TakeLock(w) \/ Write(w) \/ Return(w)

Next ==
  \/ \E w \in Emitters : Emit(w)
  \/ Deliver
  \/ Configure
  \/ Evict
  \/ Purge
  \/ Restart
  \/ Tick

Spec == Init /\ [][Next]_vars

\* The database answers every call, and asyncio.Lock wakes its waiters in the
\* order they came: a waiter is passed over only finitely often.
Fairness ==
  \A w \in Emitters :
    /\ WF_vars(Gate(w))
    /\ SF_vars(TakeLock(w))
    /\ WF_vars(Write(w))
    /\ WF_vars(Return(w))

FairSpec == Spec /\ Fairness

-----------------------------------------------------------------------------
(* Properties.                                                             *)

TypeOK ==
  /\ monitoring \in BOOLEAN
  /\ paused \in BOOLEAN
  /\ identity \in [Keys -> MaybeAge]
  /\ cooldown \in [CoolKeys -> MaybeAge]
  /\ pc \in [Emitters -> {"idle", "gate", "persist", "write", "stored"}]
  /\ obs \in [Emitters -> Keys \cup {None}]
  /\ blind \in [Emitters -> BOOLEAN]
  /\ lock \in Emitters \cup {None}
  /\ row \in [Keys -> MaybeAge]
  /\ rows \in [Keys -> Nat]
  /\ queue \in Seq(Keys)
  /\ history \in [Keys -> MaybeAge]
  /\ sent \in [Keys -> Nat]

\* Two tasks never carry the same observation past the memory gate at once,
\* whatever replays, failures, evictions and purges happen in between: the
\* synchronous check-and-stamp in Deduplicator.check is what the read-then-
\* insert of the durable gate relies on.
OneEmitterPerObservation ==
  \A v, w \in Emitters :
    pc[v] # "idle" /\ pc[w] # "idle" /\ obs[v] = obs[w] => v = w

\* No alert leaves, or waits to leave, that is not backed by a row of its own:
\* a retry, a lost acknowledgement or a replay never yields a second alert for
\* one recorded event.
OneAlertPerRow ==
  \A k \in Keys :
    sent[k] + Cardinality({i \in DOMAIN queue : queue[i] = k})
            + Cardinality({w \in Emitters : pc[w] = "stored" /\ obs[w] = k})
      <= rows[k]

\* The pipeline records an observation at most once in any IDENTITY_TTL, over
\* restarts, cache evictions, lost commit acknowledgements and concurrent
\* emitters.  The one exception is an emission whose own gate query failed: it
\* never makes another emission a duplicate.
Recorder == INSTANCE RecordOnce WITH unread <- {obs[w] : w \in {v \in Emitters : blind[v]}}
RecordsOnce == Recorder!Spec

\* Every emission comes to an end: no failure path leaves the write lock held
\* and the other emitters waiting for it.
EmissionEnds ==
  \A w \in Emitters : pc[w] # "idle" ~> pc[w] = "idle"

\* What the comment in _emit says of a persist failure: "forget the identity so
\* a retry can still alert".  The observation passes dedup.check again.
FailureIsUndone ==
  [][\A w \in Emitters, k \in Keys :
       WriteFails(w) /\ obs[w] = k => ~Known(k)' /\ ~CoolingDown(k)']_vars
=============================================================================
