------------------------- MODULE EmitPipelineProofs -------------------------
(***************************************************************************)
(* Proofs about EmitPipeline, for every number of emitters and keys and    *)
(* every TTL, cooldown and queue size: type correctness, the exclusion of  *)
(* concurrent emitters of one observation, the implementation of           *)
(* RecordOnce, failed gate queries included, and a row for every alert.    *)
(***************************************************************************)
EXTENDS EmitPipeline, FunctionTheorems, FiniteSetTheorems, TLAPS

USE EmitAssumption DEF EmitAssumption

-----------------------------------------------------------------------------
(* Facts about ages and the cache.                                         *)

\* A tick keeps an age an age and never brings an entry back to life.
LEMMA OlderFacts ==
  ASSUME NEW age \in MaybeAge
  PROVE  /\ Older(age) \in MaybeAge
         /\ Older(age) \in 0..TTL => age \in 0..TTL
         /\ age \in 0..TTL /\ age < TTL => Older(age) \in 0..TTL
BY DEF Older, MaybeAge, Absent

-----------------------------------------------------------------------------
(* Type correctness.                                                       *)

\* Every variable keeps its type; an emitter that is past the memory gate
\* carries an observation.
Carrying == \A w \in Emitters : pc[w] # "idle" => obs[w] \in Keys

TypeInv == TypeOK /\ Carrying

LEMMA TypeInit == Init => TypeInv
<1>1. Absent \in MaybeAge
  BY DEF MaybeAge, Absent
<1> QED BY <1>1 DEF Init, TypeInv, TypeOK, Carrying

LEMMA TypeStep == TypeInv /\ [Next]_vars => TypeInv'
<1> SUFFICES ASSUME TypeInv, [Next]_vars PROVE TypeInv'
  OBVIOUS
<1> USE DEF TypeInv
<1>a. 0 \in MaybeAge /\ Absent \in MaybeAge
  BY DEF MaybeAge, Absent
<1>1. ASSUME NEW w \in Emitters, NEW k \in Keys, Suppress(w, k) PROVE TypeInv'
  BY <1>1, <1>a DEF Suppress, Stamped, TypeOK, Carrying, emitVars, dbVars
<1>2. ASSUME NEW w \in Emitters, NEW k \in Keys, Admit(w, k) PROVE TypeInv'
  BY <1>2, <1>a DEF Admit, Stamped, TypeOK, Carrying, dbVars
<1>3. ASSUME NEW w \in Emitters, Gate(w) PROVE TypeInv'
  BY <1>3 DEF Gate, GateSeen, GateClear, GateError, Finish, TypeOK, Carrying,
              cacheVars, dbVars
<1>4. ASSUME NEW w \in Emitters, TakeLock(w) PROVE TypeInv'
  BY <1>4 DEF TakeLock, TypeOK, Carrying, cacheVars, dbVars
<1>5. ASSUME NEW w \in Emitters, Commit(w) PROVE TypeInv'
  BY <1>5, <1>a DEF Commit, TypeOK, Carrying, cacheVars
<1>6. ASSUME NEW w \in Emitters, WriteFails(w) \/ CommitUnknown(w) PROVE TypeInv'
  <2>1. GiveUp(w) /\ pc[w] # "idle"
    BY <1>6 DEF WriteFails, CommitUnknown
  <2>2. identity' \in [Keys -> MaybeAge]
    BY <1>a, <2>1 DEF GiveUp, TypeOK
  <2>3. TypeOK'
    BY <2>1, <2>2 DEF GiveUp, Finish, TypeOK, dbVars
  <2>4. Carrying'
    BY <2>1 DEF GiveUp, Finish, TypeOK, Carrying
  <2> QED BY <2>3, <2>4
<1>7. ASSUME NEW w \in Emitters, HandOver(w) PROVE TypeInv'
  <2>1. queue' \in Seq(Keys)
    BY <1>7 DEF HandOver, TypeOK, Carrying
  <2> QED BY <1>7, <2>1 DEF HandOver, Finish, TypeOK, Carrying, cacheVars, dbVars
<1>8. ASSUME Deliver PROVE TypeInv'
  <2>1. Head(queue) \in Keys /\ Tail(queue) \in Seq(Keys)
    BY <1>8 DEF Deliver, TypeOK
  <2>2. sent' \in [Keys -> Nat]
    BY <1>8, <2>1 DEF Deliver, TypeOK
  <2>3. history' \in [Keys -> MaybeAge]
    BY <1>8, <1>a, <2>1 DEF Deliver, TypeOK
  <2> QED BY <1>8, <2>1, <2>2, <2>3
            DEF Deliver, TypeOK, Carrying, cacheVars, emitVars
<1>9. ASSUME Configure PROVE TypeInv'
  BY <1>9 DEF Configure, TypeOK, Carrying, cacheVars, emitVars, dbVars
<1>10. ASSUME Purge PROVE TypeInv'
  BY <1>10, <1>a DEF Purge, Purged, TypeOK, Carrying, emitVars, dbVars
<1>11. ASSUME Restart PROVE TypeInv'
  BY <1>11, <1>a DEF Restart, TypeOK, Carrying, dbVars
<1>12. ASSUME Tick PROVE TypeInv'
  <2>1. \A f \in [Keys -> MaybeAge] : [k \in Keys |-> Older(f[k])] \in [Keys -> MaybeAge]
    BY OlderFacts
  <2>2. [c \in CoolKeys |-> Older(cooldown[c])] \in [CoolKeys -> MaybeAge]
    BY OlderFacts DEF TypeOK
  <2> QED BY <1>12, <2>1, <2>2 DEF Tick, TypeOK, Carrying, emitVars
<1>13. ASSUME Evict PROVE TypeInv'
  <2>1. identity' \in [Keys -> MaybeAge]
    BY <1>13, <1>a DEF Evict, TypeOK
  <2>2. cooldown' \in [CoolKeys -> MaybeAge]
    BY <1>13, <1>a DEF Evict, TypeOK
  <2> QED BY <1>13, <2>1, <2>2 DEF Evict, TypeOK, Carrying, emitVars, dbVars
<1>14. ASSUME UNCHANGED vars PROVE TypeInv'
  BY <1>14 DEF vars, TypeOK, Carrying
<1> QED
  BY <1>1, <1>2, <1>3, <1>4, <1>5, <1>6, <1>7, <1>8, <1>9, <1>10, <1>11, <1>12,
     <1>13, <1>14
     DEF Next, Emit, Observe, Write, Return

\* Every variable of the pipeline keeps its type.
THEOREM TypeCorrect == Spec => []TypeOK
<1>1. TypeInv => TypeOK
  BY DEF TypeInv
<1> QED BY <1>1, TypeInit, TypeStep, PTL DEF Spec

-----------------------------------------------------------------------------
(* The inductive invariant.                                                *)

\* The observation of an emission in flight is known to the memory gate: this
\* is what keeps a second emitter from taking it, and is true because check
\* stamps it before the first await and only its own failure pops it.
Fresh == \A w \in Emitters : pc[w] # "idle" => Known(obs[w])

\* Past the durable gate no live row exists yet, unless the gate was not read.
GateHolds ==
  \A w \in Emitters : pc[w] \in {"persist", "write"} /\ Live(obs[w]) => blind[w]

PipeInv == TypeInv /\ OneEmitterPerObservation /\ Fresh /\ GateHolds

LEMMA PipeInit == Init => PipeInv
BY TypeInit DEF Init, PipeInv, OneEmitterPerObservation, Fresh, GateHolds

\* Stamping an observation nobody carries disturbs no emission in flight.
LEMMA StampFacts ==
  ASSUME PipeInv, NEW k \in Keys, ~Known(k), identity' = Stamped(identity, k)
  PROVE  /\ Known(k)'
         /\ \A v \in Emitters : pc[v] # "idle" => obs[v] # k /\ identity'[obs[v]] \in 0..TTL
<1>1. identity \in [Keys -> MaybeAge]
  BY DEF PipeInv, TypeInv, TypeOK
<1>2. Known(k)'
  BY <1>1 DEF Known, Stamped
<1>3. ASSUME NEW v \in Emitters, pc[v] # "idle"
      PROVE  obs[v] # k /\ identity'[obs[v]] \in 0..TTL
  <2>1. obs[v] \in Keys /\ identity[obs[v]] \in 0..TTL /\ obs[v] # k
    BY <1>3 DEF PipeInv, TypeInv, Carrying, Fresh, Known
  <2> QED BY <1>1, <2>1 DEF Stamped
<1> QED BY <1>2, <1>3

LEMMA PipeStep == PipeInv /\ [Next]_vars => PipeInv'
<1> SUFFICES ASSUME PipeInv, [Next]_vars PROVE PipeInv'
  OBVIOUS
<1>t. TypeInv /\ TypeInv'
  BY TypeStep DEF PipeInv
<1>o. /\ pc \in [Emitters -> {"idle", "gate", "persist", "write", "stored"}]
      /\ obs \in [Emitters -> Keys \cup {None}]
      /\ blind \in [Emitters -> BOOLEAN]
      /\ identity \in [Keys -> MaybeAge]
      /\ row \in [Keys -> MaybeAge]
      /\ \A w \in Emitters : pc[w] # "idle" => obs[w] \in Keys
  BY <1>t DEF TypeInv, TypeOK, Carrying
<1> DEFINE Rest == OneEmitterPerObservation /\ Fresh /\ GateHolds
<1>i. Rest
  BY DEF PipeInv
<1> SUFFICES Rest'
  BY <1>t DEF PipeInv
<1>1. ASSUME NEW w \in Emitters, NEW k \in Keys, Suppress(w, k) PROVE Rest'
  <2>1. \A v \in Emitters : pc[v] # "idle" => identity'[obs[v]] \in 0..TTL
    BY <1>1, StampFacts DEF Suppress
  <2> QED BY <1>1, <1>i, <2>1
          DEF Suppress, emitVars, dbVars, OneEmitterPerObservation, Fresh, GateHolds, Known, Live
<1>2. ASSUME NEW w \in Emitters, NEW k \in Keys, Admit(w, k) PROVE Rest'
  <2>1. /\ identity'[k] \in 0..TTL
        /\ \A v \in Emitters : pc[v] # "idle" => obs[v] # k /\ identity'[obs[v]] \in 0..TTL
    BY <1>2, StampFacts DEF Admit, Known
  <2>2. \A v \in Emitters : v # w => pc'[v] = pc[v] /\ obs'[v] = obs[v]
    BY <1>2, <1>o DEF Admit
  <2>3. pc'[w] = "gate" /\ obs'[w] = k /\ blind' = blind /\ row' = row
    BY <1>2, <1>o DEF Admit, dbVars
  <2>4. OneEmitterPerObservation'
    BY <1>i, <2>1, <2>2, <2>3 DEF OneEmitterPerObservation
  <2>5. Fresh'
    BY <2>1, <2>2, <2>3 DEF Fresh, Known
  <2>6. GateHolds'
    BY <1>i, <2>2, <2>3 DEF GateHolds, Live
  <2> QED BY <2>4, <2>5, <2>6
<1>3. ASSUME NEW w \in Emitters, Gate(w) PROVE Rest'
  BY <1>3, <1>o, <1>i
     DEF Gate, GateSeen, GateClear, GateError, Finish, cacheVars, dbVars,
         OneEmitterPerObservation, Fresh, GateHolds, Known, Live
<1>4. ASSUME NEW w \in Emitters, TakeLock(w) PROVE Rest'
  BY <1>4, <1>o, <1>i
     DEF TakeLock, cacheVars, dbVars,
         OneEmitterPerObservation, Fresh, GateHolds, Known, Live
<1>5. ASSUME NEW w \in Emitters, Commit(w) PROVE Rest'
  <2>1. \A v \in Emitters : v # w /\ pc[v] # "idle" => row'[obs[v]] = row[obs[v]]
    BY <1>5, <1>o, <1>i DEF Commit, OneEmitterPerObservation
  <2>2. GateHolds'
    BY <1>5, <1>o, <1>i, <2>1 DEF Commit, GateHolds, Live
  <2> QED BY <1>5, <1>o, <1>i, <2>2
          DEF Commit, cacheVars, OneEmitterPerObservation, Fresh, Known
<1>6. ASSUME NEW w \in Emitters, WriteFails(w) \/ CommitUnknown(w) PROVE Rest'
  <2>1. GiveUp(w) /\ pc[w] # "idle"
    BY <1>6 DEF WriteFails, CommitUnknown
  <2>2. \A v \in Emitters : v # w /\ pc[v] # "idle" =>
                              identity'[obs[v]] = identity[obs[v]]
    BY <1>o, <1>i, <2>1 DEF GiveUp, OneEmitterPerObservation
  <2>3. Fresh'
    BY <1>o, <1>i, <2>1, <2>2 DEF GiveUp, Finish, Fresh, Known
  <2> QED BY <1>o, <1>i, <2>1, <2>3
          DEF GiveUp, Finish, dbVars, OneEmitterPerObservation, GateHolds, Live
<1>7. ASSUME NEW w \in Emitters, HandOver(w) PROVE Rest'
  BY <1>7, <1>o, <1>i
     DEF HandOver, Finish, cacheVars, dbVars,
         OneEmitterPerObservation, Fresh, GateHolds, Known, Live
<1>8. CASE Deliver
  BY <1>8, <1>i DEF Deliver, cacheVars, emitVars,
         OneEmitterPerObservation, Fresh, GateHolds, Known, Live
<1>9. CASE Configure
  BY <1>9, <1>i DEF Configure, cacheVars, emitVars, dbVars,
         OneEmitterPerObservation, Fresh, GateHolds, Known, Live
<1>10. CASE Purge
  <2>1. \A k \in Keys : Known(k) => Known(k)'
    BY <1>10, <1>o DEF Purge, Purged, Known
  <2> QED BY <1>10, <1>o, <1>i, <2>1
          DEF Purge, emitVars, dbVars, OneEmitterPerObservation, Fresh, GateHolds, Live, Known
<1>11. CASE Restart
  BY <1>11 DEF Restart, OneEmitterPerObservation, Fresh, GateHolds
<1>12. CASE Tick
  <2>1. \A w \in Emitters : pc[w] # "idle" => identity'[obs[w]] \in 0..TTL
    <3> SUFFICES ASSUME NEW w \in Emitters, pc[w] # "idle"
                 PROVE  identity'[obs[w]] \in 0..TTL
      OBVIOUS
    <3>1. obs[w] \in InFlight /\ obs[w] \in Keys
      BY <1>o DEF InFlight
    <3>2. identity[obs[w]] \in 0..TTL /\ identity[obs[w]] < TTL
      BY <1>12, <1>i, <3>1 DEF Tick, Fresh, Known
    <3> QED BY <1>12, <1>o, <3>1, <3>2, OlderFacts DEF Tick
  <2>2. \A k \in Keys : Live(k)' => Live(k)
    BY <1>12, <1>o, OlderFacts DEF Tick, Live
  <2> QED BY <1>12, <1>o, <1>i, <2>1, <2>2
          DEF Tick, emitVars, OneEmitterPerObservation, Fresh, GateHolds, Known
<1>13. CASE Evict
  <2>1. \A w \in Emitters : pc[w] # "idle" => identity'[obs[w]] = identity[obs[w]]
    BY <1>13, <1>o DEF Evict, InFlight
  <2> QED BY <1>13, <1>i, <2>1
          DEF Evict, emitVars, dbVars, OneEmitterPerObservation, Fresh, GateHolds, Known, Live
<1>14. CASE UNCHANGED vars
  BY <1>14, <1>i DEF vars,
         OneEmitterPerObservation, Fresh, GateHolds, Known, Live
<1> QED
  BY <1>1, <1>2, <1>3, <1>4, <1>5, <1>6, <1>7, <1>8, <1>9, <1>10, <1>11, <1>12,
     <1>13, <1>14
     DEF Next, Emit, Observe, Write, Return

LEMMA PipeCorrect == Spec => []PipeInv
BY PipeInit, PipeStep, PTL DEF Spec

-----------------------------------------------------------------------------
(* The results.                                                            *)

\* No two tasks carry one observation past the memory gate at the same time.
THEOREM Exclusion == Spec => []OneEmitterPerObservation
<1>1. PipeInv => OneEmitterPerObservation
  BY DEF PipeInv
<1> QED BY <1>1, PipeCorrect, PTL

\* Only Commit writes rows, and it writes the row of its own observation.
LEMMA RowsGrow ==
  ASSUME PipeInv, [Next]_vars, NEW k \in Keys, rows'[k] # rows[k]
  PROVE  \E w \in Emitters : Commit(w) /\ obs[w] = k
<1> SUFFICES ASSUME ~(\E w \in Emitters : Commit(w) /\ obs[w] = k) PROVE rows'[k] = rows[k]
  OBVIOUS
<1>1. rows \in [Keys -> Nat]
  BY DEF PipeInv, TypeInv, TypeOK
<1>2. ASSUME NEW w \in Emitters, Commit(w) PROVE rows'[k] = rows[k]
  BY <1>1, <1>2 DEF Commit
<1>3. CASE UNCHANGED vars
  BY <1>3 DEF vars
<1> QED
  BY <1>2, <1>3
     DEF Next, Emit, Observe, Suppress, Admit, Gate, GateSeen, GateClear, GateError,
         TakeLock, Write, WriteFails, Return, CommitUnknown, GiveUp, HandOver, Deliver,
         Configure, Evict, Purge, Restart, Tick, dbVars

LEMMA RecorderInit == Init => Recorder!Init
BY DEF Init, Recorder!Init, Absent, Recorder!Absent

LEMMA RecorderStep ==
  ASSUME PipeInv, [Next]_vars
  PROVE  [Recorder!Next]_<<row, rows>>
<1>1. ASSUME NEW w \in Emitters, Commit(w) PROVE Recorder!Record(obs[w]) /\ obs[w] \in Keys
  <2>1. obs[w] \in Keys
    BY <1>1 DEF Commit, PipeInv, TypeInv, Carrying
  <2>2. Live(obs[w]) => blind[w]
    BY <1>1 DEF Commit, PipeInv, GateHolds
  <2> QED BY <1>1, <2>1, <2>2 DEF Commit, Live, Recorder!Record, Recorder!Live
<1>2. CASE Tick
  BY <1>2 DEF Tick, Older, Absent, Recorder!Next, Recorder!Tick, Recorder!Older,
              Recorder!Absent
<1>3. CASE UNCHANGED <<row, rows>>
  BY <1>3
<1>4. CASE UNCHANGED vars
  BY <1>4, <1>3 DEF vars
<1> QED
  BY <1>1, <1>2, <1>3, <1>4
     DEF Recorder!Next, Next, Emit, Observe, Suppress, Admit, Gate, GateSeen, GateClear,
         GateError, TakeLock, Write, WriteFails, Return, CommitUnknown, GiveUp, HandOver,
         Deliver, Configure, Evict, Purge, Restart, dbVars

\* The pipeline implements RecordOnce: one row per observation in any window of
\* TTL, a failed gate query of the observation's own emission excepted, for
\* every number of emitters and any interleaving with evictions and restarts.
THEOREM Implementation == Spec => RecordsOnce
<1>1. PipeInv /\ [Next]_vars => [Recorder!Next]_<<row, rows>>
  BY RecorderStep
<1> QED BY <1>1, RecorderInit, PipeCorrect, PTL DEF Spec, RecordsOnce, Recorder!Spec

-----------------------------------------------------------------------------
(* Alerts and rows.  An alert on its way is a job in the queue or an emitter *)
(* that has stored its row and not handed it over yet; Exclusion makes the   *)
(* latter one at most.                                                       *)

JobsOf(q, k) == {i \in DOMAIN q : q[i] = k}
StoredOf(k)  == {w \in Emitters : pc[w] = "stored" /\ obs[w] = k}

LEMMA JobsFinite ==
  ASSUME NEW q \in Seq(Keys), NEW k
  PROVE  /\ IsFiniteSet(JobsOf(q, k))
         /\ Cardinality(JobsOf(q, k)) \in Nat
         /\ JobsOf(q, k) \in SUBSET (1 .. Len(q))
<1>1. Len(q) \in Nat /\ DOMAIN q = 1 .. Len(q)
  OBVIOUS
<1>2. IsFiniteSet(1 .. Len(q))
  BY <1>1, FS_Interval
<1>3. JobsOf(q, k) \in SUBSET (1 .. Len(q))
  BY <1>1 DEF JobsOf
<1> QED BY <1>2, <1>3, FS_Subset, FS_CardinalityType

LEMMA JobsAppend ==
  ASSUME NEW q \in Seq(Keys), NEW x \in Keys, NEW k
  PROVE  /\ x = k => Cardinality(JobsOf(Append(q, x), k)) = Cardinality(JobsOf(q, k)) + 1
         /\ x # k => Cardinality(JobsOf(Append(q, x), k)) = Cardinality(JobsOf(q, k))
<1> DEFINE n == Len(q)
<1>1. n \in Nat /\ DOMAIN q = 1 .. n
  OBVIOUS
<1>2. /\ DOMAIN Append(q, x) = 1 .. n + 1 /\ Append(q, x)[n + 1] = x
      /\ \A i \in 1 .. n : Append(q, x)[i] = q[i]
  BY <1>1
<1>3. IsFiniteSet(JobsOf(q, k)) /\ Cardinality(JobsOf(q, k)) \in Nat /\ n + 1 \notin JobsOf(q, k)
  BY <1>1, JobsFinite
<1>4. CASE x = k
  <2>1. JobsOf(Append(q, x), k) = JobsOf(q, k) \cup {n + 1}
    BY <1>1, <1>2, <1>4 DEF JobsOf
  <2> QED BY <1>3, <1>4, <2>1, FS_AddElement
<1>5. CASE x # k
  <2>1. JobsOf(Append(q, x), k) = JobsOf(q, k)
    BY <1>1, <1>2, <1>5 DEF JobsOf
  <2> QED BY <1>3, <1>5, <2>1
<1> QED BY <1>4, <1>5

LEMMA JobsTail ==
  ASSUME NEW q \in Seq(Keys), q # <<>>, NEW k
  PROVE  /\ Head(q) = k => Cardinality(JobsOf(q, k)) = Cardinality(JobsOf(Tail(q), k)) + 1
         /\ Head(q) # k => Cardinality(JobsOf(q, k)) = Cardinality(JobsOf(Tail(q), k))
<1> DEFINE n == Len(q)
           S == JobsOf(Tail(q), k)
           T == JobsOf(q, k) \ {1}
           f == [i \in S |-> i + 1]
<1>1. n \in Nat /\ n >= 1 /\ DOMAIN q = 1 .. n /\ Head(q) = q[1]
  OBVIOUS
<1>2. /\ Tail(q) \in Seq(Keys) /\ DOMAIN Tail(q) = 1 .. n - 1
      /\ \A i \in 1 .. n - 1 : Tail(q)[i] = q[i + 1]
  BY <1>1
<1>3. IsFiniteSet(S) /\ Cardinality(S) \in Nat /\ S \in SUBSET (1 .. n - 1)
  <2>1. S \in SUBSET (1 .. n - 1)
    BY <1>2 DEF JobsOf
  <2> QED BY <1>2, <2>1, JobsFinite
<1>4. \A i \in S : i + 1 \in T
  BY <1>1, <1>2, <1>3 DEF JobsOf
<1>5. \A j \in T : j - 1 \in S /\ (j - 1) + 1 = j
  BY <1>1, <1>2 DEF JobsOf
<1>6. ExistsBijection(S, T)
  <2> HIDE DEF S, T
  <2>1. f \in [S -> T]
    BY <1>4
  <2>2. \A i, j \in S : f[i] = f[j] => i = j
    BY <1>3
  <2>3. \A j \in T : \E i \in S : f[i] = j
    BY <1>5
  <2> QED BY <2>1, <2>2, <2>3, Fun_IsBij, Fun_ExistsBij
<1>7. IsFiniteSet(T) /\ Cardinality(T) = Cardinality(S)
  BY <1>3, <1>6, FS_Bijection
<1>8. CASE Head(q) = k
  <2>1. JobsOf(q, k) = T \cup {1} /\ 1 \notin T
    BY <1>1, <1>8 DEF JobsOf
  <2> HIDE DEF S, T
  <2>2. Cardinality(T \cup {1}) = Cardinality(T) + 1
    BY <1>7, <2>1, FS_AddElement
  <2>3. Cardinality(JobsOf(q, k)) = Cardinality(S) + 1
    BY <1>7, <2>1, <2>2
  <2> QED BY <1>8, <2>3 DEF S
<1>9. CASE Head(q) # k
  <2>1. JobsOf(q, k) = T
    BY <1>1, <1>9 DEF JobsOf
  <2> HIDE DEF S, T
  <2>2. Cardinality(JobsOf(q, k)) = Cardinality(S)
    BY <1>7, <2>1
  <2> QED BY <1>9, <2>2 DEF S
<1> QED BY <1>8, <1>9

\* Of one observation, at most one row is stored and not handed over.
LEMMA StoredOnce ==
  ASSUME OneEmitterPerObservation, NEW w \in Emitters, pc[w] = "stored"
  PROVE  StoredOf(obs[w]) = {w}
BY DEF OneEmitterPerObservation, StoredOf

LEMMA StoredFinite ==
  ASSUME OneEmitterPerObservation, NEW k
  PROVE  Cardinality(StoredOf(k)) \in Nat
<1>1. CASE StoredOf(k) = {}
  BY <1>1, FS_EmptySet
<1>2. CASE StoredOf(k) # {}
  <2>1. PICK w \in Emitters : pc[w] = "stored" /\ obs[w] = k
    BY <1>2 DEF StoredOf
  <2>2. StoredOf(k) = {w}
    BY <2>1, StoredOnce
  <2>3. Cardinality({w}) = 1
    BY FS_Singleton
  <2> QED BY <2>2, <2>3
<1> QED BY <1>1, <1>2

LEMMA AlertsInit == Init => OneAlertPerRow
<1> SUFFICES ASSUME Init, NEW k \in Keys
             PROVE  sent[k] + Cardinality(JobsOf(queue, k)) + Cardinality(StoredOf(k)) <= rows[k]
  BY DEF OneAlertPerRow, JobsOf, StoredOf
<1>1. sent[k] = 0 /\ rows[k] = 0 /\ JobsOf(queue, k) = {} /\ StoredOf(k) = {}
  BY DEF Init, JobsOf, StoredOf
<1> QED BY <1>1, FS_EmptySet

LEMMA AlertsStep ==
  ASSUME PipeInv, PipeInv', OneAlertPerRow, [Next]_vars
  PROVE  OneAlertPerRow'
<1> SUFFICES ASSUME NEW k \in Keys
             PROVE  sent'[k] + Cardinality(JobsOf(queue', k)) + Cardinality(StoredOf(k)')
                      <= rows'[k]
  BY DEF OneAlertPerRow, JobsOf, StoredOf
<1>o. /\ pc \in [Emitters -> {"idle", "gate", "persist", "write", "stored"}]
      /\ obs \in [Emitters -> Keys \cup {None}]
      /\ queue \in Seq(Keys) /\ queue' \in Seq(Keys)
      /\ rows \in [Keys -> Nat] /\ sent \in [Keys -> Nat]
      /\ \A w \in Emitters : pc[w] # "idle" => obs[w] \in Keys
      /\ OneEmitterPerObservation
  BY DEF PipeInv, TypeInv, TypeOK, Carrying
<1>n. /\ Cardinality(JobsOf(queue, k)) \in Nat /\ Cardinality(JobsOf(queue', k)) \in Nat
      /\ Cardinality(StoredOf(k)) \in Nat /\ sent[k] \in Nat /\ rows[k] \in Nat
  BY <1>o, JobsFinite, StoredFinite
<1>i. sent[k] + Cardinality(JobsOf(queue, k)) + Cardinality(StoredOf(k)) <= rows[k]
  BY DEF OneAlertPerRow, JobsOf, StoredOf
<1>s. ASSUME sent' = sent, rows' = rows, queue' = queue, StoredOf(k)' = StoredOf(k)
      PROVE  sent'[k] + Cardinality(JobsOf(queue', k)) + Cardinality(StoredOf(k)') <= rows'[k]
  BY <1>i, <1>s
<1> DEFINE Goal == sent'[k] + Cardinality(JobsOf(queue', k)) + Cardinality(StoredOf(k)')
                     <= rows'[k]
<1>1. ASSUME NEW w \in Emitters, Observe(w) \/ Gate(w) \/ TakeLock(w) \/ WriteFails(w)
      PROVE  Goal
  <2>1. sent' = sent /\ rows' = rows /\ queue' = queue
    BY <1>1 DEF Observe, Suppress, Admit, Gate, GateSeen, GateClear, GateError, TakeLock,
                WriteFails, GiveUp, dbVars
  <2>2. StoredOf(k)' = StoredOf(k)
    BY <1>1, <1>o DEF Observe, Suppress, Admit, Gate, GateSeen, GateClear, GateError, TakeLock,
                WriteFails, GiveUp, Finish, emitVars, StoredOf
  <2> QED BY <1>s, <2>1, <2>2
<1>2. ASSUME NEW w \in Emitters, Commit(w) PROVE Goal
  <2>1. sent' = sent /\ queue' = queue /\ pc' = [pc EXCEPT ![w] = "stored"] /\ obs' = obs
        /\ rows' = [rows EXCEPT ![obs[w]] = @ + 1] /\ pc[w] = "write"
    BY <1>2 DEF Commit
  <2>2. CASE obs[w] = k
    <3>1. StoredOf(k) = {}
      BY <1>o, <2>1, <2>2 DEF StoredOf, OneEmitterPerObservation
    <3>2. StoredOf(k)' = {w}
      BY <1>o, <2>1, <2>2, <3>1 DEF StoredOf
    <3>3. Cardinality(StoredOf(k)) = 0 /\ Cardinality(StoredOf(k)') = 1
      BY <3>1, <3>2, FS_EmptySet, FS_Singleton
    <3>4. rows'[k] = rows[k] + 1
      BY <1>o, <2>1, <2>2
    <3> QED BY <1>n, <1>i, <2>1, <3>3, <3>4
  <2>3. CASE obs[w] # k
    <3>1. StoredOf(k)' = StoredOf(k)
      BY <1>o, <2>1, <2>3 DEF StoredOf
    <3>2. rows'[k] = rows[k]
      BY <1>o, <2>1, <2>3
    <3> QED BY <1>i, <2>1, <3>1, <3>2
  <2> QED BY <2>2, <2>3
<1>3. ASSUME NEW w \in Emitters, Return(w) PROVE Goal
  <2>1. /\ pc[w] = "stored" /\ pc' = [pc EXCEPT ![w] = "idle"] /\ obs' = [obs EXCEPT ![w] = None]
        /\ sent' = sent /\ rows' = rows
        /\ queue' = queue \/ queue' = Append(queue, obs[w])
        /\ obs[w] \in Keys
    BY <1>3, <1>o DEF Return, HandOver, CommitUnknown, GiveUp, Finish, dbVars
  <2>2. CASE obs[w] = k
    <3>1. StoredOf(k) = {w}
      BY <1>o, <2>1, <2>2, StoredOnce
    <3>2. StoredOf(k)' = {}
      BY <1>o, <2>1, <2>2, <3>1 DEF StoredOf
    <3>3. Cardinality(StoredOf(k)) = 1 /\ Cardinality(StoredOf(k)') = 0
      BY <3>1, <3>2, FS_EmptySet, FS_Singleton
    <3>4. Cardinality(JobsOf(queue', k)) <= Cardinality(JobsOf(queue, k)) + 1
      <4>1. CASE queue' = queue
        BY <1>n, <4>1
      <4>2. CASE queue' = Append(queue, obs[w])
        <5>1. Cardinality(JobsOf(Append(queue, obs[w]), k)) = Cardinality(JobsOf(queue, k)) + 1
          BY <1>o, <2>1, <2>2, JobsAppend
        <5> QED BY <1>n, <4>2, <5>1
      <4> QED BY <2>1, <4>1, <4>2
    <3> QED BY <1>n, <1>i, <2>1, <3>3, <3>4
  <2>3. CASE obs[w] # k
    <3>1. StoredOf(k)' = StoredOf(k)
      BY <1>o, <2>1, <2>3 DEF StoredOf
    <3>2. Cardinality(JobsOf(queue', k)) = Cardinality(JobsOf(queue, k))
      <4>1. CASE queue' = queue
        BY <4>1
      <4>2. CASE queue' = Append(queue, obs[w])
        <5>1. Cardinality(JobsOf(Append(queue, obs[w]), k)) = Cardinality(JobsOf(queue, k))
          BY <1>o, <2>1, <2>3, JobsAppend
        <5> QED BY <4>2, <5>1
      <4> QED BY <2>1, <4>1, <4>2
    <3> QED BY <1>i, <2>1, <3>1, <3>2
  <2> QED BY <2>2, <2>3
<1>4. ASSUME Deliver PROVE Goal
  <2>1. /\ queue # <<>> /\ queue' = Tail(queue) /\ rows' = rows /\ pc' = pc /\ obs' = obs
        /\ sent' = sent \/ sent' = [sent EXCEPT ![Head(queue)] = @ + 1]
    BY <1>4 DEF Deliver, emitVars
  <2>2. StoredOf(k)' = StoredOf(k)
    BY <2>1 DEF StoredOf
  <2>3. Cardinality(StoredOf(k)') = Cardinality(StoredOf(k)) /\ rows'[k] = rows[k]
    BY <2>1, <2>2
  <2>4. Head(queue) \in Keys
    BY <1>o, <2>1
  <2>5. CASE Head(queue) = k
    <3>1. Cardinality(JobsOf(queue, k)) = Cardinality(JobsOf(queue', k)) + 1
      BY <1>o, <2>1, <2>5, JobsTail
    <3>2. sent'[k] = sent[k] \/ sent'[k] = sent[k] + 1
      BY <1>o, <2>1, <2>5
    <3> QED BY <1>n, <1>i, <2>3, <3>1, <3>2
  <2>6. CASE Head(queue) # k
    <3>1. Cardinality(JobsOf(queue, k)) = Cardinality(JobsOf(queue', k))
      BY <1>o, <2>1, <2>6, JobsTail
    <3>2. sent'[k] = sent[k]
      BY <1>o, <2>1, <2>4, <2>6
    <3> QED BY <1>n, <1>i, <2>3, <3>1, <3>2
  <2> QED BY <2>5, <2>6
<1>5. ASSUME Restart PROVE Goal
  <2>1. queue' = <<>> /\ rows' = rows /\ sent' = sent /\ pc' = [w \in Emitters |-> "idle"]
    BY <1>5 DEF Restart, dbVars
  <2>2. StoredOf(k)' = {} /\ JobsOf(queue', k) = {}
    BY <2>1 DEF StoredOf, JobsOf
  <2>3. Cardinality(StoredOf(k)') = 0 /\ Cardinality(JobsOf(queue', k)) = 0
    BY <2>2, FS_EmptySet
  <2> QED BY <1>n, <1>i, <2>1, <2>3
<1>6. ASSUME Configure \/ Evict \/ Purge \/ Tick \/ UNCHANGED vars PROVE Goal
  <2>1. sent' = sent /\ rows' = rows /\ queue' = queue /\ pc' = pc /\ obs' = obs
    BY <1>6 DEF Configure, Evict, Purge, Tick, vars, emitVars, dbVars
  <2> QED BY <1>s, <2>1 DEF StoredOf
<1> QED BY <1>1, <1>2, <1>3, <1>4, <1>5, <1>6 DEF Next, Emit, Write

\* No alert leaves, or waits to leave, without a row of its own: retries, lost
\* acknowledgements, restarts and replays never make two of one row.
THEOREM AlertsHaveRows == Spec => []OneAlertPerRow
<1>1. PipeInv /\ PipeInv' /\ OneAlertPerRow /\ [Next]_vars => OneAlertPerRow'
  BY AlertsStep
<1> QED BY <1>1, AlertsInit, PipeCorrect, PTL DEF Spec
=============================================================================
