------------------------ MODULE AlertDeliveryProofs ------------------------
(***************************************************************************)
(* Proofs about the two halves of AlertService's broadcast.                *)
(*                                                                         *)
(* Of RecipientCache, for any users and any RECIPIENT_CACHE_TTL: the list  *)
(* an alert goes to is never more than that out of date.  Of               *)
(* AlertDelivery, for any chats, threads, queue size and number of alerts: *)
(* the order in which a chat sees its alerts and how often, the threads    *)
(* they reply into, and the truth of alert_history.                        *)
(***************************************************************************)
EXTENDS RecipientCache, AlertDelivery, WellFoundedInduction, TLAPS

-----------------------------------------------------------------------------
(* RecipientCache.  The times of the facts grow by Tick only, and so do    *)
(* the ages of the draft and of the cache.  So a time that was 0 when the  *)
(* resolver read the fact it contradicts is at most the draft's age ever   *)
(* since, and at most the age of the list stored from the draft.           *)

OptOutsRead == sender \in {"admins", "subscribers", "store"}
Listed   == sender \in {"subscribers", "store"}
Drafted  == draft.list.admins \cup draft.list.subscribers

\* A fact's time is 0 while the fact does not hold.
TimesStart ==
  \A u \in Users :
    /\ u \notin OptedOut  => offFor[u] = 0
    /\ u \notin Outsiders => outFor[u] = 0
    /\ u \notin DueAdmins => dueFor[u] = 0

\* Who is in the draft, or may come into it, was not opted out when its
\* opt-outs were read.
StopInv ==
  /\ OptOutsRead /\ ~draft.blind => \A u \in Users \ draft.off : offFor[u] <= draft.age
  /\ Drafted \cap draft.off = {}
  /\ ~blind => \A u \in Recipients : offFor[u] <= age

\* Who is in the draft was an administrator, or the bot was public, when the
\* administrators were read.
PrivateInv ==
  /\ ~Listed => draft.list = NoList
  /\ sender = "subscribers" => \A u \in Users : outFor[u] <= draft.age
  /\ sender = "store" => \A u \in Drafted : outFor[u] <= draft.age
  /\ \A u \in Recipients : outFor[u] <= age

\* Who is not in the draft was no administrator then, or had opted out before.
ReachInv ==
  /\ ~OptOutsRead => draft.off = {}
  /\ OptOutsRead => \A u \in draft.off : dueFor[u] <= draft.age
  /\ Listed => \A u \in Users \ draft.list.admins : dueFor[u] <= draft.age
  /\ \A u \in Users \ Recipients : dueFor[u] <= age

RecipientInv == TypeOK /\ TimesStart /\ StopInv /\ PrivateInv /\ ReachInv

\* A step of the world outside the resolver: no time grows, and the cache can
\* only become too old.
WorldStep ==
  /\ UNCHANGED <<cache, blind, resolverVars>>
  /\ age' \in {age, TTL}
  /\ \A u \in Users :
       offFor'[u] <= offFor[u] /\ outFor'[u] <= outFor[u] /\ dueFor'[u] <= dueFor[u]

-----------------------------------------------------------------------------
\* Initially nothing is cached and no time has passed.
LEMMA RecipientInitInv == RecipientInit => RecipientInv
<1> SUFFICES ASSUME RecipientInit PROVE RecipientInv
  OBVIOUS
<1> USE RecipientAssumption DEF RecipientInit
<1>1. TypeOK
  <2>1. NoList \in Lists
    BY DEF Lists, NoList
  <2>2. /\ handler \in [at : {"idle", "invalidate", "refresh", "reply"}, user : Users,
                        changed : BOOLEAN]
        /\ draft \in [age : 0..TTL, off : SUBSET Users, blind : BOOLEAN, list : Lists]
    BY <2>1 DEF Idle, NoDraft
  <2>3. /\ offFor \in [Users -> 0..TTL] /\ outFor \in [Users -> 0..TTL]
        /\ dueFor \in [Users -> 0..TTL] /\ age \in 0..TTL
    OBVIOUS
  <2>4. /\ status \in [Users -> {"none", "on", "off"}]
        /\ stored \in SUBSET (Users \ {Main}) /\ roles \in SUBSET (Users \ {Main})
        /\ public \in BOOLEAN /\ blind \in BOOLEAN
        /\ cache \in Lists
    BY <2>1
  <2>5. sender \in {"idle", "optouts", "admins", "subscribers", "store"}
    OBVIOUS
  <2> QED
    BY <2>2, <2>3, <2>4, <2>5 DEF TypeOK
<1>2. TimesStart
  BY DEF TimesStart
<1>3. StopInv /\ PrivateInv /\ ReachInv
  BY DEF StopInv, PrivateInv, ReachInv, OptOutsRead, Listed, Drafted, Recipients, NoList, NoDraft
<1> QED
  BY <1>1, <1>2, <1>3 DEF RecipientInv

\* What Witness leaves: no time grows, and the times of facts that do not hold
\* are 0.
LEMMA WitnessTimes ==
  ASSUME TypeOK, Witness
  PROVE  /\ offFor' \in [Users -> 0..TTL]
         /\ outFor' \in [Users -> 0..TTL]
         /\ dueFor' \in [Users -> 0..TTL]
         /\ TimesStart'
         /\ \A u \in Users :
              offFor'[u] <= offFor[u] /\ outFor'[u] <= outFor[u] /\ dueFor'[u] <= dueFor[u]
<1> DEFINE A == OptedOut'
           B == Outsiders'
           C == DueAdmins'
<1>1. /\ offFor' = [u \in Users |-> IF u \in A THEN offFor[u] ELSE 0]
      /\ outFor' = [u \in Users |-> IF u \in B THEN outFor[u] ELSE 0]
      /\ dueFor' = [u \in Users |-> IF u \in C THEN dueFor[u] ELSE 0]
  BY DEF Witness, Kept
<1>2. TimesStart'
  BY <1>1 DEF TimesStart
<1> HIDE DEF A, B, C
<1>3. QED
  BY <1>1, <1>2, RecipientAssumption DEF TypeOK

\* Every step of a handler, and the marking of a blocked subscriber, is a step
\* of the world.
LEMMA WorldActions ==
  ASSUME TypeOK, TimesStart, Handler \/ \E u \in Users : MarkBlocked(u)
  PROVE  WorldStep /\ TypeOK' /\ TimesStart'
<1> USE RecipientAssumption DEF worldVars, cacheVars, resolverVars, timeVars
<1>1. ASSUME NEW u \in Users, MarkBlocked(u)
      PROVE  WorldStep /\ TypeOK' /\ TimesStart'
  BY <1>1, WitnessTimes DEF MarkBlocked, WorldStep, TypeOK
<1>2. ASSUME NEW u \in Users, Register(u) \/ Start(u) \/ StartFails(u)
      PROVE  WorldStep /\ TypeOK' /\ TimesStart'
  BY <1>2, WitnessTimes DEF Register, Start, StartFails, WorldStep, TypeOK, Idle
<1>3. ASSUME NEW u \in Users, Stop(u) \/ StopFails(u)
      PROVE  WorldStep /\ TypeOK' /\ TimesStart'
  <2>1. Witness /\ UNCHANGED <<stored, roles, public, cacheVars, resolverVars>>
    BY <1>3 DEF Stop, StopFails
  <2>2. WorldStep /\ TimesStart'
    BY <2>1, WitnessTimes DEF WorldStep
  <2>3. status' \in [Users -> {"none", "on", "off"}]
    BY <1>3 DEF Stop, StopFails, TypeOK
  <2>4. handler' \in [at : {"idle", "invalidate", "refresh", "reply"}, user : Users,
                     changed : BOOLEAN]
    <3>1. \E at \in {"invalidate", "reply"} : handler' = [at |-> at, user |-> u, changed |-> TRUE]
      BY <1>3 DEF Stop, StopFails
    <3> QED
      BY <3>1
  <2> QED
    BY <2>1, <2>2, <2>3, <2>4, WitnessTimes DEF TypeOK
<1>4. ASSUME NEW b \in BOOLEAN, SetPublic(b)
      PROVE  WorldStep /\ TypeOK' /\ TimesStart'
  BY <1>4, WitnessTimes DEF SetPublic, WorldStep, TypeOK, Idle
<1>5. CASE ResetSettings
  BY <1>5, WitnessTimes DEF ResetSettings, WorldStep, TypeOK
<1>6. ASSUME NEW u \in Users, AddCoAdmin(u) \/ RemoveCoAdmin(u)
      PROVE  WorldStep /\ TypeOK' /\ TimesStart'
  <2>1. WorldStep
    BY <1>6 DEF AddCoAdmin, RemoveCoAdmin, WorldStep, TypeOK
  <2>2. TypeOK'
    <3> DEFINE refresh(c) == [Idle EXCEPT !.at = "refresh", !.changed = c]
    <3>1. \E changed \in BOOLEAN : handler' = refresh(changed)
      <4>1. handler' = refresh(u \notin stored) \/ handler' = refresh(u \in stored)
        BY <1>6 DEF AddCoAdmin, RemoveCoAdmin
      <4>2. (u \notin stored) \in BOOLEAN /\ (u \in stored) \in BOOLEAN
        OBVIOUS
      <4> HIDE DEF refresh
      <4> QED
        BY <4>1, <4>2, Zenon
    <3>2. handler' \in [at : {"idle", "invalidate", "refresh", "reply"}, user : Users,
                       changed : BOOLEAN]
      BY <3>1 DEF Idle
    <3>3. stored' \in SUBSET (Users \ {Main})
      BY <1>6 DEF AddCoAdmin, RemoveCoAdmin, TypeOK, AdminIds
    <3>4. UNCHANGED <<status, roles, public, cacheVars, resolverVars, timeVars>>
      BY <1>6 DEF AddCoAdmin, RemoveCoAdmin
    <3> QED
      BY <3>2, <3>3, <3>4 DEF TypeOK
  <2>3. TimesStart'
    BY <1>6 DEF AddCoAdmin, RemoveCoAdmin, TimesStart, OptedOut, Outsiders, DueAdmins, AdminIds
  <2> QED
    BY <2>1, <2>2, <2>3
<1>7. CASE Refresh
  BY <1>7, WitnessTimes DEF Refresh, WorldStep, TypeOK, Idle
<1>8. CASE RefreshFails \/ Invalidate \/ Reply
  <2>1. WorldStep /\ TypeOK'
    <3>1. CASE RefreshFails
      BY <3>1 DEF RefreshFails, WorldStep, TypeOK, Idle
    <3>2. CASE Invalidate
      BY <3>2 DEF Invalidate, WorldStep, TypeOK, Idle
    <3>3. CASE Reply
      BY <3>3 DEF Reply, WorldStep, TypeOK, Idle
    <3> QED
      BY <1>8, <3>1, <3>2, <3>3
  <2>2. TimesStart'
    BY <1>8 DEF RefreshFails, Invalidate, Reply, TimesStart, OptedOut, Outsiders, DueAdmins,
                AdminIds
  <2> QED
    BY <2>1, <2>2
<1> QED
  BY <1>1, <1>2, <1>3, <1>4, <1>5, <1>6, <1>7, <1>8 DEF Handler

\* A step of the world keeps every bound.
LEMMA WorldKeeps ==
  ASSUME RecipientInv, WorldStep, TypeOK'
  PROVE  StopInv' /\ PrivateInv' /\ ReachInv'
<1> USE RecipientAssumption DEF RecipientInv, WorldStep, resolverVars, OptOutsRead, Listed, Drafted, Recipients
<1>1. /\ \A u \in Users : /\ offFor[u] \in Nat /\ offFor'[u] \in 0..TTL
                         /\ outFor[u] \in Nat /\ outFor'[u] \in 0..TTL
                         /\ dueFor[u] \in Nat /\ dueFor'[u] \in 0..TTL
      /\ age \in Nat /\ draft.age \in Nat /\ TTL \in Nat
      /\ Recipients \subseteq Users /\ Drafted \subseteq Users /\ draft.off \subseteq Users
  BY DEF TypeOK, Lists
<1>2. StopInv'
  BY <1>1 DEF StopInv
<1>3. PrivateInv'
  BY <1>1 DEF PrivateInv
<1>4. ReachInv'
  BY <1>1 DEF ReachInv
<1> QED
  BY <1>2, <1>3, <1>4

\* The stages of the resolver: each read bounds the times of whom it admits.
LEMMA ResolverKeeps ==
  ASSUME RecipientInv, StartResolving \/ ReadOptOuts \/ ReadAdmins \/ ReadSubscribers \/ Store
  PROVE  RecipientInv'
<1> USE RecipientAssumption DEF RecipientInv, worldVars, cacheVars, timeVars, OptOutsRead
<1>0. TimesStart'
  BY DEF StartResolving, ReadOptOuts, ReadAdmins, ReadSubscribers, Store, TimesStart, OptedOut,
         Outsiders, DueAdmins, AdminIds
<1>1. CASE StartResolving
  <2>1. TypeOK'
    BY <1>1 DEF StartResolving, TypeOK, NoDraft, NoList, Lists
  <2>2. StopInv' /\ PrivateInv' /\ ReachInv'
    BY <1>1 DEF StartResolving, StopInv, PrivateInv, ReachInv, OptOutsRead, Listed, Drafted, Recipients,
                NoDraft, NoList
  <2> QED
    BY <1>0, <2>1, <2>2
<1>2. CASE ReadOptOuts
  <2>1. /\ draft' \in [age : 0..TTL, off : SUBSET Users, blind : BOOLEAN, list : Lists]
        /\ draft.age \in Nat /\ draft'.age = draft.age /\ draft'.list = draft.list
        /\ draft'.off = OptedOut \/ (draft'.blind = TRUE /\ draft'.off = draft.off)
    <3>1. CASE draft' = [draft EXCEPT !.off = OptedOut]
      BY <3>1 DEF TypeOK, OptedOut
    <3>2. CASE draft' = [draft EXCEPT !.blind = TRUE]
      <4> DEFINE Drafts == [age : 0..TTL, off : SUBSET Users, blind : BOOLEAN, list : Lists]
      <4>1. draft \in Drafts
        BY DEF TypeOK
      <4>2. draft' \in Drafts
        BY <3>2, <4>1
      <4>3. draft'.blind = TRUE
        BY <3>2, <4>1
      <4>4. /\ draft.age \in Nat /\ draft'.age = draft.age /\ draft'.list = draft.list
            /\ draft'.off = draft.off
        BY <3>2, <4>1
      <4> QED
        BY <4>2, <4>3, <4>4
    <3> QED
      BY <1>2, <3>1, <3>2 DEF ReadOptOuts
  <2>2. sender' = "admins" /\ sender = "optouts"
    BY <1>2 DEF ReadOptOuts
  <2>3. UNCHANGED <<status, stored, roles, public, cache, age, blind, handler, offFor, outFor,
                    dueFor>>
    BY <1>2 DEF ReadOptOuts
  <2>4. TypeOK'
    BY <2>1, <2>2, <2>3 DEF TypeOK
  <2>5. draft.list = NoList /\ draft.off = {}
    BY <2>2 DEF PrivateInv, Listed, ReachInv
  <2>6. StopInv'
    BY <2>1, <2>2, <2>3, <2>5 DEF StopInv, TimesStart, Drafted, NoList, Recipients
  <2>7. PrivateInv'
    BY <2>1, <2>2, <2>3, <2>5 DEF PrivateInv, Listed, Recipients
  <2>8. ReachInv'
    BY <2>1, <2>2, <2>3, <2>5 DEF ReachInv, TimesStart, DueAdmins, Listed, Recipients, OptedOut
  <2> QED
    BY <1>0, <2>4, <2>6, <2>7, <2>8
<1>3. CASE ReadAdmins
  <2>1. /\ draft' \in [age : 0..TTL, off : SUBSET Users, blind : BOOLEAN, list : Lists]
        /\ draft.age \in Nat /\ draft'.age = draft.age /\ draft'.off = draft.off
        /\ draft'.blind = draft.blind
        /\ draft'.list.admins = AdminIds \ draft.off
        /\ draft'.list.subscribers = draft.list.subscribers
    BY <1>3 DEF ReadAdmins, TypeOK, Lists, AdminIds
  <2>2. /\ sender = "admins"
        /\ sender' = IF public THEN "subscribers" ELSE "store"
    BY <1>3 DEF ReadAdmins
  <2>3. UNCHANGED <<status, stored, roles, public, cache, age, blind, handler, offFor, outFor,
                    dueFor>>
    BY <1>3 DEF ReadAdmins
  <2>4. TypeOK'
    BY <2>1, <2>2, <2>3 DEF TypeOK
  <2>5. draft.list.subscribers = {}
    BY <2>2 DEF PrivateInv, Listed, NoList
  <2>6. StopInv'
    BY <2>1, <2>2, <2>3, <2>5 DEF StopInv, OptOutsRead, Drafted, Recipients
  <2>7. PrivateInv'
    <3>1. CASE public
      BY <3>1, <2>1, <2>2, <2>3 DEF PrivateInv, TimesStart, Outsiders, Listed, Recipients
    <3>2. CASE ~public
      <4>1. sender' = "store"
        BY <3>2, <2>2
      <4>2. \A u \in Drafted' : u \in Users /\ outFor[u] = 0
        BY <2>1, <2>5 DEF TimesStart, Outsiders, Drafted, TypeOK, AdminIds
      <4> QED
        BY <4>1, <4>2, <2>1, <2>3 DEF PrivateInv, Listed, Recipients
    <3> QED
      BY <3>1, <3>2
  <2>8. ReachInv'
    BY <2>1, <2>2, <2>3 DEF ReachInv, TimesStart, DueAdmins, OptOutsRead, Listed, Recipients
  <2> QED
    BY <1>0, <2>4, <2>6, <2>7, <2>8
<1>4. CASE ReadSubscribers
  <2>1. /\ draft' \in [age : 0..TTL, off : SUBSET Users, blind : BOOLEAN, list : Lists]
        /\ draft.age \in Nat /\ draft'.age = draft.age /\ draft'.off = draft.off
        /\ draft'.blind = draft.blind
        /\ draft'.list.admins = draft.list.admins
        /\ \/ draft'.list.subscribers = Subscribers \ (draft.off \cup draft.list.admins)
           \/ draft'.list.subscribers = draft.list.subscribers
    BY <1>4 DEF ReadSubscribers, TypeOK, Lists, Subscribers
  <2>2. sender = "subscribers" /\ sender' = "store"
    BY <1>4 DEF ReadSubscribers
  <2>3. UNCHANGED <<status, stored, roles, public, cache, age, blind, handler, offFor, outFor,
                    dueFor>>
    BY <1>4 DEF ReadSubscribers
  <2>4. TypeOK'
    BY <2>1, <2>2, <2>3 DEF TypeOK
  <2>5. StopInv'
    BY <2>1, <2>2, <2>3 DEF StopInv, OptOutsRead, Drafted, Recipients
  <2>6. PrivateInv'
    BY <2>1, <2>2, <2>3, <2>4 DEF PrivateInv, Listed, Drafted, Recipients, TypeOK, Lists
  <2>7. ReachInv'
    BY <2>1, <2>2, <2>3 DEF ReachInv, OptOutsRead, Listed, Recipients
  <2> QED
    BY <1>0, <2>4, <2>5, <2>6, <2>7
<1>5. CASE Store
  <2>1. /\ sender = "store" /\ sender' = "idle" /\ draft' = NoDraft
        /\ cache' = draft.list /\ age' = draft.age /\ blind' = draft.blind
        /\ UNCHANGED <<status, stored, roles, public, handler, offFor, outFor, dueFor>>
    BY <1>5 DEF Store
  <2>2. NoDraft \in [age : 0..TTL, off : SUBSET Users, blind : BOOLEAN, list : Lists]
    BY DEF NoDraft, NoList, Lists
  <2>3. TypeOK'
    BY <2>1, <2>2 DEF TypeOK
  <2>4. StopInv'
    BY <2>1 DEF StopInv, OptOutsRead, Drafted, Recipients, NoDraft, NoList, TypeOK, Lists
  <2>5. PrivateInv'
    BY <2>1 DEF PrivateInv, Listed, Drafted, Recipients, NoDraft
  <2>6. ReachInv'
    BY <2>1 DEF ReachInv, OptOutsRead, Listed, Recipients, NoDraft
  <2> QED
    BY <1>0, <2>3, <2>4, <2>5, <2>6
<1> QED
  BY <1>1, <1>2, <1>3, <1>4, <1>5

\* Time passes: a time grows by at most as much as the ages that bound it.
LEMMA TickKeeps == RecipientInv /\ Tick => RecipientInv'
<1> SUFFICES ASSUME RecipientInv, Tick PROVE RecipientInv'
  OBVIOUS
<1> USE RecipientAssumption
<1>1. /\ \A n \in 0..TTL : Longer(n) \in 0..TTL /\ n <= Longer(n)
      /\ \A n, o \in 0..TTL : n <= o => Longer(n) <= Longer(o)
      /\ 0 <= Longer(0)
  BY DEF Longer
<1>2. /\ UNCHANGED <<status, stored, roles, public, cache, blind, sender, handler>>
      /\ age' = Longer(age)
      /\ draft'.off = draft.off /\ draft'.blind = draft.blind /\ draft'.list = draft.list
      /\ sender # "idle" => draft'.age = Longer(draft.age)
      /\ draft' \in [age : 0..TTL, off : SUBSET Users, blind : BOOLEAN, list : Lists]
  BY <1>1 DEF Tick, worldVars, RecipientInv, TypeOK
<1>3. /\ age \in 0..TTL /\ age' \in 0..TTL /\ draft.age \in 0..TTL /\ draft'.age \in 0..TTL
      /\ draft.off \subseteq Users
      /\ draft.list \in Lists /\ cache \in Lists
  BY <1>1, <1>2 DEF RecipientInv, TypeOK
<1>4. \A u \in Users :
        /\ offFor[u] \in 0..TTL /\ offFor'[u] \in 0..TTL /\ offFor'[u] <= Longer(offFor[u])
        /\ outFor[u] \in 0..TTL /\ outFor'[u] \in 0..TTL /\ outFor'[u] <= Longer(outFor[u])
        /\ dueFor[u] \in 0..TTL /\ dueFor'[u] \in 0..TTL /\ dueFor'[u] <= Longer(dueFor[u])
  BY <1>1 DEF Tick, RecipientInv, TypeOK
<1>5. TypeOK'
  <2>1. /\ offFor' \in [Users -> 0..TTL]
        /\ outFor' \in [Users -> 0..TTL]
        /\ dueFor' \in [Users -> 0..TTL]
    BY <1>4 DEF Tick
  <2> QED
    BY <2>1, <1>2, <1>3 DEF RecipientInv, TypeOK
<1>6. TimesStart'
  BY <1>2 DEF Tick, TimesStart, OptedOut, Outsiders, DueAdmins, AdminIds
<1>7. \A n, m, o \in 0..TTL : n <= Longer(m) /\ m <= o => n <= Longer(o)
  BY DEF Longer
<1>8. StopInv'
  BY <1>2, <1>3, <1>4, <1>7 DEF RecipientInv, StopInv, OptOutsRead, Drafted, Recipients, Lists
<1>9. PrivateInv'
  BY <1>2, <1>3, <1>4, <1>7 DEF RecipientInv, PrivateInv, Listed, Drafted, Recipients, Lists
<1>10. ReachInv'
  BY <1>2, <1>3, <1>4, <1>7 DEF RecipientInv, ReachInv, OptOutsRead, Listed, Recipients
<1> QED
  BY <1>5, <1>6, <1>8, <1>9, <1>10 DEF RecipientInv

\* After a redeploy nothing is cached.
LEMMA RestartKeeps == RecipientInv /\ Redeploy => RecipientInv'
<1> SUFFICES ASSUME RecipientInv, Redeploy PROVE RecipientInv'
  OBVIOUS
<1> USE RecipientAssumption
<1>1. /\ roles' = stored /\ cache' = NoList /\ age' = TTL /\ blind' = FALSE
      /\ sender' = "idle" /\ draft' = NoDraft /\ handler' = Idle
      /\ UNCHANGED <<status, stored, public>>
  BY DEF Redeploy
<1>2. /\ NoDraft \in [age : 0..TTL, off : SUBSET Users, blind : BOOLEAN, list : Lists]
      /\ NoList \in Lists
      /\ Idle \in [at : {"idle", "invalidate", "refresh", "reply"}, user : Users,
                   changed : BOOLEAN]
  BY DEF NoDraft, NoList, Lists, Idle
<1>3. /\ offFor' \in [Users -> 0..TTL] /\ outFor' \in [Users -> 0..TTL]
      /\ dueFor' \in [Users -> 0..TTL] /\ TimesStart'
  BY WitnessTimes DEF Redeploy, RecipientInv
<1>4. TypeOK'
  <2>1. roles' \in SUBSET (Users \ {Main}) /\ age' \in 0..TTL
    BY <1>1 DEF RecipientInv, TypeOK
  <2> QED
    BY <1>1, <1>2, <1>3, <2>1 DEF RecipientInv, TypeOK
<1>5. StopInv'
  BY <1>1 DEF StopInv, OptOutsRead, Drafted, Recipients, NoDraft, NoList
<1>6. PrivateInv'
  BY <1>1 DEF PrivateInv, Listed, Recipients, NoDraft, NoList
<1>7. ReachInv'
  BY <1>1, <1>3 DEF ReachInv, OptOutsRead, Listed, NoDraft
<1> QED
  BY <1>3, <1>4, <1>5, <1>6, <1>7 DEF RecipientInv

\* The invariant is inductive.
LEMMA RecipientNextInv == RecipientInv /\ [RecipientNext]_recipientVars => RecipientInv'
<1> SUFFICES ASSUME RecipientInv, [RecipientNext]_recipientVars PROVE RecipientInv'
  OBVIOUS
<1>1. CASE Handler \/ \E u \in Users : MarkBlocked(u)
  BY <1>1, WorldActions, WorldKeeps DEF RecipientInv
<1>2. CASE StartResolving \/ ReadOptOuts \/ ReadAdmins \/ ReadSubscribers \/ Store
  BY <1>2, ResolverKeeps
<1>3. CASE Tick
  BY <1>3, TickKeeps
<1>4. CASE Redeploy
  BY <1>4, RestartKeeps
<1>5. CASE UNCHANGED recipientVars
  BY <1>5 DEF recipientVars, worldVars, cacheVars, resolverVars, timeVars, RecipientInv, TypeOK, TimesStart, StopInv,
              PrivateInv, ReachInv, OptOutsRead, Listed, Drafted, Recipients, OptedOut, Outsiders,
              DueAdmins, AdminIds
<1> QED
  BY <1>1, <1>2, <1>3, <1>4, <1>5 DEF RecipientNext, Resolver

\* The inductive invariant holds of the recipient cache.
THEOREM RecipientInvariance == RecipientSpec => []RecipientInv
  BY RecipientInitInv, RecipientNextInv, PTL DEF RecipientSpec

\* Every variable of the recipient cache keeps its type.
THEOREM CacheTypeCorrect == RecipientSpec => []TypeOK
<1>1. RecipientInv => TypeOK
  BY DEF RecipientInv
<1> QED
  BY <1>1, RecipientInvariance, PTL

\* A user who opted out RECIPIENT_CACHE_TTL ago is in no list that is used,
\* unless the opt-outs could not be read.
THEOREM StopIsHonoured == RecipientSpec => []StopHonoured
<1>1. RecipientInv => StopHonoured
  BY RecipientAssumption DEF RecipientInv, StopInv, StopHonoured, Fresh, TypeOK, Recipients, Lists
<1> QED
  BY <1>1, RecipientInvariance, PTL

\* Who has been no administrator in a private bot for RECIPIENT_CACHE_TTL is in
\* no list that is used.
THEOREM PrivateIsHonoured == RecipientSpec => []PrivateHonoured
<1>1. RecipientInv => PrivateHonoured
  BY RecipientAssumption DEF RecipientInv, PrivateInv, PrivateHonoured, Fresh, TypeOK, Recipients, Lists
<1> QED
  BY <1>1, RecipientInvariance, PTL

\* An administrator of that long who did not opt out is in every list that is
\* used, whichever queries failed.
THEOREM AdminsAreReached == RecipientSpec => []AdminsReached
<1>1. RecipientInv => AdminsReached
  BY RecipientAssumption DEF RecipientInv, ReachInv, AdminsReached, Fresh, TypeOK
<1> QED
  BY <1>1, RecipientInvariance, PTL

-----------------------------------------------------------------------------
(* AlertDelivery.                                                          *)

USE DeliveryAssumption DEF DeliveryAssumption

-----------------------------------------------------------------------------
(* Types.                                                                  *)

MaybeThread == Threads \cup {None}
MaybeId     == Nat \cup {None}
Job     == [id : Nat, thread : MaybeThread]
Message == [id : Nat, thread : MaybeThread, reply : MaybeId, acked : BOOLEAN]
Row     == [thread : MaybeThread, message : Nat, id : Nat]

\* The stages in which the sender is at one chat.
AtChat == {"attempt1", "backoff", "attempt2", "gap"}

TypeInv ==
  /\ jobs \in Nat
  /\ queue \in Seq(Job)
  /\ stage \in {"idle", "resolve", "loop"} \cup AtChat
  /\ job \in Job
  /\ todo \in SUBSET Chats
  /\ stage \in AtChat => chat \in Chats \ todo
  /\ root \in MaybeId
  /\ reply \in MaybeId
  /\ results \in [Chats -> MaybeId]
  /\ threads \in [Chats -> [Threads -> MaybeId]]
  /\ log \in [Chats -> Seq(Message)]
  /\ history \in [Chats -> Seq(Row)]

\* What a restart reads back is the message of some row of that thread.
LEMMA WarmedIsARow ==
  ASSUME TypeInv, NEW c \in Chats, NEW t \in Threads, NEW cut \in Nat
  PROVE  \/ Warmed(c, t, cut) = None
         \/ \E i \in DOMAIN history[c] :
              history[c][i].thread = t /\ Warmed(c, t, cut) = history[c][i].message
<1> DEFINE rows == {i \in DOMAIN history[c] : i > cut /\ history[c][i].thread = t}
<1>1. CASE rows = {}
  BY <1>1 DEF Warmed
<1>2. CASE rows # {}
  <2>1. rows \in SUBSET Nat
    BY DEF TypeInv
  <2>2. PICK n \in rows : \A k \in rows : ~(<<k, n>> \in OpToRel(<, Nat))
    <3> HIDE DEF rows
    <3> QED BY <1>2, <2>1, NatLessThanWellFounded, WFMin
  <2>3. \A k \in rows : n <= k
    <3> HIDE DEF rows
    <3>1. \A k \in Nat : k < n => k \notin rows
      BY <2>1, <2>2 DEF OpToRel
    <3> QED BY <2>1, <3>1
  <2> DEFINE first == CHOOSE i \in rows : \A j \in rows : i <= j
  <2>4. first \in rows
    <3> HIDE DEF rows
    <3> QED BY <2>3
  <2>5. Warmed(c, t, cut) = history[c][first].message
    BY <1>2 DEF Warmed
  <2> HIDE DEF first
  <2> QED BY <2>4, <2>5
<1> QED BY <1>1, <1>2

\* What an arrival does to the chats.
LEMMA Arrival ==
  ASSUME TypeInv, stage \in AtChat, NEW acked \in BOOLEAN, Arrive(acked)
  PROVE  /\ log' \in [Chats -> Seq(Message)]
         /\ \A c \in Chats : c # chat => log'[c] = log[c]
         /\ DOMAIN log[chat] = 1 .. Len(log[chat]) /\ Len(log[chat]) \in Nat
         /\ DOMAIN log'[chat] = 1 .. Len(log[chat]) + 1 /\ Len(log'[chat]) = Len(log[chat]) + 1
         /\ \A i \in 1 .. Len(log[chat]) : log'[chat][i] = log[chat][i]
         /\ log'[chat][Len(log[chat]) + 1]
              = [id |-> job.id, thread |-> job.thread, reply |-> reply, acked |-> acked]
<1> DEFINE new == [id |-> job.id, thread |-> job.thread, reply |-> reply, acked |-> acked]
<1>1. new \in Message /\ chat \in Chats
  BY DEF TypeInv, Job, Message
<1>2. log[chat] \in Seq(Message) /\ log' = [log EXCEPT ![chat] = Append(@, new)]
  BY <1>1 DEF TypeInv, Arrive
<1> HIDE DEF new
<1>3. Append(log[chat], new) \in Seq(Message)
  BY <1>1, <1>2
<1>4. /\ log' \in [Chats -> Seq(Message)]
      /\ log'[chat] = Append(log[chat], new)
      /\ \A c \in Chats : c # chat => log'[c] = log[c]
  BY <1>1, <1>2, <1>3 DEF TypeInv
<1> QED BY <1>2, <1>3, <1>4 DEF new

LEMMA TypeInit == Init => TypeInv
BY DEF Init, TypeInv, NoJob, Job, MaybeThread, MaybeId, AtChat

LEMMA TypeStep ==
  ASSUME TypeInv, [Next]_vars
  PROVE  TypeInv'
<1> USE DEF AtChat
<1>1. ASSUME NEW t \in Threads \cup {None}, Enqueue(t) PROVE TypeInv'
  <2>1. [id |-> jobs + 1, thread |-> t] \in Job
    BY DEF TypeInv, Job, MaybeThread
  <2>2. queue' \in Seq(Job) /\ jobs' \in Nat
    BY <1>1, <2>1 DEF TypeInv, Enqueue
  <2> QED BY <1>1, <2>2 DEF TypeInv, Enqueue, senderVars, telegramVars
<1>2. CASE TakeJob
  <2>1. queue' \in Seq(Job) /\ job' \in Job
    BY <1>2 DEF TypeInv, TakeJob
  <2> QED BY <1>2, <2>1 DEF TypeInv, TakeJob, telegramVars
<1>3. NoJob \in Job
  BY DEF NoJob, Job, MaybeThread
<1>4. CASE Resolve
  BY <1>3, <1>4 DEF TypeInv, Resolve, telegramVars
<1>5. ASSUME NEW c \in Chats, Throttle(c) PROVE TypeInv'
  BY <1>5 DEF TypeInv, Throttle, telegramVars
<1>6. ASSUME NEW c \in Chats, Begin(c) PROVE TypeInv'
  <2>1. ThreadRoot(c) \in MaybeId
    BY DEF TypeInv, ThreadRoot, MaybeId, Job, MaybeThread
  <2> QED BY <1>6, <2>1 DEF TypeInv, Begin, telegramVars
<1>7. CASE Accept
  <2>1. stage \in AtChat /\ Arrive(TRUE) /\ chat \in Chats \ todo
    BY <1>7 DEF Accept, Attempting, TypeInv
  <2>2. log' \in [Chats -> Seq(Message)] /\ Len(log[chat]) + 1 \in Nat
    <3>1. log' \in [Chats -> Seq(Message)] /\ Len(log[chat]) \in Nat
      BY <2>1, Arrival, Zenon
    <3> QED BY <3>1
  <2> DEFINE message == Len(log[chat]) + 1
  <2>3. /\ threads' = Remember(chat, message, root)
        /\ results' = [results EXCEPT ![chat] = message]
        /\ stage' = "gap"
        /\ UNCHANGED <<jobs, queue, job, todo, chat, root, reply, history>>
    BY <1>7 DEF Accept
  <2> HIDE DEF message
  <2>4. message \in MaybeId
    BY <2>2 DEF MaybeId, message
  <2>5. Remember(chat, message, root) \in [Chats -> [Threads -> MaybeId]]
    BY <2>1, <2>4 DEF Remember, TypeInv
  <2>6. results' \in [Chats -> MaybeId]
    BY <2>1, <2>3, <2>4 DEF TypeInv
  <2> QED BY <2>1, <2>2, <2>3, <2>5, <2>6 DEF TypeInv
<1>8. CASE Trouble
  <2>1. stage \in AtChat /\ (log' = log \/ Arrive(FALSE))
    BY <1>8 DEF Trouble, Attempting
  <2>2. log' \in [Chats -> Seq(Message)]
    BY <2>1, Arrival DEF TypeInv
  <2> QED BY <1>8, <2>2 DEF TypeInv, Trouble, Attempting
<1>9. CASE Retry
  BY <1>9 DEF TypeInv, Retry, telegramVars
<1>10. CASE ReplyGone
  <2>1. threads' \in [Chats -> [Threads -> MaybeId]]
    BY <1>10 DEF TypeInv, ReplyGone, Attempting, Forget, MaybeId
  <2> QED BY <1>10, <2>1 DEF TypeInv, ReplyGone, Attempting, telegramVars, MaybeId
<1>11. CASE Reject
  BY <1>11 DEF TypeInv, Reject, Attempting, telegramVars
<1>12. CASE Forbid
  BY <1>12 DEF TypeInv, Forbid, Attempting, telegramVars
<1>13. CASE Advance
  BY <1>13 DEF TypeInv, Advance, telegramVars, MaybeId
<1>14. [c \in Chats |-> None] \in [Chats -> MaybeId]
  BY DEF MaybeId
<1>15. CASE Record
  <2>1. history' \in [Chats -> Seq(Row)]
    <3>1. CASE history' = history
      BY <3>1 DEF TypeInv
    <3>2. CASE history' = [c \in Chats |->
                 IF results[c] = None THEN history[c]
                 ELSE Append(history[c],
                             [thread |-> job.thread, message |-> results[c], id |-> job.id])]
      <4>1. ASSUME NEW c \in Chats, results[c] # None
            PROVE  [thread |-> job.thread, message |-> results[c], id |-> job.id] \in Row
        BY <4>1 DEF TypeInv, Job, Row, MaybeId
      <4>2. ASSUME NEW c \in Chats PROVE history'[c] \in Seq(Row)
        <5>1. history[c] \in Seq(Row)
          BY DEF TypeInv
        <5> DEFINE row == [thread |-> job.thread, message |-> results[c], id |-> job.id]
        <5>2. CASE results[c] = None
          BY <3>2, <5>1, <5>2
        <5>3. CASE results[c] # None
          <6>1. row \in Row /\ history'[c] = Append(history[c], row)
            BY <3>2, <4>1, <5>3
          <6> HIDE DEF row
          <6> QED BY <5>1, <6>1
        <5> QED BY <5>2, <5>3
      <4> QED BY <3>2, <4>2
    <3> QED BY <1>15, <3>1, <3>2 DEF Record
  <2> QED BY <1>15, <1>3, <1>14, <2>1 DEF TypeInv, Record, telegramVars
<1>16. CASE Abandon
  BY <1>16, <1>3, <1>14 DEF TypeInv, Abandon, telegramVars, MaybeId
<1>17. ASSUME NEW c \in Chats, ComeBack(c) PROVE TypeInv'
  BY <1>17 DEF TypeInv, ComeBack, senderVars, telegramVars
<1>18. ASSUME NEW c \in Chats, NEW m, Delete(c, m) PROVE TypeInv'
  BY <1>18 DEF TypeInv, Delete, senderVars
<1>19. ASSUME NEW c \in Chats, NEW t \in Threads, ThreadExpires(c, t) PROVE TypeInv'
  BY <1>19 DEF TypeInv, ThreadExpires, senderVars, telegramVars, MaybeId
<1>20. CASE Restart
  <2>1. PICK cut \in 0..MaxJobs :
          threads' = [c \in Chats |-> [t \in Threads |-> Warmed(c, t, cut)]]
    BY <1>20 DEF Restart
  <2>2. ASSUME NEW c \in Chats, NEW t \in Threads PROVE Warmed(c, t, cut) \in MaybeId
    <3>1. \A i \in DOMAIN history[c] : history[c][i].message \in Nat
      <4>1. history[c] \in Seq(Row)
        BY DEF TypeInv
      <4>2. \A i \in DOMAIN history[c] : history[c][i] \in Row
        BY <4>1
      <4> QED BY <4>2 DEF Row
    <3> QED BY <3>1, WarmedIsARow DEF MaybeId
  <2>3. threads' \in [Chats -> [Threads -> MaybeId]]
    BY <2>1, <2>2
  <2>4. queue' \in Seq(Job)
    BY <1>20 DEF Restart
  <2> QED BY <1>20, <1>3, <1>14, <2>3, <2>4 DEF TypeInv, Restart, telegramVars, MaybeId
<1>21. CASE UNCHANGED vars
  BY <1>21 DEF TypeInv, vars, senderVars, telegramVars
<1> QED
  BY <1>1, <1>2, <1>4, <1>5, <1>6, <1>7, <1>8, <1>9, <1>10, <1>11, <1>12, <1>13, <1>15,
     <1>16, <1>17, <1>18, <1>19, <1>20, <1>21
     DEF Next, Sender, Loop, Answer, Environment

LEMMA TypeCorrect == Spec => []TypeInv
BY TypeInit, TypeStep, PTL DEF Spec

-----------------------------------------------------------------------------
(* The invariants the properties rest on.                                  *)

\* Job numbers grow along the queue; what arrived, and the job at hand, came
\* before all that waits.
QueueFits ==
  /\ job.id <= jobs
  /\ \A i \in DOMAIN queue : job.id < queue[i].id /\ queue[i].id <= jobs
  /\ \A i, j \in DOMAIN queue : i < j => queue[i].id < queue[j].id
  /\ \A c \in Chats : \A m \in DOMAIN log[c] :
       /\ log[c][m].id <= jobs
       /\ \A i \in DOMAIN queue : log[c][m].id < queue[i].id

\* The job at hand cannot have arrived yet in chat c.
Ahead(c) == stage = "resolve" \/ c \in todo \/ (stage = "attempt1" /\ c = chat)

\* A chat the job has not been tried on has older alerts only; one it failed on
\* once has at most one copy, the last message, which was not acknowledged.
HandFits ==
  stage # "idle" =>
    \A c \in Chats : \A m \in DOMAIN log[c] :
      /\ log[c][m].id <= job.id
      /\ Ahead(c) => log[c][m].id < job.id
      /\ stage \in {"backoff", "attempt2"} /\ c = chat /\ log[c][m].id = job.id =>
           m = Len(log[c]) /\ ~log[c][m].acked

OrderInv == QueueFits /\ HandFits /\ InOrder

\* A message of thread t arrived in chat c under number m.
InThread(c, m, t) == m \in DOMAIN log[c] /\ log[c][m].thread = t

ThreadsFit ==
  /\ \A c \in Chats : \A t \in Threads : threads[c][t] # None => InThread(c, threads[c][t], t)
  /\ stage \in AtChat =>
       /\ reply # None => InThread(chat, reply, job.thread)
       /\ root # None => InThread(chat, root, job.thread)
  /\ \A c \in Chats : \A i \in DOMAIN log[c] :
       log[c][i].reply # None => log[c][i].reply \in DOMAIN log[c]

\* Chat c has acknowledged message m for alert id of thread t.
Acknowledged(c, m, id, t) ==
  /\ InThread(c, m, t)
  /\ log[c][m].acked
  /\ log[c][m].id = id

RecordsFit ==
  /\ stage \in {"idle", "resolve"} => \A c \in Chats : results[c] = None
  /\ \A c \in Chats : results[c] # None => Acknowledged(c, results[c], job.id, job.thread)
  /\ \A c \in Chats : \A i \in DOMAIN history[c] :
       Acknowledged(c, history[c][i].message, history[c][i].id, history[c][i].thread)

ThreadInv == ThreadsFit /\ RecordsFit /\ RepliesStayInThread

-----------------------------------------------------------------------------
(* Order.                                                                  *)

LEMMA OrderInit == Init => OrderInv
BY DEF Init, OrderInv, QueueFits, HandFits, InOrder, NoJob

\* The types the order is about.
LEMMA OrderTypes ==
  ASSUME TypeInv
  PROVE  /\ jobs \in Nat /\ job.id \in Nat
         /\ Len(queue) \in Nat /\ DOMAIN queue = 1 .. Len(queue)
         /\ \A i \in DOMAIN queue : queue[i] \in Job /\ queue[i].id \in Nat
         /\ \A c \in Chats : Len(log[c]) \in Nat /\ DOMAIN log[c] = 1 .. Len(log[c])
         /\ \A c \in Chats : \A m \in DOMAIN log[c] : log[c][m].id \in Nat
<1>1. /\ queue \in Seq(Job) /\ \A c \in Chats : log[c] \in Seq(Message)
      /\ job \in Job /\ jobs \in Nat
  BY DEF TypeInv
<1>2. \A i \in DOMAIN queue : queue[i] \in Job
  BY <1>1
<1>3. \A c \in Chats : \A m \in DOMAIN log[c] : log[c][m] \in Message
  BY <1>1
<1> QED BY <1>1, <1>2, <1>3 DEF Job, Message

\* A message that arrives fits behind all that did.
LEMMA OrderArrival ==
  ASSUME TypeInv, OrderInv, stage \in {"attempt1", "attempt2"},
         NEW acked \in BOOLEAN, Arrive(acked),
         UNCHANGED <<jobs, queue, job, todo, chat>>,
         \/ stage' = "gap"
         \/ stage = "attempt1" /\ stage' = "backoff" /\ ~acked
  PROVE  OrderInv'
<1> DEFINE n == Len(log[chat])
<1>1. /\ chat \in Chats \ todo /\ stage \in AtChat /\ stage # "idle"
  BY DEF TypeInv, AtChat
<1>2. /\ \A c \in Chats : c # chat => log'[c] = log[c]
      /\ DOMAIN log[chat] = 1 .. n /\ n \in Nat
      /\ DOMAIN log'[chat] = 1 .. n + 1 /\ Len(log'[chat]) = n + 1
      /\ \A i \in 1 .. n : log'[chat][i] = log[chat][i]
      /\ log'[chat][n + 1]
           = [id |-> job.id, thread |-> job.thread, reply |-> reply, acked |-> acked]
  BY <1>1, Arrival, Zenon
<1> HIDE DEF n
<1>3. log'[chat][n + 1].id = job.id /\ log'[chat][n + 1].acked = acked
  BY <1>2
<1>4. QueueFits'
  <2>1. ASSUME NEW c \in Chats, NEW m \in DOMAIN log'[c]
        PROVE  log'[c][m].id <= jobs /\ \A i \in DOMAIN queue : log'[c][m].id < queue[i].id
    <3>1. CASE c = chat /\ m = n + 1
      BY <1>3, <3>1 DEF OrderInv, QueueFits
    <3>2. CASE c # chat \/ m \in 1 .. n
      BY <1>1, <1>2, <3>2 DEF OrderInv, QueueFits
    <3> QED BY <1>2, <3>1, <3>2
  <2> QED BY <2>1 DEF OrderInv, QueueFits
<1>5. HandFits'
  <2>1. ASSUME NEW c \in Chats, NEW m \in DOMAIN log'[c], c # chat
        PROVE  log'[c][m].id <= job.id /\ (c \in todo => log'[c][m].id < job.id)
    BY <1>1, <1>2, <2>1 DEF OrderInv, HandFits, Ahead
  <2>2. ASSUME NEW m \in 1 .. n
        PROVE  /\ log'[chat][m].id <= job.id
               /\ stage = "attempt1" => log'[chat][m].id < job.id
    BY <1>1, <1>2, <2>2 DEF OrderInv, HandFits, Ahead
  <2>3. ASSUME NEW c \in Chats, NEW m \in DOMAIN log'[c]
        PROVE  /\ log'[c][m].id <= job.id
               /\ c \in todo => log'[c][m].id < job.id
               /\ stage' = "backoff" /\ c = chat /\ log'[c][m].id = job.id =>
                    m = Len(log'[c]) /\ ~log'[c][m].acked
    <3>1. CASE c # chat
      BY <2>1, <3>1
    <3>2. CASE c = chat /\ m = n + 1
      BY <1>1, <1>2, <1>3, <3>2, OrderTypes
    <3>3. CASE c = chat /\ m \in 1 .. n
      <4>1. log'[chat][m].id \in Nat /\ job.id \in Nat
        BY <1>1, <1>2, <3>3, OrderTypes
      <4> QED BY <1>1, <2>2, <3>3, <4>1
    <3> QED BY <1>2, <3>1, <3>2, <3>3
  <2> QED BY <2>3 DEF HandFits, Ahead
<1>6. InOrder'
  <2> SUFFICES ASSUME NEW c \in Chats, NEW i \in DOMAIN log'[c], NEW j \in DOMAIN log'[c], i < j
               PROVE  \/ log'[c][i].id < log'[c][j].id
                      \/ log'[c][i].id = log'[c][j].id /\ j = i + 1 /\ ~log'[c][i].acked
    BY DEF InOrder
  <2>1. CASE c # chat
    BY <1>2, <2>1 DEF OrderInv, InOrder
  <2>2. CASE c = chat /\ j \in 1 .. n
    <3>1. i \in 1 .. n
      BY <1>2, <2>2
    <3>2. log'[c][i] = log[c][i] /\ log'[c][j] = log[c][j]
      BY <1>2, <2>2, <3>1
    <3> QED BY <1>2, <2>2, <3>1, <3>2 DEF OrderInv, InOrder
  <2>3. CASE c = chat /\ j = n + 1
    <3>1. i \in 1 .. n /\ log'[c][i] = log[c][i]
      BY <1>2, <2>3
    <3>2. /\ log[c][i].id <= job.id
          /\ stage = "attempt1" => log[c][i].id < job.id
          /\ stage = "attempt2" /\ log[c][i].id = job.id => i = n /\ ~log[c][i].acked
      BY <1>1, <1>2, <2>3, <3>1 DEF OrderInv, HandFits, Ahead, n
    <3>3. log[c][i].id \in Nat /\ job.id \in Nat
      BY <1>2, <2>3, <3>1, OrderTypes
    <3>4. CASE log[c][i].id < job.id
      BY <1>3, <2>3, <3>1, <3>4
    <3>5. CASE log[c][i].id = job.id
      BY <1>3, <2>3, <3>1, <3>2, <3>3, <3>5
    <3> QED BY <3>2, <3>3, <3>4, <3>5
  <2> QED BY <1>2, <2>1, <2>2, <2>3
<1> QED BY <1>4, <1>5, <1>6 DEF OrderInv

LEMMA OrderStep ==
  ASSUME TypeInv, OrderInv, [Next]_vars
  PROVE  OrderInv'
<1> USE DEF AtChat
<1>q. ASSUME UNCHANGED <<jobs, queue, job, log>> PROVE QueueFits' /\ InOrder'
  BY <1>q DEF OrderInv, QueueFits, InOrder
<1>d. ASSUME UNCHANGED <<jobs, log>>, queue' = queue \/ queue' = <<>>, job' = NoJob,
             stage' = "idle"
      PROVE  OrderInv'
  <2>1. QueueFits'
    BY <1>d, OrderTypes DEF OrderInv, QueueFits, NoJob
  <2> QED BY <1>d, <2>1 DEF OrderInv, HandFits, InOrder
<1>1. ASSUME NEW t \in Threads \cup {None}, Enqueue(t) PROVE OrderInv'
  <2> DEFINE n == Len(queue)
  <2>1. /\ jobs' = jobs + 1 /\ queue' = Append(queue, [id |-> jobs + 1, thread |-> t])
        /\ UNCHANGED <<stage, job, todo, chat, log>>
    BY <1>1 DEF Enqueue, senderVars, telegramVars
  <2>2. /\ n \in Nat /\ DOMAIN queue = 1 .. n /\ DOMAIN queue' = 1 .. n + 1
        /\ queue'[n + 1].id = jobs + 1
        /\ \A i \in 1 .. n : queue'[i] = queue[i]
    BY <2>1 DEF TypeInv
  <2> HIDE DEF n
  <2>3. QueueFits'
    <3>1. \A i \in DOMAIN queue' : job.id < queue'[i].id /\ queue'[i].id <= jobs + 1
      BY <2>2, OrderTypes DEF OrderInv, QueueFits
    <3>2. \A i, j \in DOMAIN queue' : i < j => queue'[i].id < queue'[j].id
      BY <2>2, OrderTypes DEF OrderInv, QueueFits
    <3>3. \A c \in Chats : \A m \in DOMAIN log[c] :
            /\ log[c][m].id <= jobs + 1
            /\ \A i \in DOMAIN queue' : log[c][m].id < queue'[i].id
      BY <2>2, OrderTypes DEF OrderInv, QueueFits
    <3>4. job.id <= jobs + 1
      BY OrderTypes DEF OrderInv, QueueFits
    <3> QED BY <2>1, <3>1, <3>2, <3>3, <3>4 DEF QueueFits
  <2> QED BY <2>1, <2>3 DEF OrderInv, HandFits, InOrder, Ahead
<1>2. CASE TakeJob
  <2> DEFINE n == Len(queue)
  <2>1. /\ queue # <<>> /\ job' = Head(queue) /\ queue' = Tail(queue) /\ stage' = "resolve"
        /\ UNCHANGED <<jobs, log>>
    BY <1>2 DEF TakeJob, telegramVars
  <2>2. /\ n \in Nat /\ n >= 1 /\ DOMAIN queue = 1 .. n /\ job' = queue[1]
        /\ DOMAIN queue' = 1 .. n - 1
        /\ \A i \in 1 .. n - 1 : queue'[i] = queue[i + 1]
    BY <2>1 DEF TypeInv
  <2> HIDE DEF n
  <2>3. QueueFits'
    <3>1. job'.id <= jobs
      BY <2>2 DEF OrderInv, QueueFits
    <3>2. \A i \in DOMAIN queue' : job'.id < queue'[i].id /\ queue'[i].id <= jobs
      BY <2>2 DEF OrderInv, QueueFits
    <3>3. ASSUME NEW i \in DOMAIN queue', NEW j \in DOMAIN queue', i < j
          PROVE  queue'[i].id < queue'[j].id
      <4>1. i + 1 \in DOMAIN queue /\ j + 1 \in DOMAIN queue /\ i + 1 < j + 1
        BY <2>2, <3>3
      <4>2. queue[i + 1].id < queue[j + 1].id
        BY <4>1 DEF OrderInv, QueueFits
      <4> QED BY <2>2, <4>2
    <3>4. \A c \in Chats : \A m \in DOMAIN log[c] :
            /\ log[c][m].id <= jobs
            /\ \A i \in DOMAIN queue' : log[c][m].id < queue'[i].id
      BY <2>2 DEF OrderInv, QueueFits
    <3> QED BY <2>1, <3>1, <3>2, <3>3, <3>4 DEF QueueFits
  <2>4. \A c \in Chats : \A m \in DOMAIN log[c] :
          log[c][m].id < job'.id /\ log[c][m].id <= job'.id
    <3>1. \A c \in Chats : \A m \in DOMAIN log[c] : log[c][m].id < queue[1].id
      BY <2>2 DEF OrderInv, QueueFits
    <3> QED BY <2>2, <3>1, OrderTypes
  <2>5. HandFits'
    BY <2>1, <2>4 DEF HandFits
  <2> QED BY <2>1, <2>3, <2>5 DEF OrderInv, InOrder
<1>3. CASE Resolve
  <2>1. UNCHANGED <<jobs, queue, log, chat>> /\ todo' \in SUBSET Chats /\ stage = "resolve"
    BY <1>3 DEF Resolve, telegramVars
  <2>2. CASE todo' = {}
    BY <1>3, <1>d, <2>1, <2>2 DEF Resolve
  <2>3. CASE todo' # {}
    <3>1. stage' = "loop" /\ job' = job
      BY <1>3, <2>3 DEF Resolve
    <3>2. HandFits'
      BY <2>1, <3>1 DEF OrderInv, HandFits, Ahead
    <3> QED BY <1>q, <2>1, <3>1, <3>2 DEF OrderInv
  <2> QED BY <2>2, <2>3
<1>4. ASSUME NEW c \in Chats, Throttle(c) PROVE OrderInv'
  <2>1. HandFits'
    BY <1>4 DEF Throttle, telegramVars, OrderInv, HandFits, Ahead
  <2> QED BY <1>4, <1>q, <2>1 DEF Throttle, telegramVars, OrderInv
<1>5. ASSUME NEW c \in Chats, Begin(c) PROVE OrderInv'
  <2>1. HandFits'
    BY <1>5 DEF Begin, telegramVars, OrderInv, HandFits, Ahead
  <2> QED BY <1>5, <1>q, <2>1 DEF Begin, telegramVars, OrderInv
<1>6. CASE Accept
  <2>1. /\ stage \in {"attempt1", "attempt2"} /\ Arrive(TRUE) /\ stage' = "gap"
        /\ UNCHANGED <<jobs, queue, job, todo, chat>>
    BY <1>6 DEF Accept, Attempting
  <2> QED BY <2>1, OrderArrival, Zenon
<1>7. CASE Trouble
  <2>1. /\ stage \in {"attempt1", "attempt2"} /\ (log' = log \/ Arrive(FALSE))
        /\ (stage' = "gap" \/ (stage = "attempt1" /\ stage' = "backoff"))
        /\ UNCHANGED <<jobs, queue, job, todo, chat>>
    BY <1>7 DEF Trouble, Attempting
  <2>2. CASE Arrive(FALSE)
    BY <2>1, <2>2, OrderArrival, Zenon
  <2>3. CASE log' = log
    <3>1. HandFits'
      <4>1. ASSUME stage = "attempt1"
            PROVE  \A m \in DOMAIN log[chat] : log[chat][m].id # job.id
        BY <4>1, OrderTypes DEF OrderInv, HandFits, Ahead, TypeInv
      <4> QED BY <2>1, <2>3, <4>1 DEF OrderInv, HandFits, Ahead, TypeInv
    <3> QED BY <1>q, <2>1, <2>3, <3>1 DEF OrderInv
  <2> QED BY <2>1, <2>2, <2>3
<1>8. CASE Retry
  <2>1. HandFits'
    BY <1>8 DEF Retry, telegramVars, OrderInv, HandFits, Ahead
  <2> QED BY <1>8, <1>q, <2>1 DEF Retry, telegramVars, OrderInv
<1>9. CASE ReplyGone
  <2>1. /\ stage \in {"attempt1", "attempt2"} /\ stage' \in {"attempt2", "gap"}
        /\ stage' = "attempt2" => stage = "attempt1"
        /\ UNCHANGED <<jobs, queue, job, todo, chat, log>>
    BY <1>9 DEF ReplyGone, Attempting, telegramVars
  <2>2. ASSUME stage = "attempt1"
        PROVE  \A m \in DOMAIN log[chat] : log[chat][m].id # job.id
    BY <2>2, OrderTypes DEF OrderInv, HandFits, Ahead, TypeInv
  <2>3. HandFits'
    BY <2>1, <2>2 DEF OrderInv, HandFits, Ahead
  <2> QED BY <1>q, <2>1, <2>3 DEF OrderInv
<1>10. CASE Reject \/ Forbid \/ Advance
  <2>1. /\ stage # "idle" /\ stage' \in {"gap", "loop"}
        /\ UNCHANGED <<jobs, queue, job, todo, log>>
    BY <1>10 DEF Reject, Forbid, Advance, Attempting, telegramVars
  <2>2. HandFits'
    BY <2>1 DEF OrderInv, HandFits, Ahead
  <2> QED BY <1>q, <2>1, <2>2 DEF OrderInv
<1>11. CASE Record \/ Abandon \/ Restart
  BY <1>11, <1>d DEF Record, Abandon, Restart, telegramVars
<1>12. ASSUME \/ \E c \in Chats : \/ ComeBack(c)
                                  \/ \E m \in 1..2 * MaxJobs : Delete(c, m)
                                  \/ \E t \in Threads : ThreadExpires(c, t)
              \/ UNCHANGED vars
       PROVE  OrderInv'
  <2>1. UNCHANGED <<jobs, queue, stage, job, todo, chat, log>>
    BY <1>12 DEF ComeBack, Delete, ThreadExpires, vars, senderVars, telegramVars
  <2>2. HandFits'
    BY <2>1 DEF OrderInv, HandFits, Ahead
  <2> QED BY <1>q, <2>1, <2>2 DEF OrderInv
<1> QED
  BY <1>1, <1>2, <1>3, <1>4, <1>5, <1>6, <1>7, <1>8, <1>9, <1>10, <1>11, <1>12
     DEF Next, Sender, Loop, Answer, Environment

\* A chat sees the alerts in the order they were detected, and twice only those
\* whose first copy Telegram took without the answer arriving: for any number
\* of alerts, failures, restarts and throttled chats.
THEOREM OrderKept == Spec => []InOrder
<1>1. TypeInv /\ OrderInv /\ [Next]_vars => OrderInv'
  BY OrderStep
<1>2. OrderInv => InOrder
  BY DEF OrderInv
<1> QED BY <1>1, <1>2, OrderInit, TypeCorrect, PTL DEF Spec

-----------------------------------------------------------------------------
(* The promise.                                                            *)

\* The job at hand is one that was enqueued.
HasJob == stage # "idle" => job.id > 0

LEMMA HasJobInit == Init => HasJob
BY DEF Init, HasJob

LEMMA HasJobStep ==
  ASSUME TypeInv, OrderInv, HasJob, [Next]_vars
  PROVE  HasJob'
<1>1. CASE TakeJob
  <2>1. queue # <<>> /\ job' = queue[1] /\ 1 \in DOMAIN queue
    BY <1>1 DEF TakeJob, TypeInv
  <2>2. job.id < queue[1].id /\ job.id \in Nat /\ queue[1].id \in Nat
    BY <2>1, OrderTypes DEF OrderInv, QueueFits
  <2> QED BY <2>1, <2>2 DEF HasJob
<1>2. CASE \/ stage' = "idle"
           \/ stage # "idle" /\ job' = job
           \/ UNCHANGED <<stage, job>>
  BY <1>2 DEF HasJob
<1>3. ASSUME NEW t \in Threads \cup {None}, Enqueue(t) PROVE HasJob'
  BY <1>2, <1>3 DEF Enqueue, senderVars
<1>4. CASE Resolve \/ \E c \in Chats : Throttle(c) \/ Begin(c)
  BY <1>2, <1>4 DEF Resolve, Throttle, Begin
<1>5. CASE Answer \/ Retry \/ Advance \/ Record
  BY <1>2, <1>5 DEF Answer, Accept, Trouble, ReplyGone, Reject, Forbid, Abandon, Attempting, Retry,
                    Advance, Record
<1>6. CASE Environment \/ UNCHANGED vars
  BY <1>2, <1>6 DEF Environment, ComeBack, Delete, ThreadExpires, Restart, senderVars, vars
<1> QED BY <1>1, <1>3, <1>4, <1>5, <1>6 DEF Next, Sender, Loop

\* A message that arrives is one that may be told.
LEMMA ArrivalTells ==
  ASSUME TypeInv, OrderInv, HasJob, stage \in {"attempt1", "attempt2"},
         NEW acked \in BOOLEAN, Arrive(acked), UNCHANGED jobs
  PROVE  Promise!Next
<1>1. chat \in Chats /\ stage \in AtChat /\ job.id \in 1 .. jobs
  BY OrderTypes DEF TypeInv, AtChat, HasJob, OrderInv, QueueFits
<1>2. ASSUME NEW c \in Chats, NEW m \in DOMAIN log[c]
      PROVE  /\ log[c][m].id <= job.id
             /\ c = chat /\ log[c][m].id = job.id => m = Len(log[c]) /\ ~log[c][m].acked
  <2>1. log[c][m].id \in Nat /\ job.id \in Nat
    BY <1>2, OrderTypes
  <2> QED BY <1>1, <1>2, <2>1 DEF OrderInv, HandFits, Ahead
<1>3. /\ Len(log'[chat]) = Len(log[chat]) + 1
      /\ log'[chat][Len(log[chat]) + 1]
           = [id |-> job.id, thread |-> job.thread, reply |-> reply, acked |-> acked]
  BY <1>1, Arrival, Zenon
<1>4. log' = [log EXCEPT ![chat] = Append(@, log'[chat][Len(log[chat]) + 1])]
  BY <1>3 DEF Arrive
<1>5. log'[chat][Len(log[chat]) + 1].id = job.id
  BY <1>3
<1>6. PICK c \in Chats : c = chat
  BY <1>1
<1>7. Promise!Tell(c)
  BY <1>1, <1>2, <1>3, <1>4, <1>5, <1>6 DEF Promise!Tell, Promise!NobodyBeyond, Promise!Open
<1> QED BY <1>7 DEF Promise!Next

LEMMA PromiseInit == Init => Promise!Init
BY DEF Init, Promise!Init

LEMMA PromiseStep ==
  ASSUME TypeInv, OrderInv, HasJob, [Next]_vars
  PROVE  [Promise!Next]_<<jobs, log>>
<1>1. CASE UNCHANGED <<jobs, log>>
  BY <1>1
<1>2. ASSUME NEW t \in Threads \cup {None}, Enqueue(t) PROVE Promise!Next
  BY <1>2 DEF Enqueue, telegramVars, Promise!Next, Promise!Detect
<1>3. ASSUME NEW acked \in BOOLEAN, Arrive(acked), Attempting, UNCHANGED jobs
      PROVE  Promise!Next
  BY <1>3, ArrivalTells DEF Attempting
<1>4. CASE Accept
  BY <1>3, <1>4 DEF Accept
<1>5. CASE Trouble
  BY <1>1, <1>3, <1>5 DEF Trouble
<1> QED
  BY <1>1, <1>2, <1>4, <1>5
     DEF Next, Sender, Loop, Answer, Environment, TakeJob, Resolve, Throttle, Begin, Retry,
         ReplyGone, Reject, Forbid, Advance, Record, Abandon, ComeBack, Delete, ThreadExpires,
         Restart, vars, senderVars, telegramVars

\* The delivery implements TellOnce: alerts are told one at a time in order of
\* detection, to all chats together, and again only where an answer was missing,
\* for any chats, alerts, failures, deletions and restarts.
THEOREM DeliveryImplements == Spec => TellsOnce
<1>1. TypeInv /\ OrderInv /\ HasJob /\ [Next]_vars => OrderInv' /\ HasJob'
  BY OrderStep, HasJobStep
<1>2. TypeInv /\ OrderInv /\ HasJob /\ [Next]_vars
        => [Promise!Next]_<<jobs, log>>
  BY PromiseStep
<1> QED
  BY <1>1, <1>2, OrderInit, HasJobInit, PromiseInit, TypeCorrect, PTL
     DEF Spec, TellsOnce, Promise!Spec

-----------------------------------------------------------------------------
(* Threads and the history.                                                *)

LEMMA ThreadInit == Init => ThreadInv
BY DEF Init, ThreadInv, ThreadsFit, RecordsFit, RepliesStayInThread, AtChat

\* What was in a chat stays there, whatever arrives.
LEMMA StaysThere ==
  ASSUME TypeInv, stage \in AtChat, NEW acked \in BOOLEAN, Arrive(acked),
         NEW c \in Chats, NEW m \in DOMAIN log[c]
  PROVE  m \in DOMAIN log'[c] /\ log'[c][m] = log[c][m]
<1> DEFINE n == Len(log[chat])
<1>1. /\ \A d \in Chats : d # chat => log'[d] = log[d]
      /\ DOMAIN log[chat] = 1 .. n /\ n \in Nat
      /\ DOMAIN log'[chat] = 1 .. n + 1
      /\ \A i \in 1 .. n : log'[chat][i] = log[chat][i]
  BY Arrival, Zenon
<1> HIDE DEF n
<1> QED BY <1>1

\* A message that arrives replies into its own thread.
LEMMA ThreadArrival ==
  ASSUME TypeInv, ThreadInv, stage \in {"attempt1", "attempt2"},
         NEW acked \in BOOLEAN, Arrive(acked)
  PROVE  /\ RepliesStayInThread'
         /\ \A c \in Chats : \A i \in DOMAIN log'[c] :
              log'[c][i].reply # None => log'[c][i].reply \in DOMAIN log'[c]
<1> DEFINE n == Len(log[chat])
<1>1. stage \in AtChat /\ chat \in Chats
  BY DEF TypeInv, AtChat
<1>2. /\ \A d \in Chats : d # chat => log'[d] = log[d]
      /\ DOMAIN log[chat] = 1 .. n /\ n \in Nat
      /\ DOMAIN log'[chat] = 1 .. n + 1
      /\ \A i \in 1 .. n : log'[chat][i] = log[chat][i]
      /\ log'[chat][n + 1]
           = [id |-> job.id, thread |-> job.thread, reply |-> reply, acked |-> acked]
  BY <1>1, Arrival, Zenon
<1> HIDE DEF n
<1>3. reply # None => reply \in 1 .. n /\ log[chat][reply].thread = job.thread
  BY <1>1, <1>2 DEF ThreadInv, ThreadsFit, InThread
<1> SUFFICES ASSUME NEW c \in Chats, NEW i \in DOMAIN log'[c], log'[c][i].reply # None
             PROVE  /\ log'[c][i].reply < i
                    /\ log'[c][i].reply \in DOMAIN log'[c]
                    /\ log'[c][log'[c][i].reply].thread = log'[c][i].thread
  BY DEF RepliesStayInThread
<1>4. CASE c # chat
  BY <1>2, <1>4 DEF ThreadInv, ThreadsFit, RepliesStayInThread
<1>5. CASE c = chat /\ i \in 1 .. n
  <2>1. log'[c][i] = log[c][i] /\ i \in DOMAIN log[c]
    BY <1>2, <1>5
  <2>2. /\ log[c][i].reply < i /\ log[c][log[c][i].reply].thread = log[c][i].thread
    BY <2>1 DEF ThreadInv, RepliesStayInThread
  <2>3. log[c][i].reply \in 1 .. n
    BY <1>2, <1>5, <2>1 DEF ThreadInv, ThreadsFit
  <2> QED BY <1>2, <1>5, <2>1, <2>2, <2>3
<1>6. CASE c = chat /\ i = n + 1
  BY <1>2, <1>3, <1>6
<1> QED BY <1>2, <1>4, <1>5, <1>6

\* Whatever is known of the chats stays true when a message arrives.
LEMMA FactsStay ==
  ASSUME TypeInv, ThreadInv, stage \in AtChat, NEW acked \in BOOLEAN, Arrive(acked)
  PROVE  /\ \A c \in Chats : \A t \in Threads : threads[c][t] # None =>
              threads[c][t] \in DOMAIN log'[c] /\ log'[c][threads[c][t]].thread = t
         /\ reply # None => reply \in DOMAIN log'[chat] /\ log'[chat][reply].thread = job.thread
         /\ root # None => root \in DOMAIN log'[chat] /\ log'[chat][root].thread = job.thread
         /\ \A c \in Chats : results[c] # None =>
              /\ results[c] \in DOMAIN log[c] /\ results[c] \in DOMAIN log'[c]
              /\ log'[c][results[c]] = log[c][results[c]]
         /\ \A c \in Chats : \A i \in DOMAIN history[c] :
              /\ history[c][i].message \in DOMAIN log[c]
              /\ history[c][i].message \in DOMAIN log'[c]
              /\ log'[c][history[c][i].message] = log[c][history[c][i].message]
<1>s. \A c \in Chats : \A m \in DOMAIN log[c] :
        m \in DOMAIN log'[c] /\ log'[c][m] = log[c][m]
  BY StaysThere, Zenon
<1>c. chat \in Chats
  BY DEF TypeInv
<1>1. ASSUME NEW c \in Chats, NEW t \in Threads, threads[c][t] # None
      PROVE  threads[c][t] \in DOMAIN log'[c] /\ log'[c][threads[c][t]].thread = t
  BY <1>s, <1>1 DEF ThreadInv, ThreadsFit, InThread
<1>2. /\ reply # None => reply \in DOMAIN log'[chat] /\ log'[chat][reply].thread = job.thread
      /\ root # None => root \in DOMAIN log'[chat] /\ log'[chat][root].thread = job.thread
  BY <1>s, <1>c DEF ThreadInv, ThreadsFit, InThread
<1>3. ASSUME NEW c \in Chats, results[c] # None
      PROVE  /\ results[c] \in DOMAIN log[c] /\ results[c] \in DOMAIN log'[c]
             /\ log'[c][results[c]] = log[c][results[c]]
  BY <1>s, <1>3 DEF ThreadInv, RecordsFit, Acknowledged, InThread
<1>4. ASSUME NEW c \in Chats, NEW i \in DOMAIN history[c]
      PROVE  /\ history[c][i].message \in DOMAIN log[c]
             /\ history[c][i].message \in DOMAIN log'[c]
             /\ log'[c][history[c][i].message] = log[c][history[c][i].message]
  BY <1>s DEF ThreadInv, RecordsFit, Acknowledged, InThread
<1> QED BY <1>1, <1>2, <1>3, <1>4

LEMMA ThreadStep ==
  ASSUME TypeInv, ThreadInv, [Next]_vars
  PROVE  ThreadInv'
<1> USE DEF AtChat
<1>e. ASSUME UNCHANGED <<job, results, log, threads, history>>,
             stage' \in {"idle", "resolve"} => stage \in {"idle", "resolve"},
             stage' \in AtChat => stage \in AtChat /\ UNCHANGED <<chat, root, reply>>
      PROVE  ThreadInv'
  BY <1>e DEF ThreadInv, ThreadsFit, RecordsFit, RepliesStayInThread, InThread, Acknowledged
<1>1. CASE \/ \E t \in Threads \cup {None} : Enqueue(t)
           \/ Retry \/ Reject \/ Forbid \/ Advance
           \/ \E c \in Chats : \/ Throttle(c)
                               \/ ComeBack(c)
                               \/ \E m \in 1..2 * MaxJobs : Delete(c, m)
           \/ UNCHANGED vars
  BY <1>1, <1>e DEF Enqueue, Retry, Reject, Forbid, Advance, Throttle, ComeBack, Delete, vars,
                    senderVars, telegramVars, Attempting
<1>2. CASE TakeJob \/ Resolve
  <2>1. /\ stage \in {"idle", "resolve"} /\ stage' \in {"idle", "resolve", "loop"}
        /\ UNCHANGED <<results, log, threads, history>>
    BY <1>2 DEF TakeJob, Resolve, telegramVars
  <2> QED BY <2>1 DEF ThreadInv, ThreadsFit, RecordsFit, RepliesStayInThread, InThread, Acknowledged
<1>3. ASSUME NEW c \in Chats, Begin(c) PROVE ThreadInv'
  <2>1. /\ stage = "loop" /\ stage' = "attempt1" /\ chat' = c
        /\ root' = ThreadRoot(c) /\ reply' = ThreadRoot(c)
        /\ UNCHANGED <<job, results, log, threads, history>>
    BY <1>3 DEF Begin, telegramVars
  <2>2. ThreadRoot(c) # None => InThread(c, ThreadRoot(c), job.thread)
    BY DEF ThreadRoot, ThreadInv, ThreadsFit, TypeInv, Job, MaybeThread
  <2>3. ThreadsFit'
    BY <2>1, <2>2 DEF ThreadInv, ThreadsFit, InThread
  <2>4. RecordsFit' /\ RepliesStayInThread'
    BY <2>1 DEF ThreadInv, RecordsFit, RepliesStayInThread, InThread, Acknowledged
  <2> QED BY <2>3, <2>4 DEF ThreadInv
<1>h. ASSUME stage \in AtChat, NEW acked \in BOOLEAN, Arrive(acked), UNCHANGED history
      PROVE  \A c \in Chats : \A i \in DOMAIN history'[c] :
               Acknowledged(c, history[c][i].message, history[c][i].id, history[c][i].thread)'
  <2>1. \A c \in Chats : \A i \in DOMAIN history[c] :
          /\ history[c][i].message \in DOMAIN log[c]
          /\ history[c][i].message \in DOMAIN log'[c]
          /\ log'[c][history[c][i].message] = log[c][history[c][i].message]
    BY <1>h, FactsStay, Zenon
  <2> QED BY <1>h, <2>1 DEF ThreadInv, RecordsFit, Acknowledged, InThread
<1>4. CASE Accept
  <2> DEFINE message == Len(log[chat]) + 1
  <2>1. /\ stage \in {"attempt1", "attempt2"} /\ Arrive(TRUE)
        /\ threads' = Remember(chat, message, root)
        /\ results' = [results EXCEPT ![chat] = message]
        /\ stage' = "gap"
        /\ UNCHANGED <<job, chat, root, reply, history>>
    BY <1>4 DEF Accept, Attempting
  <2>2. stage \in AtChat /\ chat \in Chats
    BY <2>1 DEF TypeInv
  <2>3. /\ DOMAIN log'[chat] = 1 .. Len(log[chat]) + 1 /\ Len(log[chat]) \in Nat
        /\ log'[chat][Len(log[chat]) + 1]
             = [id |-> job.id, thread |-> job.thread, reply |-> reply, acked |-> TRUE]
    BY <2>1, <2>2, Arrival, Zenon
  <2>4. /\ message \in DOMAIN log'[chat]
        /\ log'[chat][message]
             = [id |-> job.id, thread |-> job.thread, reply |-> reply, acked |-> TRUE]
    BY <2>3
  <2>5. /\ \A c \in Chats : \A t \in Threads : threads[c][t] # None =>
             threads[c][t] \in DOMAIN log'[c] /\ log'[c][threads[c][t]].thread = t
        /\ reply # None => reply \in DOMAIN log'[chat] /\ log'[chat][reply].thread = job.thread
        /\ root # None => root \in DOMAIN log'[chat] /\ log'[chat][root].thread = job.thread
        /\ \A c \in Chats : results[c] # None =>
             /\ results[c] \in DOMAIN log'[c]
             /\ log'[c][results[c]] = log[c][results[c]]
    BY <2>1, <2>2, FactsStay, Zenon
  <2>6. /\ RepliesStayInThread'
        /\ \A c \in Chats : \A i \in DOMAIN log'[c] :
             log'[c][i].reply # None => log'[c][i].reply \in DOMAIN log'[c]
    BY <2>1, ThreadArrival, Zenon
  <2> HIDE DEF message
  <2>7. ThreadsFit'
    <3>1. ASSUME NEW c \in Chats, NEW t \in Threads, threads'[c][t] # None
          PROVE  threads'[c][t] \in DOMAIN log'[c] /\ log'[c][threads'[c][t]].thread = t
      <4>1. CASE threads'[c][t] = threads[c][t]
        BY <2>5, <3>1, <4>1
      <4>2. CASE threads'[c][t] # threads[c][t]
        <5>1. /\ c = chat /\ t = job.thread
              /\ threads'[c][t] = IF root = None THEN message ELSE root
          BY <2>1, <2>2, <4>2 DEF Remember, TypeInv
        <5> QED BY <2>4, <2>5, <5>1
      <4> QED BY <4>1, <4>2
    <3> QED BY <2>1, <2>5, <2>6, <3>1 DEF ThreadsFit, InThread
  <2>8. RecordsFit'
    <3>1. ASSUME NEW c \in Chats, results'[c] # None
          PROVE  /\ results'[c] \in DOMAIN log'[c] /\ log'[c][results'[c]].thread = job.thread
                 /\ log'[c][results'[c]].acked /\ log'[c][results'[c]].id = job.id
      <4>1. CASE c = chat
        <5>1. results'[c] = message
          BY <2>1, <2>2, <4>1 DEF TypeInv
        <5> QED BY <2>4, <4>1, <5>1
      <4>2. CASE c # chat
        <5>1. results'[c] = results[c]
          BY <2>1, <4>2 DEF TypeInv
        <5>2. Acknowledged(c, results[c], job.id, job.thread)
          BY <3>1, <5>1 DEF ThreadInv, RecordsFit
        <5> QED BY <2>5, <3>1, <5>1, <5>2 DEF Acknowledged, InThread
      <4> QED BY <4>1, <4>2
    <3>2. \A c \in Chats : \A i \in DOMAIN history'[c] :
            Acknowledged(c, history[c][i].message, history[c][i].id, history[c][i].thread)'
      BY <1>h, <2>1, <2>2
    <3> QED BY <2>1, <3>1, <3>2 DEF RecordsFit, Acknowledged, InThread
  <2> QED BY <2>6, <2>7, <2>8 DEF ThreadInv
<1>5. CASE Trouble
  <2>1. /\ stage \in {"attempt1", "attempt2"} /\ stage' \in {"backoff", "gap"}
        /\ (log' = log \/ Arrive(FALSE))
        /\ UNCHANGED <<job, chat, root, reply, results, threads, history>>
    BY <1>5 DEF Trouble, Attempting
  <2>2. CASE log' = log
    BY <1>e, <2>1, <2>2
  <2>3. CASE Arrive(FALSE)
    <3>1. /\ \A c \in Chats : \A t \in Threads : threads[c][t] # None =>
               threads[c][t] \in DOMAIN log'[c] /\ log'[c][threads[c][t]].thread = t
          /\ reply # None => reply \in DOMAIN log'[chat] /\ log'[chat][reply].thread = job.thread
          /\ root # None => root \in DOMAIN log'[chat] /\ log'[chat][root].thread = job.thread
          /\ \A c \in Chats : results[c] # None =>
               /\ results[c] \in DOMAIN log'[c]
               /\ log'[c][results[c]] = log[c][results[c]]
      <4>1. stage \in AtChat
        BY <2>1
      <4> QED BY <2>3, <4>1, FactsStay, Zenon
    <3>2. /\ RepliesStayInThread'
          /\ \A c \in Chats : \A i \in DOMAIN log'[c] :
               log'[c][i].reply # None => log'[c][i].reply \in DOMAIN log'[c]
      BY <2>1, <2>3, ThreadArrival, Zenon
    <3>3. ThreadsFit'
      BY <2>1, <3>1, <3>2 DEF ThreadsFit, InThread
    <3>4. \A c \in Chats : \A i \in DOMAIN history'[c] :
            Acknowledged(c, history[c][i].message, history[c][i].id, history[c][i].thread)'
      BY <1>h, <2>1, <2>3
    <3>5. RecordsFit'
      BY <2>1, <3>1, <3>4 DEF ThreadInv, RecordsFit, Acknowledged, InThread
    <3> QED BY <3>2, <3>3, <3>5 DEF ThreadInv
  <2> QED BY <2>1, <2>2, <2>3
<1>6. CASE ReplyGone
  <2>1. /\ stage \in {"attempt1", "attempt2"} /\ stage' \in {"attempt2", "gap"}
        /\ threads' = Forget(chat, reply) /\ reply' = None
        /\ UNCHANGED <<job, chat, root, results, log, history>>
    BY <1>6 DEF ReplyGone, Attempting, telegramVars
  <2>2. \A c \in Chats : \A t \in Threads :
          threads'[c][t] # None => threads'[c][t] = threads[c][t]
    BY <2>1 DEF Forget, TypeInv
  <2>3. ThreadsFit'
    BY <2>1, <2>2 DEF ThreadInv, ThreadsFit, InThread
  <2> QED BY <2>1, <2>3 DEF ThreadInv, RecordsFit, RepliesStayInThread, InThread, Acknowledged
<1>7. CASE Record
  <2>1. /\ stage' = "idle" /\ results' = [c \in Chats |-> None]
        /\ UNCHANGED <<log, threads>>
    BY <1>7 DEF Record, telegramVars
  <2>2. ASSUME NEW c \in Chats, NEW i \in DOMAIN history'[c]
        PROVE  Acknowledged(c, history'[c][i].message, history'[c][i].id, history'[c][i].thread)
    <3> DEFINE new == [thread |-> job.thread, message |-> results[c], id |-> job.id]
    <3>1. history[c] \in Seq(Row)
      BY DEF TypeInv
    <3>2. \A k \in DOMAIN history[c] :
            Acknowledged(c, history[c][k].message, history[c][k].id, history[c][k].thread)
      BY DEF ThreadInv, RecordsFit
    <3>3. CASE history'[c] = history[c]
      BY <2>2, <3>2, <3>3
    <3>4. CASE history'[c] = Append(history[c], new) /\ results[c] # None
      <4>1. Acknowledged(c, results[c], job.id, job.thread)
        BY <3>4 DEF ThreadInv, RecordsFit
      <4>2. (i \in DOMAIN history[c] /\ history'[c][i] = history[c][i]) \/ history'[c][i] = new
        BY <2>2, <3>1, <3>4
      <4> QED BY <3>2, <4>1, <4>2
    <3> QED BY <1>7, <3>3, <3>4 DEF Record
  <2>3. RecordsFit'
    BY <2>1, <2>2 DEF RecordsFit, Acknowledged, InThread
  <2> QED BY <2>1, <2>3 DEF ThreadInv, ThreadsFit, RepliesStayInThread, InThread
<1>8. CASE Abandon
  <2>1. /\ stage' = "idle" /\ results' = [c \in Chats |-> None]
        /\ UNCHANGED <<log, threads, history>>
    BY <1>8 DEF Abandon, telegramVars
  <2> QED BY <2>1 DEF ThreadInv, ThreadsFit, RecordsFit, RepliesStayInThread, InThread, Acknowledged
<1>9. ASSUME NEW c \in Chats, NEW t \in Threads, ThreadExpires(c, t) PROVE ThreadInv'
  <2>1. /\ threads' = [threads EXCEPT ![c][t] = None]
        /\ UNCHANGED <<stage, job, chat, root, reply, results, log, history>>
    BY <1>9 DEF ThreadExpires, senderVars, telegramVars
  <2>2. \A d \in Chats : \A u \in Threads :
          threads'[d][u] # None => threads'[d][u] = threads[d][u]
    BY <2>1 DEF TypeInv
  <2>3. ThreadsFit'
    BY <2>1, <2>2 DEF ThreadInv, ThreadsFit, InThread
  <2> QED BY <2>1, <2>3 DEF ThreadInv, RecordsFit, RepliesStayInThread, InThread, Acknowledged
<1>10. CASE Restart
  <2>1. /\ stage' = "idle" /\ results' = [c \in Chats |-> None]
        /\ UNCHANGED <<log, history>>
    BY <1>10 DEF Restart, telegramVars
  <2>2. PICK cut \in 0..MaxJobs :
          threads' = [c \in Chats |-> [t \in Threads |-> Warmed(c, t, cut)]]
    BY <1>10 DEF Restart
  <2>3. ASSUME NEW c \in Chats, NEW t \in Threads, threads'[c][t] # None
        PROVE  InThread(c, Warmed(c, t, cut), t) /\ threads'[c][t] = Warmed(c, t, cut)
    <3>1. threads'[c][t] = Warmed(c, t, cut) /\ cut \in Nat
      BY <2>2
    <3>2. PICK i \in DOMAIN history[c] :
            history[c][i].thread = t /\ Warmed(c, t, cut) = history[c][i].message
      BY <2>3, <3>1, WarmedIsARow
    <3>3. InThread(c, history[c][i].message, history[c][i].thread)
      BY DEF ThreadInv, RecordsFit, Acknowledged
    <3> QED BY <3>1, <3>2, <3>3
  <2>4. ThreadsFit'
    BY <2>1, <2>3 DEF ThreadInv, ThreadsFit, InThread
  <2> QED BY <2>1, <2>4 DEF ThreadInv, RecordsFit, RepliesStayInThread, InThread, Acknowledged
<1> QED
  BY <1>1, <1>2, <1>3, <1>4, <1>5, <1>6, <1>7, <1>8, <1>9, <1>10
     DEF Next, Sender, Loop, Answer, Environment

LEMMA ThreadCorrect == Spec => []ThreadInv
<1>1. TypeInv /\ ThreadInv /\ [Next]_vars => ThreadInv'
  BY ThreadStep
<1> QED BY <1>1, ThreadInit, TypeCorrect, PTL DEF Spec

\* An alert never replies into the conversation of another wallet or coin, for
\* any chats and threads, whatever was deleted, forgotten or rebuilt meanwhile.
THEOREM ThreadsKept == Spec => []RepliesStayInThread
<1>1. ThreadInv => RepliesStayInThread
  BY DEF ThreadInv
<1> QED BY <1>1, ThreadCorrect, PTL

\* alert_history names only messages that Telegram acknowledged for that very
\* alert, through jobs abandoned half way, failed records and restarts.
THEOREM HistoryKept == Spec => []HistoryIsTrue
<1>1. ThreadInv => HistoryIsTrue
  BY DEF ThreadInv, RecordsFit, Acknowledged, InThread, HistoryIsTrue
<1> QED BY <1>1, ThreadCorrect, PTL
=============================================================================
