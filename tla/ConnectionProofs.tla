--------------------------- MODULE ConnectionProofs ---------------------------
(***************************************************************************)
(* Proofs about the sockets to the exchange and the parts that hold them:  *)
(* of WsClient, which one client is, for any keys, callers, cap and        *)
(* bounds; of FeedControl, which has one such client for the market and    *)
(* one per wallet of the focus slate, for any wallets, coins, limit and    *)
(* number of configuration changes; and of Runtime, which brings all of it *)
(* up and takes it down, for any number of attempts and updates.           *)
(***************************************************************************)
EXTENDS WsClient, FeedControl, Runtime, FiniteSetTheorems, TLAPS

-----------------------------------------------------------------------------
(* The client.                                                             *)

\* There is a connection only while the reader replays or reads; the exchange
\* forgets the subscriptions of a connection that is not up.
LinkInv ==
  /\ connected <=> reader \in {"resubscribe", "read"}
  /\ connected <=> link # "down"
  /\ link # "up" => server = {}

\* A subscription the exchange has is active, or its send has not returned yet.
LeakInv ==
  \A k \in server : \/ k \in active
                    \/ k = replaying
                    \/ \E c \in Callers : call[c].phase = "add" /\ call[c].key = k

WsInv == TypeOK /\ LinkInv /\ NoLostSubscription /\ LeakInv

CallTypes == [phase : {"idle", "drop", "add"}, drop : SUBSET Keys,
              add : SUBSET Keys, key : Keys \cup {None}]

-----------------------------------------------------------------------------
\* Initially nothing is desired and there is no connection.
LEMMA WsInit == Init => WsInv
<1> SUFFICES ASSUME Init PROVE WsInv
  OBVIOUS
<1>1. NoCall \in CallTypes
  BY DEF NoCall, CallTypes
<1>2. Cardinality(desired) <= MaxSubs
  BY FS_EmptySet, WsAssumption DEF Init
<1>3. TypeOK
  <2>1. call \in [Callers -> CallTypes]
    BY <1>1 DEF Init
  <2>2. /\ desired \subseteq Keys /\ active \subseteq Keys
        /\ server \subseteq Keys /\ replay \subseteq Keys
        /\ replaying \in Keys \cup {None}
        /\ connected \in BOOLEAN /\ link \in {"down", "up", "cut"}
        /\ reader \in {"connect", "resubscribe", "read", "sleep", "stopped"}
    BY DEF Init
  <2>3. calls \in 0..MaxCalls /\ drops \in 0..MaxDrops
    BY WsAssumption DEF Init
  <2> QED
    BY <1>2, <2>1, <2>2, <2>3 DEF TypeOK, CallTypes
<1>4. LinkInv /\ NoLostSubscription /\ LeakInv
  BY DEF Init, LinkInv, NoLostSubscription, LeakInv
<1> QED
  BY <1>3, <1>4 DEF WsInv

\* A set of desired keys that shrinks stays within the cap.
LEMMA Shrinks ==
  ASSUME TypeOK, NEW D \in SUBSET desired
  PROVE  Cardinality(D) <= MaxSubs
<1>1. IsFiniteSet(desired)
  BY FS_Subset, WsAssumption DEF TypeOK
<1>2. /\ Cardinality(D) <= Cardinality(desired)
      /\ Cardinality(D) \in Nat /\ Cardinality(desired) \in Nat
  BY <1>1, FS_Subset, FS_CardinalityType
<1> QED
  BY <1>2, WsAssumption DEF TypeOK

\* One key more fits below the cap.
LEMMA Grows ==
  ASSUME TypeOK, NEW k \in Keys, Cardinality(desired) < MaxSubs
  PROVE  Cardinality(desired \cup {k}) <= MaxSubs
<1>1. IsFiniteSet(desired)
  BY FS_Subset, WsAssumption DEF TypeOK
<1>2. /\ Cardinality(desired) \in Nat
      /\ Cardinality(desired \cup {k}) \in {Cardinality(desired), Cardinality(desired) + 1}
  BY <1>1, FS_AddElement, FS_CardinalityType
<1> QED
  BY <1>2, WsAssumption

-----------------------------------------------------------------------------
\* A caller's record keeps its type when one or two of its fields change.
LEMMA CallTyped ==
  ASSUME TypeOK, NEW c \in Callers, NEW r \in CallTypes,
         call' = [call EXCEPT ![c] = r]
  PROVE  call' \in [Callers -> CallTypes]
BY DEF TypeOK, CallTypes

\* Every step of the reader and of the connection keeps the types.
LEMMA ReaderTypes == TypeOK /\ (Reader \/ Cut \/ Stop) => TypeOK'
<1> SUFFICES ASSUME TypeOK, Reader \/ Cut \/ Stop PROVE TypeOK'
  OBVIOUS
<1> USE WsAssumption DEF TypeOK
<1>1. CASE Connect
  BY <1>1 DEF Connect
<1>2. CASE ConnectFails
  BY <1>2 DEF ConnectFails
<1>3. CASE ReplaySent
  BY <1>3 DEF ReplaySent
<1>4. CASE ReplayDone
  BY <1>4 DEF ReplayDone
<1>5. CASE Disconnect
  BY <1>5 DEF Disconnect
<1>6. CASE Reconnect
  BY <1>6 DEF Reconnect
<1>7. ASSUME NEW k \in Keys, ReplaySend(k) PROVE TypeOK'
  BY <1>7 DEF ReplaySend, Subscribed
<1>8. CASE Cut
  BY <1>8 DEF Cut, readerVars
<1>9. CASE Stop
  BY <1>9 DEF Stop
<1> QED
  BY <1>1, <1>2, <1>3, <1>4, <1>5, <1>6, <1>7, <1>8, <1>9 DEF Reader

\* Every step of a caller keeps the types; subscribe keeps the cap.
LEMMA CallerTypes ==
  ASSUME TypeOK, NEW c \in Callers,
         Caller(c) \/ \E wanted \in SUBSET Keys : Replace(c, wanted)
  PROVE  TypeOK'
<1>t. call[c] \in CallTypes
  BY DEF TypeOK, CallTypes
<1>1. ASSUME NEW wanted \in SUBSET Keys, Replace(c, wanted) PROVE TypeOK'
  <2>1. [phase |-> "drop", drop |-> desired \ wanted, add |-> wanted, key |-> None]
          \in CallTypes
    BY DEF TypeOK, CallTypes
  <2>2. call' \in [Callers -> CallTypes]
    BY <1>1, <2>1, CallTyped DEF Replace
  <2> QED
    BY <1>1, <2>2, WsAssumption DEF Replace, TypeOK, CallTypes, readerVars
<1>2. ASSUME NEW k \in Keys, Unsubscribe(c, k) PROVE TypeOK'
  <2>1. Cardinality(desired') <= MaxSubs
    BY <1>2, Shrinks DEF Unsubscribe
  <2>2. call' \in [Callers -> CallTypes]
    BY <1>2, <1>t DEF Unsubscribe, TypeOK, CallTypes
  <2> QED
    BY <1>2, <2>1, <2>2 DEF Unsubscribe, Unsubscribed, TypeOK, CallTypes, readerVars
<1>3. ASSUME NEW k \in Keys, Subscribe(c, k) PROVE TypeOK'
  <2>1. Cardinality(desired') <= MaxSubs
    BY <1>3, Shrinks, Grows DEF Subscribe
  <2>2. call' \in [Callers -> CallTypes]
    BY <1>3, <1>t DEF Subscribe, TypeOK, CallTypes
  <2> QED
    BY <1>3, <2>1, <2>2 DEF Subscribe, Subscribed, TypeOK, CallTypes, readerVars
<1>4. CASE StartAdding(c)
  <2>1. call' \in [Callers -> CallTypes]
    BY <1>4, <1>t DEF StartAdding, TypeOK, CallTypes
  <2> QED
    BY <1>4, <2>1 DEF StartAdding, TypeOK, CallTypes, readerVars
<1>5. CASE Resume(c)
  <2>1. call' \in [Callers -> CallTypes]
    BY <1>5, <1>t DEF Resume, TypeOK, CallTypes
  <2> QED
    BY <1>5, <1>t, <2>1 DEF Resume, TypeOK, CallTypes, readerVars
<1>6. CASE Return(c)
  <2>1. NoCall \in CallTypes
    BY DEF NoCall, CallTypes
  <2>2. call' \in [Callers -> CallTypes]
    BY <1>6, <2>1, CallTyped DEF Return
  <2> QED
    BY <1>6, <2>2 DEF Return, TypeOK, CallTypes, readerVars
<1> QED
  BY <1>1, <1>2, <1>3, <1>4, <1>5, <1>6 DEF Caller

-----------------------------------------------------------------------------
\* connected, the reader's place and the link change together: Connect,
\* Disconnect and Stop are the only steps that open or close, and Connect finds
\* nothing subscribed.
LEMMA LinkStep == LinkInv /\ [Next]_vars => LinkInv'
<1> SUFFICES ASSUME LinkInv, [Next]_vars PROVE LinkInv'
  OBVIOUS
<1> USE DEF LinkInv
<1>1. CASE Reader
  <2>1. ASSUME NEW k \in Keys, ReplaySend(k) PROVE LinkInv'
    BY <2>1 DEF ReplaySend, Subscribed
  <2>2. CASE Connect
    BY <2>2 DEF Connect
  <2>3. CASE ConnectFails
    BY <2>3 DEF ConnectFails
  <2>4. CASE ReplaySent \/ ReplayDone
    BY <2>4 DEF ReplaySent, ReplayDone
  <2>5. CASE Disconnect \/ Reconnect
    BY <2>5 DEF Disconnect, Reconnect
  <2> QED
    BY <1>1, <2>1, <2>2, <2>3, <2>4, <2>5 DEF Reader
<1>2. CASE Cut
  BY <1>2 DEF Cut, readerVars
<1>3. CASE Stop
  BY <1>3 DEF Stop
<1>4. ASSUME NEW c \in Callers, Caller(c) PROVE LinkInv'
  <2>1. ASSUME NEW k \in Keys, Unsubscribe(c, k) PROVE LinkInv'
    BY <2>1 DEF Unsubscribe, Unsubscribed, readerVars
  <2>2. ASSUME NEW k \in Keys, Subscribe(c, k) PROVE LinkInv'
    BY <2>2 DEF Subscribe, Subscribed, readerVars
  <2>3. CASE StartAdding(c) \/ Resume(c) \/ Return(c)
    BY <2>3 DEF StartAdding, Resume, Return, readerVars
  <2> QED
    BY <1>4, <2>1, <2>2, <2>3 DEF Caller
<1>5. ASSUME NEW c \in Callers, NEW wanted \in SUBSET Keys, Replace(c, wanted)
      PROVE  LinkInv'
  BY <1>5 DEF Replace, readerVars
<1>6. CASE UNCHANGED vars
  BY <1>6 DEF vars, readerVars
<1> QED
  BY <1>1, <1>2, <1>3, <1>4, <1>5, <1>6 DEF Next

\* On a live connection, a key becomes desired together with its frame, leaves
\* the replay together with its frame, and Connect takes all of the desired set
\* for the replay.
LEMMA NoLostStep ==
  LinkInv /\ NoLostSubscription /\ [Next]_vars => NoLostSubscription'
<1> SUFFICES ASSUME LinkInv, NoLostSubscription, [Next]_vars PROVE NoLostSubscription'
  OBVIOUS
<1> USE DEF NoLostSubscription
<1>1. CASE Reader
  <2>1. ASSUME NEW k \in Keys, ReplaySend(k) PROVE NoLostSubscription'
    BY <2>1 DEF ReplaySend, Subscribed
  <2>2. CASE Connect
    BY <2>2 DEF Connect
  <2>3. CASE ConnectFails \/ ReplaySent \/ ReplayDone
    BY <2>3 DEF ConnectFails, ReplaySent, ReplayDone
  <2>4. CASE Disconnect \/ Reconnect
    BY <2>4 DEF Disconnect, Reconnect
  <2> QED
    BY <1>1, <2>1, <2>2, <2>3, <2>4 DEF Reader
<1>2. CASE Cut \/ Stop
  BY <1>2 DEF Cut, Stop
<1>3. ASSUME NEW c \in Callers, Caller(c) PROVE NoLostSubscription'
  <2>1. ASSUME NEW k \in Keys, Unsubscribe(c, k) PROVE NoLostSubscription'
    BY <2>1 DEF Unsubscribe, Unsubscribed, readerVars
  <2>2. ASSUME NEW k \in Keys, Subscribe(c, k) PROVE NoLostSubscription'
    BY <2>2 DEF Subscribe, Subscribed, LinkInv, readerVars
  <2>3. CASE StartAdding(c) \/ Resume(c) \/ Return(c)
    BY <2>3 DEF StartAdding, Resume, Return, readerVars
  <2> QED
    BY <1>3, <2>1, <2>2, <2>3 DEF Caller
<1>4. ASSUME NEW c \in Callers, NEW wanted \in SUBSET Keys, Replace(c, wanted)
      PROVE  NoLostSubscription'
  BY <1>4 DEF Replace, readerVars
<1>5. CASE UNCHANGED vars
  BY <1>5 DEF vars, readerVars
<1> QED
  BY <1>1, <1>2, <1>3, <1>4, <1>5 DEF Next

\* A frame makes a key subscribed while its sender is noted as sending it, and
\* the sender is forgotten only with the key in _active or the connection lost;
\* unsubscribe takes an active key from both sides.
LEMMA LeakStep ==
  TypeOK /\ LinkInv /\ LeakInv /\ [Next]_vars => LeakInv'
<1> SUFFICES ASSUME TypeOK, LinkInv, LeakInv, [Next]_vars,
                    NEW q \in server'
             PROVE  \/ q \in active' \/ q = replaying'
                    \/ \E c \in Callers : call'[c].phase = "add" /\ call'[c].key = q
  BY DEF LeakInv
<1> DEFINE Sending == \E c \in Callers : call[c].phase = "add" /\ call[c].key = q
           Goal == \/ q \in active' \/ q = replaying'
                   \/ \E c \in Callers : call'[c].phase = "add" /\ call'[c].key = q
<1>k. q \in server => q \in Keys /\ q # None
  BY WsAssumption DEF TypeOK
<1>l. q \in server => q \in active \/ q = replaying \/ Sending
  BY DEF LeakInv
<1>1. CASE Reader
  <2>1. ASSUME NEW k \in Keys, ReplaySend(k) PROVE Goal
    BY <2>1, WsAssumption DEF ReplaySend, Subscribed, LinkInv, LeakInv, TypeOK
  <2>2. CASE Connect
    BY <2>2 DEF Connect, LinkInv
  <2>3. CASE ConnectFails \/ ReplayDone \/ Reconnect
    BY <2>3 DEF ConnectFails, ReplayDone, Reconnect, LeakInv
  <2>4. CASE ReplaySent
    BY <2>4 DEF ReplaySent, LinkInv, LeakInv
  <2>5. CASE Disconnect
    BY <2>5 DEF Disconnect, LinkInv
  <2> QED
    BY <1>1, <2>1, <2>2, <2>3, <2>4, <2>5 DEF Reader
<1>2. CASE Cut \/ Stop
  BY <1>2 DEF Cut, Stop
<1>3. ASSUME NEW c \in Callers, Caller(c) PROVE Goal
  <2>1. ASSUME NEW k \in Keys, Unsubscribe(c, k) PROVE Goal
    <3>1. q \in server
      BY <2>1 DEF Unsubscribe, Unsubscribed
    <3>2. q \in active \ {k} \/ q = replaying \/ Sending \/ (q = k /\ k \in active)
      <4> HIDE DEF Sending
      <4> QED
        BY <3>1, <1>l
    <3>3. ~(q = k /\ k \in active)
      BY <2>1, <3>1 DEF Unsubscribe, Unsubscribed, LinkInv
    <3>4. ASSUME Sending
          PROVE \E d \in Callers : call'[d].phase = "add" /\ call'[d].key = q
      <4>1. PICK d \in Callers : call[d].phase = "add" /\ call[d].key = q
        BY <3>4
      <4>2. d # c
        BY <2>1, <4>1 DEF Unsubscribe
      <4> QED
        BY <2>1, <4>1, <4>2 DEF Unsubscribe, TypeOK
    <3> QED
      BY <2>1, <3>2, <3>3, <3>4 DEF Unsubscribe, readerVars
  <2>2. ASSUME NEW k \in Keys, Subscribe(c, k) PROVE Goal
    <3>1. q \in server \/ (q = k /\ call'[c].phase = "add" /\ call'[c].key = q)
      <4>1. CASE server' = server
        BY <4>1
      <4>2. CASE server' = Subscribed(k) /\
                 call' = [call EXCEPT ![c].add = @ \ {k}, ![c].key = k]
        <5>1. call'[c].phase = "add" /\ call'[c].key = k
          BY <2>2, <4>2 DEF Subscribe, TypeOK
        <5> QED
          BY <4>2, <5>1 DEF Subscribed
      <4> QED
        BY <2>2, <4>1, <4>2 DEF Subscribe
    <3>2. ASSUME q \in server, Sending
          PROVE \E d \in Callers : call'[d].phase = "add" /\ call'[d].key = q
      <4>1. PICK d \in Callers : call[d].phase = "add" /\ call[d].key = q
        BY <3>2
      <4>2. d # c
        BY <2>2, <4>1, <3>2, <1>k DEF Subscribe
      <4> QED
        BY <2>2, <4>1, <4>2 DEF Subscribe, TypeOK
    <3> QED
      BY <2>2, <3>1, <3>2 DEF Subscribe, LeakInv, readerVars
  <2>3. CASE Resume(c)
    <3>1. q \in server
      BY <2>3 DEF Resume
    <3>2. ASSUME Sending PROVE Goal
      <4>1. PICK d \in Callers : call[d].phase = "add" /\ call[d].key = q
        BY <3>2
      <4>2. CASE d = c
        BY <2>3, <4>1, <4>2 DEF Resume
      <4>3. CASE d # c
        BY <2>3, <4>1, <4>3 DEF Resume, TypeOK
      <4> QED
        BY <4>2, <4>3
    <3> QED
      BY <2>3, <3>1, <3>2 DEF Resume, LeakInv, readerVars
  <2>4. CASE StartAdding(c) \/ Return(c)
    <3>1. q \in server /\ call[c].key = None
      BY <2>4 DEF StartAdding, Return
    <3>2. ASSUME Sending
          PROVE \E d \in Callers : call'[d].phase = "add" /\ call'[d].key = q
      <4>1. PICK d \in Callers : call[d].phase = "add" /\ call[d].key = q
        BY <3>2
      <4>2. d # c
        BY <3>1, <4>1, <1>k
      <4> QED
        BY <2>4, <4>1, <4>2 DEF StartAdding, Return, TypeOK
    <3> QED
      BY <2>4, <3>1, <3>2 DEF StartAdding, Return, LeakInv, readerVars
  <2> QED
    BY <1>3, <2>1, <2>2, <2>3, <2>4 DEF Caller
<1>4. ASSUME NEW c \in Callers, NEW wanted \in SUBSET Keys, Replace(c, wanted)
      PROVE  Goal
  <2>1. ASSUME Sending
        PROVE \E d \in Callers : call'[d].phase = "add" /\ call'[d].key = q
    <3>1. PICK d \in Callers : call[d].phase = "add" /\ call[d].key = q
      BY <2>1
    <3>2. d # c
      BY <1>4, <3>1 DEF Replace
    <3> QED
      BY <1>4, <3>1, <3>2 DEF Replace, TypeOK
  <2> QED
    BY <1>4, <2>1 DEF Replace, LeakInv, readerVars
<1>5. CASE UNCHANGED vars
  BY <1>5 DEF vars, readerVars, LeakInv
<1> QED
  BY <1>1, <1>2, <1>3, <1>4, <1>5 DEF Next

-----------------------------------------------------------------------------
\* WsInv holds in every reachable state.
THEOREM WsInvariance == Spec => []WsInv
<1>1. WsInv /\ [Next]_vars => WsInv'
  <2> SUFFICES ASSUME WsInv, [Next]_vars PROVE WsInv'
    OBVIOUS
  <2>1. TypeOK'
    <3>1. CASE UNCHANGED vars
      BY <3>1 DEF vars, readerVars, WsInv, TypeOK
    <3> QED
      BY <3>1, ReaderTypes, CallerTypes DEF Next, WsInv
  <2> QED
    BY <2>1, LinkStep, NoLostStep, LeakStep DEF WsInv
<1> QED
  BY <1>1, WsInit, PTL DEF Spec

\* The client's variables keep their types, and the desired set never exceeds
\* max_subscriptions, however many callers race for the last place.
THEOREM WsTypeCorrect == Spec => []TypeOK
<1>1. WsInv => TypeOK
  BY DEF WsInv
<1> QED
  BY <1>1, WsInvariance, PTL

\* On a live connection no desired subscription is lost between the callers and
\* the replay of _resubscribe.
THEOREM NothingLost == Spec => []NoLostSubscription
<1>1. WsInv => NoLostSubscription
  BY DEF WsInv
<1> QED
  BY <1>1, WsInvariance, PTL

\* Whatever the exchange has subscribed is in _active once no send is waiting.
THEOREM LeaksAreActive == Spec => []LeakIsActive
<1>1. WsInv => LeakIsActive
  <2> SUFFICES ASSUME WsInv, replaying = None, \A c \in Callers : call[c].key = None,
                      NEW k \in server
               PROVE  k \in active
    BY DEF LeakIsActive
  <2>1. k # None
    BY WsAssumption DEF WsInv, TypeOK
  <2> QED
    BY <2>1 DEF WsInv, LeakInv
<1> QED
  BY <1>1, WsInvariance, PTL

-----------------------------------------------------------------------------
(* FeedControl.  A socket that is forgotten goes from the slate to the     *)
(* closing ones and the sum stays.  Only the last part of                  *)
(* _apply_focus_slate raises it, and the task that does it is closing      *)
(* nothing: the slate then has at most Limit sockets and the one other     *)
(* task closes at most one.                                                *)

FeedTypes  == [at : {"idle", "refresh", "replace"}, drop : SUBSET Coins, add : SUBSET Coins]
SlateTypes == [wanted : SUBSET Wallets, drop : SUBSET Wallets, closing : Wallets \cup {NoWallet}]

\* One for a task that waits for a socket to stop.
Count(task) == IF Busy(task) THEN 1 ELSE 0

\* The slate and the closing sockets together exceed Limit by one at most.
Spare == Cardinality(userWs) + Count("loop") + Count("handler") <= Limit + 1

FeedInv == FeedTypeOK /\ Spare

-----------------------------------------------------------------------------
\* Popping a socket from the slate makes it smaller by one.
LEMMA Popped ==
  ASSUME FeedTypeOK, NEW w \in userWs
  PROVE  /\ Cardinality(userWs \ {w}) = Cardinality(userWs) - 1
         /\ Cardinality(userWs) \in Nat
<1>1. IsFiniteSet(userWs)
  BY FS_Subset, FeedAssumption DEF FeedTypeOK
<1> QED
  BY <1>1, FS_RemoveElement, FS_CardinalityType

\* The slate is a finite set, so its size is a number.
LEMMA SlateSize ==
  ASSUME FeedTypeOK
  PROVE  Cardinality(userWs) \in Nat
BY FS_Subset, FS_CardinalityType, FeedAssumption DEF FeedTypeOK

\* Initially no focus socket is open.
LEMMA FeedInitInv == FeedInit => FeedInv
<1> SUFFICES ASSUME FeedInit PROVE FeedInv
  OBVIOUS
<1>1. Cardinality(userWs) = 0 /\ Limit \in Nat
  BY FS_EmptySet, FeedAssumption DEF FeedInit
<1>2. /\ feed \in [Tasks -> FeedTypes]
      /\ slate \in [Tasks -> SlateTypes]
  <2>1. NoFeed \in FeedTypes /\ NoSlate \in SlateTypes
    BY DEF NoFeed, NoSlate, FeedTypes, SlateTypes
  <2> QED
    BY <2>1 DEF FeedInit
<1>3. /\ paused \in BOOLEAN /\ monitoring \in BOOLEAN
      /\ universe \subseteq Coins /\ market \subseteq Coins
      /\ userWs \subseteq Wallets /\ changes \in 0..MaxChanges
  BY FeedAssumption DEF FeedInit, Desired
<1>4. FeedTypeOK
  BY <1>1, <1>2, <1>3 DEF FeedTypeOK, FeedTypes, SlateTypes
<1>5. Count("loop") = 0 /\ Count("handler") = 0
  BY DEF FeedInit, Count, Busy, NoSlate, Tasks
<1> QED
  BY <1>1, <1>4, <1>5 DEF FeedInv, Spare

-----------------------------------------------------------------------------
\* The socket a task takes from the slate is the one it closes; a task opens
\* sockets only when it closes none.
LEMMA ProceedStep ==
  ASSUME FeedTypeOK, Spare, NEW task \in Tasks,
         NEW wanted \in SUBSET Wallets, NEW drop \in SUBSET Wallets,
         Proceed(task, wanted, drop)
  PROVE  /\ userWs' \subseteq Wallets /\ Cardinality(userWs') <= Limit
         /\ slate' \in [Tasks -> SlateTypes]
         /\ Spare'
<1>n. Cardinality(userWs) \in Nat /\ Limit \in Nat
  BY SlateSize, FeedAssumption
<1>s. slate \in [Tasks -> SlateTypes]
  BY DEF FeedTypeOK, SlateTypes
<1>c. /\ Count("loop") \in {0, 1} /\ Count("handler") \in {0, 1}
      /\ Count("loop")' \in {0, 1} /\ Count("handler")' \in {0, 1}
  BY DEF Count
<1>0. NoSlate \in SlateTypes
  BY DEF NoSlate, SlateTypes
<1>o. ASSUME NEW r \in SlateTypes, slate' = [slate EXCEPT ![task] = r]
      PROVE  /\ slate' \in [Tasks -> SlateTypes]
             /\ slate'[task] = r
             /\ \A other \in Tasks \ {task} : Count(other)' = Count(other)
  BY <1>s, <1>o DEF Count, Busy
<1>1. ASSUME userWs' \in Filled(userWs, wanted),
             slate' = [slate EXCEPT ![task] = NoSlate]
      PROVE  /\ userWs' \subseteq Wallets /\ Cardinality(userWs') <= Limit
             /\ slate' \in [Tasks -> SlateTypes] /\ Spare'
  <2>1. userWs' \subseteq Wallets /\ Cardinality(userWs') <= Limit
    BY <1>1 DEF Filled, FeedTypeOK
  <2>2. Cardinality(userWs') \in Nat
    BY <2>1, FS_Subset, FS_CardinalityType, FeedAssumption
  <2>3. Count(task)' = 0
    BY <1>0, <1>1, <1>o DEF Count, Busy, NoSlate
  <2>4. Count("loop")' + Count("handler")' <= 1
    BY <1>c, <2>3 DEF Tasks
  <2>5. Spare'
    BY <1>c, <1>n, <2>1, <2>2, <2>4 DEF Spare
  <2> QED
    BY <1>0, <1>1, <1>o, <2>1, <2>5
<1>2. ASSUME NEW w \in drop \cap userWs,
             userWs' = userWs \ {w},
             slate' = [slate EXCEPT ![task] =
                         [wanted |-> wanted, drop |-> drop \ {w}, closing |-> w]]
      PROVE  /\ userWs' \subseteq Wallets /\ Cardinality(userWs') <= Limit
             /\ slate' \in [Tasks -> SlateTypes] /\ Spare'
  <2>1. [wanted |-> wanted, drop |-> drop \ {w}, closing |-> w] \in SlateTypes
    BY DEF SlateTypes
  <2>2. Cardinality(userWs') = Cardinality(userWs) - 1
    BY <1>2, Popped
  <2>3. \A other \in Tasks \ {task} : Count(other)' = Count(other)
    BY <1>2, <1>o, <2>1
  <2>4. Count("loop")' + Count("handler")' <= Count("loop") + Count("handler") + 1
    BY <1>c, <2>3 DEF Tasks
  <2>5. Spare'
    BY <1>c, <1>n, <2>2, <2>4 DEF Spare
  <2>6. userWs' \subseteq Wallets /\ Cardinality(userWs') <= Limit
    BY <1>2, <1>n, <2>2 DEF FeedTypeOK
  <2> QED
    BY <1>2, <1>o, <2>1, <2>5, <2>6
<1>3. ASSUME userWs' = userWs, slate' = [slate EXCEPT ![task] = NoSlate]
      PROVE  /\ userWs' \subseteq Wallets /\ Cardinality(userWs') <= Limit
             /\ slate' \in [Tasks -> SlateTypes] /\ Spare'
  <2>1. Count(task)' = 0
    BY <1>0, <1>3, <1>o DEF Count, Busy, NoSlate
  <2>2. \A other \in Tasks \ {task} : Count(other)' = Count(other)
    BY <1>0, <1>3, <1>o
  <2>3. Count("loop")' + Count("handler")' <= Count("loop") + Count("handler")
    BY <1>c, <2>1, <2>2 DEF Tasks
  <2>4. Spare'
    BY <1>3, <1>c, <1>n, <2>3 DEF Spare
  <2> QED
    BY <1>0, <1>3, <1>o, <2>4 DEF FeedTypeOK
<1> QED
  BY <1>1, <1>2, <1>3 DEF Proceed

\* Whatever the tracker elects, applying it keeps the slate's invariant.
LEMMA ApplyStep ==
  ASSUME FeedTypeOK, Spare, NEW task \in Tasks, ApplySlate(task)
  PROVE  /\ userWs' \subseteq Wallets /\ Cardinality(userWs') <= Limit
         /\ slate' \in [Tasks -> SlateTypes]
         /\ Spare'
<1>1. PICK wanted \in Elected : Proceed(task, wanted, userWs \ wanted)
  BY DEF ApplySlate
<1>2. wanted \in SUBSET Wallets /\ userWs \ wanted \in SUBSET Wallets
  BY DEF Elected, FeedTypeOK
<1> QED
  BY <1>1, <1>2, ProceedStep

\* Nothing of the slate changes while the market's subscriptions do.
LEMMA MarketSteps ==
  ASSUME FeedTypeOK, Spare, UNCHANGED focusVars
  PROVE  /\ Spare'
         /\ userWs' \subseteq Wallets /\ Cardinality(userWs') <= Limit
         /\ slate' \in [Tasks -> SlateTypes]
BY DEF FeedTypeOK, Spare, Count, Busy, focusVars, SlateTypes

\* Steps of replace_subscriptions and of the universe loop keep the types.
LEMMA FeedTypesStep ==
  ASSUME FeedTypeOK,
         \/ UniverseLoop \/ ReplaceMarket("handler")
         \/ \E p, m \in BOOLEAN : Change(p, m)
  PROVE  /\ paused' \in BOOLEAN /\ monitoring' \in BOOLEAN
         /\ universe' \subseteq Coins /\ market' \subseteq Coins
         /\ feed' \in [Tasks -> FeedTypes]
         /\ changes' \in 0..MaxChanges
         /\ UNCHANGED focusVars
<1> DEFINE Goal == /\ paused' \in BOOLEAN /\ monitoring' \in BOOLEAN
                   /\ universe' \subseteq Coins /\ market' \subseteq Coins
                   /\ feed' \in [Tasks -> FeedTypes]
                   /\ changes' \in 0..MaxChanges
                   /\ UNCHANGED focusVars
<1>f. feed \in [Tasks -> FeedTypes]
  BY DEF FeedTypeOK, FeedTypes
<1>r. ASSUME NEW wanted \in SUBSET Coins PROVE Replacing(wanted) \in FeedTypes
  BY DEF Replacing, FeedTypes, FeedTypeOK
<1>1. CASE Wake
  <2>1. feed' \in [Tasks -> FeedTypes]
    BY <1>1, <1>f DEF Wake, FeedTypes, Tasks
  <2> QED
    BY <1>1, <2>1 DEF Wake, FeedTypeOK, config
<1>2. CASE Refreshed
  <2>1. Desired(Active, universe') \in SUBSET Coins
    BY <1>2 DEF Refreshed, Desired
  <2>2. feed' \in [Tasks -> FeedTypes]
    BY <1>2, <1>f, <1>r, <2>1 DEF Refreshed
  <2> QED
    BY <1>2, <2>2 DEF Refreshed, FeedTypeOK, config
<1>3. ASSUME NEW task \in Tasks, NEW coin \in Coins, DropCoin(task, coin) \/ AddCoin(task, coin)
      PROVE  Goal
  <2>t. feed[task] \in FeedTypes
    BY <1>f
  <2>1. CASE DropCoin(task, coin)
    <3>1. feed' \in [Tasks -> FeedTypes]
      BY <2>1, <2>t, <1>f DEF DropCoin, FeedTypes
    <3> QED
      BY <2>1, <3>1 DEF DropCoin, FeedTypeOK, config
  <2>2. CASE AddCoin(task, coin)
    <3>1. feed' \in [Tasks -> FeedTypes]
      BY <2>2, <2>t, <1>f DEF AddCoin, FeedTypes
    <3> QED
      BY <2>2, <3>1 DEF AddCoin, FeedTypeOK, config
  <2> QED
    BY <1>3, <2>1, <2>2
<1>4. CASE LoopReplaced
  <2>1. NoFeed \in FeedTypes
    BY DEF NoFeed, FeedTypes
  <2>2. feed' \in [Tasks -> FeedTypes]
    BY <1>4, <1>f, <2>1 DEF LoopReplaced
  <2> QED
    BY <1>4, <2>2 DEF LoopReplaced, FeedTypeOK, config
<1>5. ASSUME NEW p \in BOOLEAN, NEW m \in BOOLEAN, Change(p, m) PROVE Goal
  <2>1. Desired(m /\ ~p, universe) \in SUBSET Coins
    BY DEF Desired, FeedTypeOK
  <2>2. feed' \in [Tasks -> FeedTypes]
    BY <1>5, <1>f, <1>r, <2>1 DEF Change
  <2>3. changes' \in 0..MaxChanges
    BY <1>5, FeedAssumption DEF Change, FeedTypeOK
  <2> QED
    BY <1>5, <2>2, <2>3 DEF Change, FeedTypeOK
<1> QED
  BY <1>1, <1>2, <1>3, <1>4, <1>5 DEF UniverseLoop, ReplaceMarket, Tasks

-----------------------------------------------------------------------------
\* Every step keeps the invariant.
LEMMA FeedNextInv == FeedInv /\ [FeedNext]_feedVars => FeedInv'
<1> SUFFICES ASSUME FeedTypeOK, Spare, [FeedNext]_feedVars PROVE FeedInv'
  BY DEF FeedInv
<1>1. ASSUME \/ UniverseLoop \/ ReplaceMarket("handler")
             \/ \E p, m \in BOOLEAN : Change(p, m)
      PROVE  FeedInv'
  BY <1>1, FeedTypesStep, MarketSteps DEF FeedInv, FeedTypeOK, FeedTypes, SlateTypes
<1>2. CASE HandlerReplaced
  <2>1. NoFeed \in FeedTypes /\ feed \in [Tasks -> FeedTypes]
    BY DEF NoFeed, FeedTypes, FeedTypeOK
  <2>2. feed' \in [Tasks -> FeedTypes]
    BY <1>2, <2>1 DEF HandlerReplaced
  <2> QED
    BY <1>2, <2>2, ApplyStep
       DEF HandlerReplaced, FeedInv, FeedTypeOK, FeedTypes, SlateTypes, config, Tasks
<1>3. CASE FocusTick
  BY <1>3, ApplyStep DEF FocusTick, FeedInv, FeedTypeOK, SlateTypes, config, marketVars, Tasks
<1>4. ASSUME NEW task \in Tasks, SocketStopped(task) PROVE FeedInv'
  <2>1. slate[task].wanted \in SUBSET Wallets /\ slate[task].drop \in SUBSET Wallets
    BY DEF FeedTypeOK
  <2> QED
    BY <1>4, <2>1, ProceedStep DEF SocketStopped, FeedInv, FeedTypeOK, SlateTypes, config, marketVars
<1>5. CASE UNCHANGED feedVars
  BY <1>5 DEF feedVars, config, marketVars, focusVars, FeedInv, FeedTypeOK, Spare, Count, Busy
<1> QED
  BY <1>1, <1>2, <1>3, <1>4, <1>5 DEF FeedNext, Handler

\* FeedInv holds in every reachable state.
THEOREM FeedInvariance == FeedSpec => []FeedInv
<1> QED
  BY FeedInitInv, FeedNextInv, PTL DEF FeedSpec

\* The variables of the feed control keep their types, and the focus slate its
\* limit.
THEOREM FeedTypeCorrect == FeedSpec => []FeedTypeOK
<1>1. FeedInv => FeedTypeOK
  BY DEF FeedInv
<1> QED
  BY <1>1, FeedInvariance, PTL

\* The market socket, the focus slate and the sockets that are still closing
\* stay within MAX_WS_CONNECTIONS.
THEOREM WithinConnections == FeedSpec => []ConnectionCeiling
<1>1. FeedInv => ConnectionCeiling
  <2> SUFFICES ASSUME FeedTypeOK, Spare PROVE ConnectionCeiling
    BY DEF FeedInv
  <2>1. Cardinality(Closing) = Count("loop") + Count("handler")
    <3>e. IsFiniteSet({}) /\ Cardinality({}) = 0
      BY FS_EmptySet
    <3>l. IsFiniteSet({"loop"}) /\ Cardinality({"loop"}) = 1
      BY FS_Singleton
    <3>h. Cardinality({"handler"}) = 1
      BY FS_Singleton
    <3>b. Cardinality({"loop", "handler"}) = 2
      <4>1. Cardinality({"loop"} \cup {"handler"}) = 2
        BY <3>l, FS_AddElement
      <4>2. {"loop"} \cup {"handler"} = {"loop", "handler"}
        OBVIOUS
      <4> QED
        BY <4>1, <4>2
    <3>1. CASE Busy("loop") /\ Busy("handler")
      <4>1. Closing = {"loop", "handler"}
        BY <3>1 DEF Closing, Tasks
      <4> QED
        BY <3>1, <3>b, <4>1 DEF Count
    <3>2. CASE Busy("loop") /\ ~Busy("handler")
      <4>1. Closing = {"loop"}
        BY <3>2 DEF Closing, Tasks
      <4> QED
        BY <3>2, <3>l, <4>1 DEF Count
    <3>3. CASE ~Busy("loop") /\ Busy("handler")
      <4>1. Closing = {"handler"}
        BY <3>3 DEF Closing, Tasks
      <4> QED
        BY <3>3, <3>h, <4>1 DEF Count
    <3>4. CASE ~Busy("loop") /\ ~Busy("handler")
      <4>1. Closing = {}
        BY <3>4 DEF Closing, Tasks
      <4> QED
        BY <3>4, <3>e, <4>1 DEF Count
    <3> QED
      BY <3>1, <3>2, <3>3, <3>4
  <2>2. Cardinality(userWs) \in Nat
    BY SlateSize
  <2>3. Count("loop") \in {0, 1} /\ Count("handler") \in {0, 1}
    BY DEF Count
  <2> QED
    BY <2>1, <2>2, <2>3, FeedAssumption DEF Spare, ConnectionCeiling
<1> QED
  BY <1>1, FeedInvariance, PTL

-----------------------------------------------------------------------------
(* Runtime.  The parts of start come in its order and those of stop leave  *)
(* in its order: what a part needs came before it and leaves after it.     *)

\* The steps of both orders.
Steps ==
  {"connect", "wait", "migrate", "restore", "http", "initialize", "menus",
   "sender", "dispatch", "poll", "rest", "engine", "spawn",
   "tasks", "sockets", "bot", "disconnect"}

\* What is left of an order from its k-th step on.
LeftFrom(seq, order, k) ==
  /\ seq \in Seq(Steps)
  /\ Len(seq) = Len(order) + 1 - k
  /\ \A i \in 1 .. Len(seq) : seq[i] = order[i + k - 1]

\* The parts that need others.
Dependents == {"http", "sender", "handlers", "polling", "tasks"}

\* While start is at its k-th step, what the earlier ones brought up is up; only
\* the server may have left.
Came ==
  phase = "starting" /\ todo # <<>> =>
    \E k \in 1 .. 13 :
      /\ LeftFrom(todo, StartOrder, k)
      /\ \A j \in 1 .. k - 1 : Brings(StartOrder[j]) \ {"http"} \subseteq up

\* While stop is at its k-th step, of the parts that need others those taken
\* down by the earlier ones are down.
Went ==
  Stopping =>
    \E k \in 1 .. 10 :
      /\ LeftFrom(todo, StopOrder, k)
      /\ \A j \in 1 .. k - 1 : Takes(StopOrder[j]) \cap Dependents \cap up = {}

RuntimeInv ==
  /\ NeedsAreUp
  /\ "tasks" \in up => "ingest" \in up
  /\ Came
  /\ Went

LEMMA OrdersAre ==
  /\ StartOrder \in Seq(Steps) /\ Len(StartOrder) = 13
  /\ StopOrder \in Seq(Steps) /\ Len(StopOrder) = 9
<1>1. StartOrder \in Seq(Steps)
  BY DEF StartOrder, Steps
<1>2. Len(StartOrder) = 13
  BY DEF StartOrder
<1>3. StopOrder \in Seq(Steps)
  BY DEF StopOrder, Steps
<1>4. Len(StopOrder) = 9
  BY DEF StopOrder
<1> QED BY <1>1, <1>2, <1>3, <1>4

LEMMA FromOne ==
  ASSUME NEW order \in Seq(Steps), NEW seq, seq = order
  PROVE  LeftFrom(seq, order, 1)
BY DEF LeftFrom

LEMMA HeadAndTail ==
  ASSUME NEW order \in Seq(Steps), NEW k \in Nat \ {0}, NEW seq,
         LeftFrom(seq, order, k), seq # <<>>
  PROVE  /\ k \in 1 .. Len(order)
         /\ Head(seq) = order[k]
         /\ LeftFrom(Tail(seq), order, k + 1)
         /\ Tail(seq) # <<>> => k + 1 \in 1 .. Len(order)
<1>1. /\ seq \in Seq(Steps) /\ Len(order) \in Nat
      /\ Len(seq) = Len(order) + 1 - k
      /\ \A i \in 1 .. Len(seq) : seq[i] = order[i + k - 1]
  BY DEF LeftFrom
<1>2. Len(seq) \in Nat /\ Len(seq) >= 1
  BY <1>1
<1>3. Head(seq) = order[k]
  BY <1>1, <1>2
<1>4. /\ Tail(seq) \in Seq(Steps) /\ Len(Tail(seq)) = Len(seq) - 1
      /\ \A i \in 1 .. Len(seq) - 1 : Tail(seq)[i] = seq[i + 1]
  BY <1>1, <1>2
<1>5. ASSUME NEW i \in 1 .. Len(seq) - 1
      PROVE  Tail(seq)[i] = order[i + (k + 1) - 1]
  <2>1. i + 1 \in 1 .. Len(seq) /\ i + 1 + k - 1 = i + (k + 1) - 1
    BY <1>2
  <2>2. seq[i + 1] = order[i + 1 + k - 1]
    BY <1>1, <2>1
  <2> QED BY <1>4, <2>1, <2>2
<1>6. LeftFrom(Tail(seq), order, k + 1)
  BY <1>1, <1>2, <1>4, <1>5 DEF LeftFrom
<1>7. Tail(seq) # <<>> => Len(Tail(seq)) >= 1
  BY <1>4
<1> QED BY <1>1, <1>2, <1>3, <1>4, <1>6, <1>7

\* The place of the steps that bring up a part that needs others.
LEMMA Places ==
  ASSUME NEW k \in 1 .. 13
  PROVE  /\ StartOrder[k] = "http" => k = 5
         /\ StartOrder[k] = "sender" => k = 8
         /\ StartOrder[k] = "dispatch" => k = 9
         /\ StartOrder[k] = "poll" => k = 10
         /\ StartOrder[k] = "spawn" => k = 13
BY DEF StartOrder

\* When its turn comes, what a step of start brings up finds what it needs.
LEMMA NeedsCame ==
  ASSUME RuntimeInv, NEW step, Starting(step)
  PROVE  \A part \in Brings(step) : Needs(part) \subseteq up \cup Brings(step)
<1>1. PICK k \in 1 .. 13 :
        /\ LeftFrom(todo, StartOrder, k)
        /\ \A j \in 1 .. k - 1 : Brings(StartOrder[j]) \ {"http"} \subseteq up
  BY DEF RuntimeInv, Came, Starting
<1>2. step = StartOrder[k]
  BY <1>1, OrdersAre, HeadAndTail DEF Starting
<1>3. k > 4 => {"pool", "state"} \subseteq up
  <2>1. Brings(StartOrder[4]) = {"pool", "state"}
    BY DEF StartOrder, Brings
  <2> QED BY <1>1, <2>1
<1>4. k > 6 => "bot" \in up
  <2>1. Brings(StartOrder[6]) = {"bot"}
    BY DEF StartOrder, Brings
  <2> QED BY <1>1, <2>1
<1>5. k > 8 => "sender" \in up
  <2>1. Brings(StartOrder[8]) = {"sender"}
    BY DEF StartOrder, Brings
  <2> QED BY <1>1, <2>1
<1>6. k > 9 => "handlers" \in up
  <2>1. Brings(StartOrder[9]) = {"handlers"}
    BY DEF StartOrder, Brings
  <2> QED BY <1>1, <2>1
<1>7. k > 11 => "rest" \in up
  <2>1. Brings(StartOrder[11]) = {"rest"}
    BY DEF StartOrder, Brings
  <2> QED BY <1>1, <2>1
<1>8. CASE step = "http"
  <2>1. k = 5
    BY <1>2, <1>8, Places
  <2>2. Brings(step) = {"http"}
    BY <1>8 DEF Brings
  <2> QED BY <1>3, <2>1, <2>2 DEF Needs
<1>9. CASE step = "sender"
  <2>1. k = 8
    BY <1>2, <1>9, Places
  <2>2. Brings(step) = {"sender"}
    BY <1>9 DEF Brings
  <2> QED BY <1>3, <1>4, <2>1, <2>2 DEF Needs
<1>10. CASE step = "dispatch"
  <2>1. k = 9
    BY <1>2, <1>10, Places
  <2>2. Brings(step) = {"handlers"}
    BY <1>10 DEF Brings
  <2> QED BY <1>3, <1>4, <2>1, <2>2 DEF Needs
<1>11. CASE step = "poll"
  <2>1. k = 10
    BY <1>2, <1>11, Places
  <2>2. Brings(step) = {"polling"}
    BY <1>11 DEF Brings
  <2> QED BY <1>4, <1>6, <2>1, <2>2 DEF Needs
<1>12. CASE step = "spawn"
  <2>1. k = 13
    BY <1>2, <1>12, Places
  <2>2. Brings(step) = {"market", "tasks", "ingest"}
    BY <1>12 DEF Brings
  <2>3. /\ Needs("tasks") = {"pool", "state", "rest", "market", "sender"}
        /\ Needs("market") = {} /\ Needs("ingest") = {}
    BY DEF Needs
  <2> QED BY <1>3, <1>5, <1>7, <2>1, <2>2, <2>3
<1>13. CASE step \notin {"http", "sender", "dispatch", "poll", "spawn"}
  BY <1>13 DEF Brings, Needs
<1> QED BY <1>8, <1>9, <1>10, <1>11, <1>12, <1>13

LEMMA BringKeeps ==
  ASSUME RuntimeInv, NEW step, Bring(step)
  PROVE  RuntimeInv'
<1>1. /\ Starting(step) /\ todo' = Tail(todo) /\ up' = up \cup Brings(step)
      /\ phase = "starting" /\ phase' = phase
  BY DEF Bring, Starting
<1>2. NeedsAreUp'
  BY <1>1, NeedsCame DEF RuntimeInv, NeedsAreUp
<1>3. ("tasks" \in up => "ingest" \in up)'
  BY <1>1 DEF RuntimeInv, Brings
<1>4. Came'
  <2>1. PICK k \in 1 .. 13 :
          /\ LeftFrom(todo, StartOrder, k)
          /\ \A j \in 1 .. k - 1 : Brings(StartOrder[j]) \ {"http"} \subseteq up
    BY <1>1 DEF RuntimeInv, Came, Starting
  <2>2. /\ step = StartOrder[k]
        /\ LeftFrom(todo', StartOrder, k + 1)
        /\ todo' # <<>> => k + 1 \in 1 .. 13
    <3>1. todo # <<>> /\ Head(todo) = step /\ k \in Nat \ {0}
      BY <1>1 DEF Starting
    <3>2. /\ Head(todo) = StartOrder[k]
          /\ LeftFrom(Tail(todo), StartOrder, k + 1)
          /\ Tail(todo) # <<>> => k + 1 \in 1 .. Len(StartOrder)
      BY <2>1, <3>1, OrdersAre, HeadAndTail
    <3> QED BY <1>1, <3>1, <3>2, OrdersAre
  <2>3. \A j \in 1 .. (k + 1) - 1 : Brings(StartOrder[j]) \ {"http"} \subseteq up'
    BY <1>1, <2>1, <2>2
  <2> QED BY <2>2, <2>3 DEF Came
<1>5. Went'
  BY <1>1 DEF Went, Stopping
<1> QED BY <1>2, <1>3, <1>4, <1>5 DEF RuntimeInv

\* Stop begins with nothing taken down.
LEMMA StopBegins ==
  ASSUME RuntimeInv, phase' \in {"stopping", "failing"}, todo' = StopOrder, up' = up
  PROVE  RuntimeInv'
<1>1. LeftFrom(todo', StopOrder, 1)
  BY OrdersAre, FromOne
<1>2. Went'
  BY <1>1 DEF Went
<1> QED BY <1>2 DEF RuntimeInv, NeedsAreUp, Came

\* A part that is still needed is not taken down.
LEMMA TakeKeeps ==
  ASSUME RuntimeInv, NEW step, Take(step)
  PROVE  RuntimeInv'
<1>1. /\ Stopping /\ todo # <<>> /\ Head(todo) = step /\ todo' = Tail(todo)
      /\ phase' = phase
      /\ \/ Skipped(step) /\ up' = up
         \/ up' = up \ Takes(step)
         \/ step \in {"rest", "bot", "disconnect"} /\ up' = up
  BY DEF Take
<1>2. PICK k \in 1 .. 10 :
        /\ LeftFrom(todo, StopOrder, k)
        /\ \A j \in 1 .. k - 1 : Takes(StopOrder[j]) \cap Dependents \cap up = {}
  BY <1>1 DEF RuntimeInv, Went
<1>4. k \in 1 .. 9
  <2>1. k \in Nat \ {0}
    OBVIOUS
  <2>2. k \in 1 .. Len(StopOrder)
    BY <1>1, <1>2, <2>1, OrdersAre, HeadAndTail
  <2> QED BY <2>2, OrdersAre
<1>5. step = StopOrder[k] /\ LeftFrom(todo', StopOrder, k + 1) /\ k + 1 \in 1 .. 10
  BY <1>1, <1>2, <1>4, OrdersAre, HeadAndTail
<1>6. Takes(step) \cap Dependents \cap up' = {}
  <2>1. CASE up' = up \ Takes(step)
    BY <2>1
  <2>2. CASE Skipped(step) /\ up' = up
    BY <2>2 DEF RuntimeInv, Skipped, Takes, Dependents
  <2>3. CASE step \in {"rest", "bot", "disconnect"}
    BY <2>3 DEF Takes, Dependents
  <2> QED BY <1>1, <2>1, <2>2, <2>3
<1>7. up' \subseteq up
  BY <1>1
<1>8. \A j \in 1 .. (k + 1) - 1 : Takes(StopOrder[j]) \cap Dependents \cap up' = {}
  BY <1>2, <1>4, <1>5, <1>6, <1>7
<1>9. Went'
  BY <1>5, <1>8 DEF Went
<1>10. NeedsAreUp'
  <2>1. k > 1 => "tasks" \notin up'
    <3>1. Takes(StopOrder[1]) = {"running", "tasks"}
      BY DEF StopOrder, Takes
    <3> QED BY <1>4, <1>8, <3>1 DEF Dependents
  <2>2. k > 4 => "polling" \notin up'
    <3>1. Takes(StopOrder[4]) = {"polling"}
      BY DEF StopOrder, Takes
    <3> QED BY <1>4, <1>8, <3>1 DEF Dependents
  <2>3. k > 5 => "sender" \notin up'
    <3>1. Takes(StopOrder[5]) = {"sender"}
      BY DEF StopOrder, Takes
    <3> QED BY <1>4, <1>8, <3>1 DEF Dependents
  <2>4. k > 6 => "handlers" \notin up'
    <3>1. Takes(StopOrder[6]) = {"handlers"}
      BY DEF StopOrder, Takes
    <3> QED BY <1>4, <1>8, <3>1 DEF Dependents
  <2>5. k > 8 => "http" \notin up'
    <3>1. Takes(StopOrder[8]) = {"http"}
      BY DEF StopOrder, Takes
    <3> QED BY <1>4, <1>8, <3>1 DEF Dependents
  <2>6. \A part \in up' : Needs(part) \cap Takes(step) = {}
    <3>1. \A part \in up' : part \in Dependents \/ Needs(part) = {}
      BY DEF Needs, Dependents
    <3>2. CASE k \in {1, 4, 8}
      BY <1>5, <3>2 DEF StopOrder, Takes, Needs
    <3>3. CASE k = 2
      BY <1>5, <2>1, <3>3 DEF StopOrder, Takes, Needs
    <3>4. CASE k = 3
      BY <1>5, <2>1, <3>4 DEF StopOrder, Takes, Needs
    <3>5. CASE k = 5
      BY <1>5, <2>1, <3>5 DEF StopOrder, Takes, Needs
    <3>6. CASE k = 6
      BY <1>5, <2>2, <3>6 DEF StopOrder, Takes, Needs
    <3>7. CASE k = 7
      BY <1>5, <2>2, <2>3, <2>4, <3>7 DEF StopOrder, Takes, Needs
    <3>8. CASE k = 9
      BY <1>5, <2>1, <2>3, <2>4, <2>5, <3>8 DEF StopOrder, Takes, Needs
    <3> QED BY <1>4, <3>2, <3>3, <3>4, <3>5, <3>6, <3>7, <3>8
  <2> QED BY <1>1, <2>6 DEF RuntimeInv, NeedsAreUp
<1>11. ("tasks" \in up => "ingest" \in up)'
  <2>1. "ingest" \in Takes(step) => k = 3
    BY <1>4, <1>5 DEF StopOrder, Takes
  <2>2. k = 3 => "tasks" \notin up
    <3>1. Takes(StopOrder[1]) = {"running", "tasks"}
      BY DEF StopOrder, Takes
    <3> QED BY <1>2, <3>1 DEF Dependents
  <2> QED BY <1>1, <2>1, <2>2 DEF RuntimeInv
<1>12. Came'
  BY <1>1 DEF Came, Stopping
<1> QED BY <1>9, <1>10, <1>11, <1>12 DEF RuntimeInv

\* Steps that neither start nor stop takes: they may only add to the pool and the
\* focus sockets, or let the server leave.
LEMMA BesideKeeps ==
  ASSUME RuntimeInv, UNCHANGED <<phase, todo>>,
         \/ up' = up
         \/ up' = up \ {"http"}
         \/ up' = up \cup {"pool"}
         \/ up' = up \cup {"focus"}
  PROVE  RuntimeInv'
<1>1. NeedsAreUp'
  BY DEF RuntimeInv, NeedsAreUp, Needs
<1>2. Came'
  BY DEF RuntimeInv, Came
<1>3. up' \cap Dependents \subseteq up
  BY DEF Dependents
<1>4. Went'
  BY <1>3 DEF RuntimeInv, Went, Stopping
<1> QED BY <1>1, <1>2, <1>4 DEF RuntimeInv

LEMMA RuntimeInitInv == RuntimeInit => RuntimeInv
<1> SUFFICES ASSUME RuntimeInit PROVE RuntimeInv
  OBVIOUS
<1>1. LeftFrom(todo, StartOrder, 1)
  BY OrdersAre, FromOne DEF RuntimeInit
<1>2. Came
  BY <1>1 DEF RuntimeInit, Came
<1> QED BY <1>2 DEF RuntimeInit, RuntimeInv, NeedsAreUp, Went, Stopping

LEMMA RuntimeNextInv == RuntimeInv /\ [RuntimeNext]_runtimeVars => RuntimeInv'
<1> SUFFICES ASSUME RuntimeInv, [RuntimeNext]_runtimeVars PROVE RuntimeInv'
  OBVIOUS
<1>1. ASSUME NEW step, Fail(step) PROVE RuntimeInv'
  BY <1>1, StopBegins DEF Fail
<1>2. CASE CannotBind
  BY <1>2 DEF CannotBind, RuntimeInv, NeedsAreUp, Came, Went, Stopping
<1>3. ASSUME NEW step, Degrade(step) PROVE RuntimeInv'
  BY <1>3 DEF Degrade, Starting, RuntimeInv, NeedsAreUp, Came, Went, Stopping
<1>4. CASE Serve
  BY <1>4 DEF Serve, RuntimeInv, NeedsAreUp, Came, Went, Stopping
<1>5. CASE Retry
  BY <1>5, BesideKeeps DEF Retry
<1>6. CASE StartRuntime
  BY <1>1, <1>2, <1>3, <1>4, <1>5, <1>6, BringKeeps DEF StartRuntime
<1>7. CASE BeginStop
  BY <1>7, StopBegins DEF BeginStop
<1>8. CASE Exit
  BY <1>8 DEF Exit, RuntimeInv, NeedsAreUp, Came, Went, Stopping
<1>9. CASE StopRuntime
  BY <1>7, <1>8, <1>9, TakeKeeps DEF StopRuntime
<1>10. CASE Signal \/ ServerLeaves \/ Fetch
  BY <1>10, BesideKeeps DEF Signal, ServerLeaves, Fetch, run
<1>11. CASE Handlers
  BY <1>11, BesideKeeps DEF Handlers, Handle, Saved, OpenFocus, run
<1>12. CASE UNCHANGED runtimeVars
  BY <1>12, BesideKeeps DEF runtimeVars, run
<1> QED BY <1>6, <1>9, <1>10, <1>11, <1>12 DEF RuntimeNext

\* Whatever start brought up, wherever it failed and whenever stop began, a part
\* runs only while everything it uses is up: NeedsAreUp.
THEOREM RuntimeNeedsAreUp == RuntimeSpec => []NeedsAreUp
<1>1. RuntimeInv => NeedsAreUp
  BY DEF RuntimeInv
<1> QED BY <1>1, RuntimeInitInv, RuntimeNextInv, PTL DEF RuntimeSpec
=============================================================================
