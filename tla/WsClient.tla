------------------------------- MODULE WsClient -------------------------------
(***************************************************************************)
(* HyperliquidWebSocket (src/app/hyperliquid/websocket.py): one connection *)
(* that is opened again when it breaks, the set of subscriptions its users *)
(* want, the set it believes active, and what the exchange has subscribed  *)
(* on the live connection.                                                 *)
(*                                                                         *)
(* The reader task connects, replays the desired set and reads.  Callers   *)
(* run replace_subscriptions, of which the engine has several at a time    *)
(* (the universe loop and the configuration handler).  A send puts its     *)
(* frame on the connection at once and then may wait, so a task's next     *)
(* step is a resumption.  Pings, dispatch of messages and counters are     *)
(* left out.                                                               *)
(***************************************************************************)
EXTENDS Integers, FiniteSets

CONSTANTS
  Keys,      \* subscription keys
  Callers,   \* tasks that call replace_subscriptions
  None,      \* no key
  MaxSubs,   \* max_subscriptions
  MaxCalls,  \* bound: calls of replace_subscriptions
  MaxDrops   \* bound: connections that break or fail

ASSUME WsAssumption ==
  /\ None \notin Keys
  /\ IsFiniteSet(Keys)
  /\ MaxSubs \in Nat /\ MaxCalls \in Nat /\ MaxDrops \in Nat

VARIABLES
  desired,   \* _desired
  active,    \* _active
  connected, \* connected; _ws is a socket exactly then
  link,      \* the connection: "down", "up", or "cut", which nobody noticed yet
  server,    \* what the exchange has subscribed on this connection
  reader,    \* where _run stands
  replay,    \* what _resubscribe has not sent yet
  replaying, \* the key whose send _resubscribe waits for
  call,      \* per caller: phase, keys to drop and to add, the key it sends
  calls,     \* replace_subscriptions called so far
  drops      \* connections lost so far

readerVars == <<reader, replay, replaying>>
vars == <<desired, active, connected, link, server, readerVars, call, calls, drops>>

NoCall == [phase |-> "idle", drop |-> {}, add |-> {}, key |-> None]

Init ==
  /\ desired = {} /\ active = {}
  /\ connected = FALSE /\ link = "down" /\ server = {}
  /\ reader = "connect" /\ replay = {} /\ replaying = None
  /\ call = [c \in Callers |-> NoCall]
  /\ calls = 0 /\ drops = 0

\* A frame reaches the exchange unless the connection is cut.
Subscribed(k)   == IF link = "up" THEN server \cup {k} ELSE server
Unsubscribed(k) == IF link = "up" THEN server \ {k} ELSE server

-----------------------------------------------------------------------------
(* The reader: _run and _resubscribe.                                      *)

\* Mutant of Connect: what was active is replayed, not what is desired.
ConnectReplaysActive ==
  /\ reader = "connect"
  /\ link' = "up"
  /\ connected' = TRUE
  /\ active' = {}
  /\ replay' = active
  /\ reader' = "resubscribe"
  /\ UNCHANGED <<desired, server, replaying, call, calls, drops>>

\* Mutant of Connect: connected is set after the replay, by which time nobody
\* sends; a subscription requested meanwhile waits for the next connection.
ConnectQuietly ==
  /\ reader = "connect"
  /\ link' = "up"
  /\ connected' = FALSE
  /\ active' = {}
  /\ replay' = desired
  /\ reader' = "resubscribe"
  /\ UNCHANGED <<desired, server, replaying, call, calls, drops>>

\* The socket opens.  connected is set before the replay of the desired set
\* starts, so that what is requested from now on is sent by the caller.
Connect ==
  /\ reader = "connect"
  /\ link' = "up"
  /\ connected' = TRUE
  /\ active' = {}
  /\ replay' = desired
  /\ reader' = "resubscribe"
  /\ UNCHANGED <<desired, server, replaying, call, calls, drops>>

\* connect raises: back off.
ConnectFails ==
  /\ reader = "connect"
  /\ drops < MaxDrops
  /\ drops' = drops + 1
  /\ reader' = "sleep"
  /\ UNCHANGED <<desired, active, connected, link, server, replay, replaying, call, calls>>

\* The next key of the snapshot is sent, also when nobody desires it any more;
\* a failed send is swallowed and the replay goes on.
ReplaySend(k) ==
  /\ reader = "resubscribe"
  /\ replaying = None
  /\ k \in replay
  /\ replay' = replay \ {k}
  /\ server' = Subscribed(k)
  /\ replaying' = IF link = "up" THEN k ELSE None
  /\ UNCHANGED <<desired, active, connected, link, reader, call, calls, drops>>

\* The send returned; after a cut it may have failed.
ReplaySent ==
  /\ replaying # None
  /\ active' \in {active \cup {replaying}} \cup (IF link = "up" THEN {} ELSE {active})
  /\ replaying' = None
  /\ UNCHANGED <<desired, connected, link, server, reader, replay, call, calls, drops>>

ReplayDone ==
  /\ reader = "resubscribe"
  /\ replay = {}
  /\ replaying = None
  /\ reader' = "read"
  /\ UNCHANGED <<desired, active, connected, link, server, replay, replaying, call, calls, drops>>

\* Reading from a cut connection raises; the finally clause forgets it.
Disconnect ==
  /\ reader = "read"
  /\ link = "cut"
  /\ link' = "down"
  /\ connected' = FALSE
  /\ active' = {}
  /\ reader' = "sleep"
  /\ UNCHANGED <<desired, server, replay, replaying, call, calls, drops>>

\* The back-off is over.
Reconnect ==
  /\ reader = "sleep"
  /\ reader' = "connect"
  /\ UNCHANGED <<desired, active, connected, link, server, replay, replaying, call, calls, drops>>

\* stop(), for good: the tasks are cancelled and the socket is closed.
Stop ==
  /\ reader # "stopped"
  /\ reader' = "stopped"
  /\ connected' = FALSE /\ link' = "down" /\ server' = {} /\ active' = {}
  /\ replay' = {} /\ replaying' = None
  /\ UNCHANGED <<desired, call, calls, drops>>

-----------------------------------------------------------------------------
(* replace_subscriptions.                                                  *)

Replace(c, wanted) ==
  /\ call[c].phase = "idle"
  /\ calls < MaxCalls
  /\ calls' = calls + 1
  /\ call' = [call EXCEPT ![c] =
                [phase |-> "drop", drop |-> desired \ wanted, add |-> wanted, key |-> None]]
  /\ UNCHANGED <<desired, active, connected, link, server, readerVars, drops>>

\* unsubscribe: the key is no longer desired; only an active one is sent.
Unsubscribe(c, k) ==
  /\ call[c].phase = "drop"
  /\ call[c].key = None
  /\ k \in call[c].drop
  /\ desired' = desired \ {k}
  /\ active' = active \ {k}
  /\ IF k \in active /\ connected
     THEN /\ server' = Unsubscribed(k)
          /\ call' = [call EXCEPT ![c].drop = @ \ {k}, ![c].key = k]
     ELSE /\ call' = [call EXCEPT ![c].drop = @ \ {k}]
          /\ UNCHANGED server
  /\ UNCHANGED <<connected, link, readerVars, calls, drops>>

StartAdding(c) ==
  /\ call[c].phase = "drop"
  /\ call[c].key = None
  /\ call[c].drop = {}
  /\ call' = [call EXCEPT ![c].phase = "add"]
  /\ UNCHANGED <<desired, active, connected, link, server, readerVars, calls, drops>>

\* subscribe: nothing to do for a desired key, refused at the cap, queued in
\* _desired while offline, else sent.
Subscribe(c, k) ==
  /\ call[c].phase = "add"
  /\ call[c].key = None
  /\ k \in call[c].add
  /\ LET new == k \notin desired /\ Cardinality(desired) < MaxSubs
     IN  /\ desired' = IF new THEN desired \cup {k} ELSE desired
         /\ IF new /\ connected
            THEN /\ server' = Subscribed(k)
                 /\ call' = [call EXCEPT ![c].add = @ \ {k}, ![c].key = k]
            ELSE /\ call' = [call EXCEPT ![c].add = @ \ {k}]
                 /\ UNCHANGED server
  /\ UNCHANGED <<active, connected, link, readerVars, calls, drops>>

\* Mutant of Resume: a key that was dropped meanwhile is not added to _active.
ResumeDesired(c) ==
  /\ call[c].key # None
  /\ active' = IF call[c].phase = "add" THEN active \cup ({call[c].key} \cap desired) ELSE active
  /\ call' = [call EXCEPT ![c].key = None]
  /\ UNCHANGED <<desired, connected, link, server, readerVars, calls, drops>>

\* The send returned, whatever became of the connection: subscribe adds the key
\* to _active, unsubscribe has nothing left to do.
Resume(c) ==
  /\ call[c].key # None
  /\ active' = IF call[c].phase = "add" THEN active \cup {call[c].key} ELSE active
  /\ call' = [call EXCEPT ![c].key = None]
  /\ UNCHANGED <<desired, connected, link, server, readerVars, calls, drops>>

Return(c) ==
  /\ call[c].phase = "add"
  /\ call[c].key = None
  /\ call[c].add = {}
  /\ call' = [call EXCEPT ![c] = NoCall]
  /\ UNCHANGED <<desired, active, connected, link, server, readerVars, calls, drops>>

-----------------------------------------------------------------------------
\* The connection breaks; its subscriptions are gone with it.
Cut ==
  /\ link = "up"
  /\ drops < MaxDrops
  /\ drops' = drops + 1
  /\ link' = "cut"
  /\ server' = {}
  /\ UNCHANGED <<desired, active, connected, readerVars, call, calls>>

Reader ==
  \/ Connect \/ ConnectFails \/ ReplaySent \/ ReplayDone \/ Disconnect \/ Reconnect
  \/ \E k \in Keys : ReplaySend(k)

Caller(c) ==
  \/ StartAdding(c) \/ Resume(c) \/ Return(c)
  \/ \E k \in Keys : Unsubscribe(c, k) \/ Subscribe(c, k)

Next ==
  \/ Reader \/ Cut \/ Stop
  \/ \E c \in Callers : Caller(c) \/ \E wanted \in SUBSET Keys : Replace(c, wanted)

Spec == Init /\ [][Next]_vars

\* The reader task is scheduled, and a connection attempt comes to an end.
FairSpec == Spec /\ WF_vars(Reader)

-----------------------------------------------------------------------------
(* Properties.                                                             *)

\* Types; never more desired than max_subscriptions.
TypeOK ==
  /\ desired \subseteq Keys /\ Cardinality(desired) <= MaxSubs
  /\ active \subseteq Keys
  /\ connected \in BOOLEAN /\ link \in {"down", "up", "cut"}
  /\ server \subseteq Keys
  /\ reader \in {"connect", "resubscribe", "read", "sleep", "stopped"}
  /\ replay \subseteq Keys /\ replaying \in Keys \cup {None}
  /\ call \in [Callers -> [phase : {"idle", "drop", "add"}, drop : SUBSET Keys,
                           add : SUBSET Keys, key : Keys \cup {None}]]
  /\ calls \in 0..MaxCalls /\ drops \in 0..MaxDrops

\* On a live connection every desired subscription is with the exchange or on
\* its way in the replay: none is lost between a caller and the reader, however
\* calls, replay and reconnections interleave.
NoLostSubscription == link = "up" => desired \subseteq server \cup replay

\* What the exchange sends although nobody desires it any more, because it was
\* dropped while its subscription was under way, is at least in _active, from
\* which a later unsubscribe sends, once no send is in flight.
LeakIsActive ==
  (replaying = None /\ \A c \in Callers : call[c].key = None) => server \subseteq active

\* What is desired is subscribed in the end, through failures and reconnections.
GetsSubscribed ==
  \A k \in Keys : k \in desired ~> (k \in server \/ k \notin desired \/ reader = "stopped")
=============================================================================
