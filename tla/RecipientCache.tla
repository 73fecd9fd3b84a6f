---------------------------- MODULE RecipientCache ----------------------------
(***************************************************************************)
(* Who an alert goes to: AlertService._resolve_recipients with its cache,  *)
(* and what changes its answer: /start, /stop, public mode, co-admins, the *)
(* reset of all settings, a subscriber who blocked the bot.                *)
(*                                                                         *)
(* Two actors interleave at their awaits: the sender task, the only caller *)
(* of _resolve_recipients, and one Telegram handler at a time (updates are *)
(* processed sequentially).  A handler commits its change first and        *)
(* invalidates the cache later.  The database answers a query at some      *)
(* instant of the wait for it, or fails.                                   *)
(***************************************************************************)
EXTENDS Integers, FiniteSets

CONSTANTS
  Users,      \* Telegram users; a user's private chat has the user's id
  Main,       \* MAIN_ADMIN_ID
  EnvPublic,  \* PUBLIC_MODE, the environment's default
  TTL,        \* RECIPIENT_CACHE_TTL, in ticks
  DbFails     \* whether the database may fail

ASSUME RecipientAssumption ==
  /\ Main \in Users
  /\ EnvPublic \in BOOLEAN
  /\ TTL \in Nat \ {0}
  /\ DbFails \in BOOLEAN

VARIABLES
  status,    \* users: "none" no row, "on" subscribed, "off" opted out or blocked
  stored,    \* admins: the co-admins in the database
  roles,     \* AdminService._roles: the co-admins in memory
  public,    \* RuntimeConfig.public_mode
  cache,     \* _recipients: administrators and subscribers
  age,       \* time since _recipients_at; TTL stands for too old, or None
  blind,     \* the cached list was made without the opt-outs
  sender,    \* which await of _resolve_recipients the sender stands at
  draft,     \* what the resolver has so far, and the age of its now
  handler,   \* the handler's next step, who stopped, whether it changed anything
  offFor,    \* how long a user has been opted out
  outFor,    \* how long one has been no administrator in a private bot
  dueFor     \* how long an administrator has been one without opting out

worldVars  == <<status, stored, roles, public>>
cacheVars  == <<cache, age, blind>>
resolverVars == <<sender, draft>>
timeVars   == <<offFor, outFor, dueFor>>
recipientVars == <<worldVars, cacheVars, resolverVars, handler, timeVars>>

AdminIds    == {Main} \cup roles                       \* AdminService.admin_ids
OptedOut    == {u \in Users : status[u] = "off"}       \* unsubscribed_ids
Subscribers == {u \in Users : status[u] = "on"}        \* subscribers
Outsiders   == IF public THEN {} ELSE Users \ AdminIds
DueAdmins   == AdminIds \ OptedOut
Recipients  == cache.admins \cup cache.subscribers

NoList  == [admins |-> {}, subscribers |-> {}]
NoDraft == [age |-> 0, off |-> {}, blind |-> FALSE, list |-> NoList]
Idle    == [at |-> "idle", user |-> Main, changed |-> FALSE]

\* Times are counted up to TTL.
Longer(t) == IF t < TTL THEN t + 1 ELSE TTL

\* A time that is kept while its fact holds for the users of the set.
Kept(for, users) == [u \in Users |-> IF u \in users THEN for[u] ELSE 0]

\* Every action that changes the world restarts the times of facts it ends.
Witness ==
  /\ offFor' = Kept(offFor, OptedOut')
  /\ outFor' = Kept(outFor, Outsiders')
  /\ dueFor' = Kept(dueFor, DueAdmins')

RecipientInit ==
  /\ status \in [Users -> {"none", "on", "off"}]
  /\ stored \in SUBSET (Users \ {Main})
  /\ roles = stored
  /\ public \in BOOLEAN
  /\ cache = NoList /\ age = TTL /\ blind = FALSE
  /\ sender = "idle" /\ draft = NoDraft
  /\ handler = Idle
  /\ offFor = [u \in Users |-> 0]
  /\ outFor = [u \in Users |-> 0]
  /\ dueFor = [u \in Users |-> 0]

-----------------------------------------------------------------------------
(* _resolve_recipients.  With a fresh cache it returns _recipients and     *)
(* changes nothing, so only the miss has steps.                            *)

\* The cache is too old: now is taken before the first await.
StartResolving ==
  /\ sender = "idle"
  /\ age = TTL
  /\ sender' = "optouts"
  /\ draft' = NoDraft
  /\ UNCHANGED <<worldVars, cacheVars, handler, timeVars>>

\* unsubscribed_ids answers, or fails and everyone is alerted.
ReadOptOuts ==
  /\ sender = "optouts"
  /\ \/ draft' = [draft EXCEPT !.off = OptedOut]
     \/ DbFails /\ draft' = [draft EXCEPT !.blind = TRUE]
  /\ sender' = "admins"
  /\ UNCHANGED <<worldVars, cacheVars, handler, timeVars>>

\* The task resumes: administrators and the public flag come from memory.
ReadAdmins ==
  /\ sender = "admins"
  /\ draft' = [draft EXCEPT !.list.admins = AdminIds \ draft.off]
  /\ sender' = IF public THEN "subscribers" ELSE "store"
  /\ UNCHANGED <<worldVars, cacheVars, handler, timeVars>>

\* Mutant of ReadSubscribers: an error drops the administrators as well.
ReadSubscribersDropsAll ==
  /\ sender = "subscribers"
  /\ \/ draft' = [draft EXCEPT !.list.subscribers =
                    Subscribers \ (draft.off \cup draft.list.admins)]
     \/ DbFails /\ draft' = [draft EXCEPT !.list = NoList]
  /\ sender' = "store"
  /\ UNCHANGED <<worldVars, cacheVars, handler, timeVars>>

\* subscribers answers, or fails and only administrators are alerted.
ReadSubscribers ==
  /\ sender = "subscribers"
  /\ \/ draft' = [draft EXCEPT !.list.subscribers =
                    Subscribers \ (draft.off \cup draft.list.admins)]
     \/ DbFails /\ UNCHANGED draft
  /\ sender' = "store"
  /\ UNCHANGED <<worldVars, cacheVars, handler, timeVars>>

\* Mutant of Store: the list is stamped with the time of its end.
StoreStampedNow ==
  /\ sender = "store"
  /\ cache' = draft.list /\ age' = 0 /\ blind' = draft.blind
  /\ sender' = "idle" /\ draft' = NoDraft
  /\ UNCHANGED <<worldVars, handler, timeVars>>

\* Mutant of Store: the list is extended, not replaced.
StoreExtends ==
  /\ sender = "store"
  /\ cache' = [admins |-> cache.admins \cup draft.list.admins,
               subscribers |-> cache.subscribers \cup draft.list.subscribers]
  /\ age' = draft.age /\ blind' = draft.blind
  /\ sender' = "idle" /\ draft' = NoDraft
  /\ UNCHANGED <<worldVars, handler, timeVars>>

\* The list is cached with the time the resolver started at, whatever was
\* invalidated since, and the broadcast goes to it.
Store ==
  /\ sender = "store"
  /\ cache' = draft.list /\ age' = draft.age /\ blind' = draft.blind
  /\ sender' = "idle" /\ draft' = NoDraft
  /\ UNCHANGED <<worldVars, handler, timeVars>>

\* Forbidden: the sender marks a subscriber of its list blocked, unless the
\* write fails, and empties the cache either way.
MarkBlocked(u) ==
  /\ sender = "idle"
  /\ u \in cache.subscribers
  /\ \/ status' = [status EXCEPT ![u] = "off"]
     \/ DbFails /\ UNCHANGED status
  /\ age' = TTL
  /\ UNCHANGED <<stored, roles, public, cache, blind, resolverVars, handler>>
  /\ Witness

-----------------------------------------------------------------------------
(* The handlers.                                                           *)

\* register: whoever talks to the bot gets a row.
Register(u) ==
  /\ handler = Idle
  /\ status[u] = "none"
  /\ status' = [status EXCEPT ![u] = "on"]
  /\ UNCHANGED <<stored, roles, public, cacheVars, resolverVars, handler>>
  /\ Witness

\* /start: set_subscription commits; the cache is invalidated later.
Start(u) ==
  /\ handler = Idle
  /\ status' = [status EXCEPT ![u] = "on"]
  /\ handler' = [Idle EXCEPT !.at = "invalidate"]
  /\ UNCHANGED <<stored, roles, public, cacheVars, resolverVars>>
  /\ Witness

\* /start when the answer of the database is lost: nothing is invalidated.
StartFails(u) ==
  /\ DbFails
  /\ handler = Idle
  /\ status' = [status EXCEPT ![u] = "on"]
  /\ UNCHANGED <<stored, roles, public, cacheVars, resolverVars, handler>>
  /\ Witness

\* /stop: the same as /start with the opt-out.
Stop(u) ==
  /\ handler = Idle
  /\ status' = [status EXCEPT ![u] = "off"]
  /\ handler' = [at |-> "invalidate", user |-> u, changed |-> TRUE]
  /\ UNCHANGED <<stored, roles, public, cacheVars, resolverVars>>
  /\ Witness

\* /stop when the database refuses or its answer is lost: _set_alerts returns
\* False and cmd_stop replies all the same.
StopFails(u) ==
  /\ DbFails
  /\ handler = Idle
  /\ status' \in {status, [status EXCEPT ![u] = "off"]}
  /\ handler' = [at |-> "reply", user |-> u, changed |-> TRUE]
  /\ UNCHANGED <<stored, roles, public, cacheVars, resolverVars>>
  /\ Witness

\* Public mode: the row is committed and the snapshot replaced; listeners run
\* before the handler goes on.
SetPublic(b) ==
  /\ handler = Idle
  /\ public' = b
  /\ handler' = [Idle EXCEPT !.at = "invalidate"]
  /\ UNCHANGED <<status, stored, roles, cacheVars, resolverVars>>
  /\ Witness

\* reset_to_defaults, whose caller invalidates nothing.
ResetSettings ==
  /\ handler = Idle
  /\ public' = EnvPublic
  /\ UNCHANGED <<status, stored, roles, cacheVars, resolverVars, handler>>
  /\ Witness

\* add_co_admin and remove_co_admin: guards on the roles in memory, the commit,
\* then refresh.  changed is created or removed.
AddCoAdmin(u) ==
  /\ handler = Idle
  /\ u \notin AdminIds
  /\ stored' = stored \cup {u}
  /\ handler' = [Idle EXCEPT !.at = "refresh", !.changed = u \notin stored]
  /\ UNCHANGED <<status, roles, public, cacheVars, resolverVars, timeVars>>

RemoveCoAdmin(u) ==
  /\ handler = Idle
  /\ u \in roles
  /\ stored' = stored \ {u}
  /\ handler' = [Idle EXCEPT !.at = "refresh", !.changed = u \in stored]
  /\ UNCHANGED <<status, roles, public, cacheVars, resolverVars, timeVars>>

\* refresh answers; the handler invalidates if something was changed.
Refresh ==
  /\ handler.at = "refresh"
  /\ roles' = stored
  /\ age' = IF handler.changed THEN TTL ELSE age
  /\ handler' = Idle
  /\ UNCHANGED <<status, stored, public, cache, blind, resolverVars>>
  /\ Witness

\* refresh fails: the change is in the database only.
RefreshFails ==
  /\ DbFails
  /\ handler.at = "refresh"
  /\ handler' = Idle
  /\ UNCHANGED <<worldVars, cacheVars, resolverVars, timeVars>>

\* invalidate_recipients; what follows matters after /stop only.
Invalidate ==
  /\ handler.at = "invalidate"
  /\ age' = TTL
  /\ handler' = IF handler.changed THEN [handler EXCEPT !.at = "reply"] ELSE Idle
  /\ UNCHANGED <<worldVars, cache, blind, resolverVars, timeVars>>

\* The reply to /stop says that alerts have stopped.
Reply ==
  /\ handler.at = "reply"
  /\ handler' = Idle
  /\ UNCHANGED <<worldVars, cacheVars, resolverVars, timeVars>>

-----------------------------------------------------------------------------
\* Time passes.
Tick ==
  /\ age' = Longer(age)
  /\ draft' = IF sender = "idle" THEN draft ELSE [draft EXCEPT !.age = Longer(@)]
  /\ offFor' = [u \in Users |-> IF u \in OptedOut THEN Longer(offFor[u]) ELSE 0]
  /\ outFor' = [u \in Users |-> IF u \in Outsiders THEN Longer(outFor[u]) ELSE 0]
  /\ dueFor' = [u \in Users |-> IF u \in DueAdmins THEN Longer(dueFor[u]) ELSE 0]
  /\ UNCHANGED <<worldVars, cache, blind, sender, handler>>

\* A redeploy: AdminService.load reads the roles, the cache starts empty.
Redeploy ==
  /\ roles' = stored
  /\ cache' = NoList /\ age' = TTL /\ blind' = FALSE
  /\ sender' = "idle" /\ draft' = NoDraft
  /\ handler' = Idle
  /\ UNCHANGED <<status, stored, public>>
  /\ Witness

-----------------------------------------------------------------------------
Resolver ==
  \/ StartResolving \/ ReadOptOuts \/ ReadAdmins \/ ReadSubscribers \/ Store
  \/ \E u \in Users : MarkBlocked(u)

Handler ==
  \/ \E u \in Users :
       \/ Register(u) \/ AddCoAdmin(u) \/ RemoveCoAdmin(u)
       \/ Start(u) \/ StartFails(u) \/ Stop(u) \/ StopFails(u)
  \/ \E b \in BOOLEAN : SetPublic(b)
  \/ ResetSettings \/ Refresh \/ RefreshFails \/ Invalidate \/ Reply

RecipientNext == Resolver \/ Handler \/ Tick \/ Redeploy

RecipientSpec == RecipientInit /\ [][RecipientNext]_recipientVars

-----------------------------------------------------------------------------
(* Properties.  A list is used while its age is below TTL.                 *)

Lists == [admins : SUBSET Users, subscribers : SUBSET Users]
Fresh == age < TTL

\* Types; the main administrator is never a co-admin as well.
TypeOK ==
  /\ status \in [Users -> {"none", "on", "off"}]
  /\ stored \in SUBSET (Users \ {Main}) /\ roles \in SUBSET (Users \ {Main})
  /\ public \in BOOLEAN
  /\ cache \in Lists /\ age \in 0..TTL /\ blind \in BOOLEAN
  /\ sender \in {"idle", "optouts", "admins", "subscribers", "store"}
  /\ draft \in [age : 0..TTL, off : SUBSET Users, blind : BOOLEAN, list : Lists]
  /\ handler \in [at : {"idle", "invalidate", "refresh", "reply"}, user : Users,
                  changed : BOOLEAN]
  /\ offFor \in [Users -> 0..TTL]
  /\ outFor \in [Users -> 0..TTL]
  /\ dueFor \in [Users -> 0..TTL]

\* No cached list is used for somebody who opted out RECIPIENT_CACHE_TTL ago,
\* administrators included, however the opt-out raced the resolver; unless the
\* opt-outs could not be read.
StopHonoured == Fresh /\ ~blind => \A u \in Recipients : offFor[u] < TTL

\* Nor for somebody who has been no administrator in a private bot so long:
\* also after reset_to_defaults, which does not invalidate the cache.
PrivateHonoured == Fresh => \A u \in Recipients : outFor[u] < TTL

\* Every administrator of that long who did not opt out is in the list,
\* whichever of its queries fail.
AdminsReached == Fresh => \A u \in Users : dueFor[u] = TTL => u \in Recipients

=============================================================================
