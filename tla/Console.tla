------------------------------ MODULE Console ------------------------------
(***************************************************************************)
(* The administrative console: the commands, buttons and prompts by which  *)
(* administrators change the bot's configuration, and the two services     *)
(* that keep it, SettingsService and AdminService.                         *)
(*                                                                         *)
(* Every part of the configuration exists twice, in a table and in memory. *)
(* A request is accepted on what memory says (permissions.requires,        *)
(* on_callback, on_text); then its writes happen one after another: each   *)
(* commits to the tables together with its audit row, and later brings the *)
(* part it wrote back into memory.  The process may stop anywhere, and the *)
(* database may refuse a statement or lose the answer of a commit.         *)
(*                                                                         *)
(* Updates are processed one at a time, so one handler is at work; views   *)
(* and refusals change nothing here and have no action.  Who is alerted is *)
(* RecipientCache's, what the engine does with the settings FeedControl's. *)
(***************************************************************************)
EXTENDS Integers, Sequences, FiniteSets

CONSTANTS
  Users,         \* Telegram users
  Main,          \* MAIN_ADMIN_ID
  Coins, Wallets,
  Envs,          \* environments a deployment may have
  NotSet,        \* a row or a prompt that does not exist
  Amounts,       \* dollar amounts an administrator may send; 0 is "off"
  Seconds,       \* cooldowns one may send
  MinThreshold, MaxThreshold, MaxCooldown,
  DbFails,       \* whether the database may fail
  MaxRequests    \* bound: requests that are accepted

\* enable_order_alerts stands for the switches of _ALERT_TOGGLES, which are
\* written alike.
Keys == {"monitoring_enabled", "paused", "public_mode", "min_whale_value",
         "min_margin_value", "alert_cooldown_seconds", "all_coins",
         "enable_order_alerts"}

Parts == Keys \cup {"coins", "wallets", "admins"}

Amount == {0} \cup MinThreshold .. MaxThreshold

\* What a key, or a table, may hold.
Domain(p) ==
  CASE p = "min_whale_value"        -> Amount \ {0}
    [] p = "min_margin_value"       -> Amount
    [] p = "alert_cooldown_seconds" -> 0 .. MaxCooldown
    [] p = "coins"                  -> SUBSET Coins
    [] p = "wallets"                -> SUBSET Wallets
    [] p = "admins"                 -> SUBSET (Users \ {Main})
    [] OTHER                        -> BOOLEAN

ASSUME ConsoleAssumption ==
  /\ Main \in Users
  /\ MinThreshold \in Nat \ {0} /\ MaxThreshold \in Nat
  /\ MinThreshold <= MaxThreshold
  /\ MaxCooldown \in Nat /\ MaxRequests \in Nat
  /\ Amounts \subseteq Nat /\ Seconds \subseteq Int
  /\ DbFails \in BOOLEAN
  /\ \A e \in Envs : \A p \in Keys \cup {"coins"} : e[p] \in Domain(p)
  /\ \A p \in Keys : NotSet \notin Domain(p)

VARIABLES
  env,       \* the environment of the running process
  db,        \* the tables: a value per key, and three sets
  mem,       \* RuntimeConfig, and _roles without the main administrator
  pending,   \* user_data: what a user was asked for
  handler,   \* who is served, the writes still to do, where the first stands
  lost,      \* parts whose last write ended in an error
  requests   \* requests accepted so far

vars == <<env, db, mem, pending, handler, lost, requests>>

Idle == [user |-> Main, todo |-> <<>>, at |-> "commit"]

NobodyAsked == [u \in Users |-> NotSet]

\* Mutant of Loaded: an empty list of coins is filled whenever it is found.
LoadedSeedsEmpty(e, d) ==
  [p \in Parts |->
     CASE p \in Keys /\ d[p] = NotSet  -> e[p]
       [] p = "coins" /\ d.coins = {}  -> e.coins
       [] OTHER                        -> d[p]]

\* The tables after SettingsService.load: only missing keys are written, and
\* coins only in a database that had no settings at all.  _build takes memory
\* from what is stored then, and AdminService.load the roles.
Loaded(e, d) ==
  [p \in Parts |->
     CASE p \in Keys /\ d[p] = NotSet -> e[p]
       [] p = "coins" /\ d.coins = {} /\ \A k \in Keys : d[k] = NotSet -> e.coins
       [] OTHER -> d[p]]

\* A new database; or one of a version without margins, that has
\* co-administrators and monitors no coin.
NewTables == [p \in Parts |-> IF p \in Keys THEN NotSet ELSE {}]

OldTables(e, co) ==
  [p \in Parts |-> CASE p = "admins"                       -> co
                     [] p \in Keys \ {"min_margin_value"} -> e[p]
                     [] OTHER                               -> NewTables[p]]

Found ==
  {NewTables} \cup
  {OldTables(e, co) : e \in Envs, co \in SUBSET (Users \ {Main}) \ {{}}}

Init ==
  /\ env \in Envs
  /\ \E d \in Found : db = Loaded(env, d)
  /\ mem = db
  /\ pending = NobodyAsked
  /\ handler = Idle
  /\ lost = {}
  /\ requests = 0

-----------------------------------------------------------------------------
(* Who may do what.                                                        *)

MainOnly == {"MANAGE_ADMINS", "RESET_SETTINGS"}

\* AdminService.can, for the capabilities that change something: public mode
\* gives a user none of them.
Can(u, capability) ==
  \/ u = Main
  \/ u \in mem.admins /\ capability \notin MainOnly

\* A request is served: the bot waits for one, the caller may, and the bot is
\* not paused unless the handler works then too.
Accepted(u, capability, whenPaused) ==
  /\ handler = Idle
  /\ requests < MaxRequests
  /\ Can(u, capability)
  /\ mem.paused => whenPaused

Begin(u, todo) ==
  /\ handler' = [user |-> u, todo |-> todo, at |-> "commit"]
  /\ requests' = requests + 1
  /\ UNCHANGED <<env, db, mem, lost>>

-----------------------------------------------------------------------------
(* What the commands, the buttons and the answers to prompts ask for: the  *)
(* writes, in order.                                                       *)

Put(part, value)    == [on |-> part, do |-> "put", with |-> value]
AddTo(part, x)      == [on |-> part, do |-> "add", with |-> x]
RemoveFrom(part, x) == [on |-> part, do |-> "remove", with |-> x]
\* all_coins is switched off, if it is on when its turn comes.
SelectedCoins       == [on |-> "all_coins", do |-> "off", with |-> FALSE]
ResetAll            == [on |-> "coins", do |-> "reset", with |-> {}]

Clamped(x, low, high) == IF x < low THEN low ELSE IF x > high THEN high ELSE x

SetThreshold(u) ==
  \E a \in Amounts \ {0} :
    Begin(u, <<Put("min_whale_value", Clamped(a, MinThreshold, MaxThreshold))>>)

SetMargin(u) ==
  \E a \in Amounts :
    Begin(u, <<Put("min_margin_value",
                   IF a = 0 THEN 0 ELSE Clamped(a, MinThreshold, MaxThreshold))>>)

SetCooldown(u) ==
  \E s \in Seconds :
    Begin(u, <<Put("alert_cooldown_seconds", Clamped(s, 0, MaxCooldown))>>)

\* One coin or two; parse_coins drops what is said twice.
CoinLists == {<<c>> : c \in Coins} \cup {l \in Coins \X Coins : l[1] # l[2]}

AddCoins(u, then) ==
  \E list \in CoinLists :
    Begin(u, [i \in DOMAIN list |-> AddTo("coins", list[i])] \o then)

RemoveCoins(u) ==
  \E list \in CoinLists :
    Begin(u, [i \in DOMAIN list |-> RemoveFrom("coins", list[i])])

\* /setcoins; the list is a replacement and ends ALL COINS.
SetCoins(u) ==
  \E set \in SUBSET Coins \ {{}} : Begin(u, <<Put("coins", set), SelectedCoins>>)

\* A coin's button removes it when memory has it, or else adds it.
ToggleCoin(u) ==
  \E c \in Coins :
    Begin(u, <<IF c \in mem.coins THEN RemoveFrom("coins", c) ELSE AddTo("coins", c)>>)

AddAdmin(u) ==
  \E t \in Users \ ({Main} \cup mem.admins) : Begin(u, <<AddTo("admins", t)>>)

RemoveAdmin(u) ==
  \E t \in mem.admins : Begin(u, <<RemoveFrom("admins", t)>>)

AddWallet(u) == \E w \in Wallets : Begin(u, <<AddTo("wallets", w)>>)

RemoveWallet(u) == \E w \in Wallets : Begin(u, <<RemoveFrom("wallets", w)>>)

-----------------------------------------------------------------------------
(* The requests.                                                           *)

MonitoringRequest(u) ==
  /\ Accepted(u, "CONTROL_MONITORING", FALSE)
  /\ \E on \in BOOLEAN : Begin(u, <<Put("monitoring_enabled", on)>>)
  /\ UNCHANGED pending

\* /pause, /go and the resume button are served while paused, the pause button
\* is not; neither button writes what is so already.
PauseRequest(u) ==
  /\ \E on \in BOOLEAN :
       /\ Accepted(u, "CONTROL_MONITORING", TRUE)
       /\ Begin(u, <<Put("paused", on)>>)
  /\ UNCHANGED pending

ThresholdRequest(u) ==
  /\ Accepted(u, "CHANGE_THRESHOLD", FALSE)
  /\ SetThreshold(u) \/ SetMargin(u)
  /\ UNCHANGED pending

CoinRequest(u) ==
  /\ Accepted(u, "CHANGE_COINS", FALSE)
  /\ \/ AddCoins(u, <<>>) \/ RemoveCoins(u)
     \/ SetCoins(u) \/ ToggleCoin(u)
     \/ mem.coins # {} /\ Begin(u, <<Put("coins", {})>>)
     \/ \E on \in BOOLEAN : Begin(u, <<Put("all_coins", on)>>)
  /\ UNCHANGED pending

WalletRequest(u) ==
  /\ Accepted(u, "MANAGE_WALLETS", FALSE)
  /\ AddWallet(u) \/ RemoveWallet(u)
  /\ UNCHANGED pending

AdminRequest(u) ==
  /\ Accepted(u, "MANAGE_ADMINS", FALSE)
  /\ AddAdmin(u) \/ RemoveAdmin(u)
  /\ UNCHANGED pending

PublicRequest(u) ==
  /\ Accepted(u, "CHANGE_PUBLIC_MODE", FALSE)
  /\ \E on \in BOOLEAN : Begin(u, <<Put("public_mode", on)>>)
  /\ UNCHANGED pending

\* The switch of the alert settings is computed from memory.
SettingsRequest(u) ==
  /\ Accepted(u, "CHANGE_SETTINGS", FALSE)
  /\ \/ Begin(u, <<Put("enable_order_alerts", ~mem.enable_order_alerts)>>)
     \/ SetCooldown(u)
  /\ UNCHANGED pending

\* The confirmation button of /resetsettings.
ResetRequest(u) ==
  /\ Accepted(u, "RESET_SETTINGS", FALSE)
  /\ Begin(u, <<ResetAll>>)
  /\ UNCHANGED pending

\* _REQUIRED, which is also what the panels that open the prompts require.
Needs ==
  [threshold |-> "CHANGE_THRESHOLD", margin |-> "CHANGE_THRESHOLD",
   cooldown |-> "CHANGE_SETTINGS", coins |-> "CHANGE_COINS",
   admin_add |-> "MANAGE_ADMINS", admin_remove |-> "MANAGE_ADMINS",
   wallet |-> "MANAGE_WALLETS"]

\* A button or a command without arguments leaves a question.
Ask(u, kind) ==
  /\ Accepted(u, Needs[kind], FALSE)
  /\ pending' = [pending EXCEPT ![u] = kind]
  /\ requests' = requests + 1
  /\ UNCHANGED <<env, db, mem, handler, lost>>

\* The question is dropped: cancelled, answered with nonsense, or by someone
\* who lost the right, or while the bot is paused.
DropPrompt(u) ==
  /\ handler = Idle
  /\ pending[u] # NotSet
  /\ pending' = [pending EXCEPT ![u] = NotSet]
  /\ UNCHANGED <<env, db, mem, handler, lost, requests>>

\* The writes of an answer of each kind.
Answered(u, kind) ==
  \/ kind = "threshold"    /\ SetThreshold(u)
  \/ kind = "margin"       /\ SetMargin(u)
  \/ kind = "cooldown"     /\ SetCooldown(u)
  \/ kind = "coins"        /\ AddCoins(u, <<SelectedCoins>>)
  \/ kind = "admin_add"    /\ AddAdmin(u)
  \/ kind = "admin_remove" /\ RemoveAdmin(u)
  \/ kind = "wallet"       /\ AddWallet(u)

\* Mutant of Answer: the right was checked when the question was asked.
AnswerUnchecked(u) ==
  /\ handler = Idle /\ requests < MaxRequests
  /\ ~mem.paused
  /\ pending[u] # NotSet
  /\ Answered(u, pending[u])
  /\ pending' = [pending EXCEPT ![u] = NotSet]

\* Mutant of Answer: a pause does not reach the questions already asked.
AnswerWhenPaused(u) ==
  /\ pending[u] # NotSet
  /\ Accepted(u, Needs[pending[u]], TRUE)
  /\ Answered(u, pending[u])
  /\ pending' = [pending EXCEPT ![u] = NotSet]

\* The answer comes; the question is forgotten before anything is written.
Answer(u) ==
  /\ pending[u] # NotSet
  /\ Accepted(u, Needs[pending[u]], FALSE)
  /\ Answered(u, pending[u])
  /\ pending' = [pending EXCEPT ![u] = NotSet]

-----------------------------------------------------------------------------
(* The writes.                                                             *)

Write == Head(handler.todo)
Writing == handler.todo # <<>>

\* The parts of the tables a write may change.
Touched(w) == IF w.do = "reset" THEN Keys \cup {"coins"} ELSE {w.on}

\* The tables after a write: SettingsRepository.set, CoinRepository.replace and
\* reset_to_defaults put values, the rest add or remove one row.
Written(w) ==
  CASE w.do = "reset" -> [p \in Parts |-> IF p \in Touched(w) THEN env[p] ELSE db[p]]
    [] w.do = "add"    -> [db EXCEPT ![w.on] = @ \cup {w.with}]
    [] w.do = "remove" -> [db EXCEPT ![w.on] = @ \ {w.with}]
    [] OTHER           -> [db EXCEPT ![w.on] = w.with]

\* Nothing to do: ALL COINS is off, or the coin is there, or gone, already.
\* Then nothing is brought back into memory either.
Void(w) ==
  \/ w.do = "off" /\ ~mem.all_coins
  \/ w.on = "coins" /\ w.do = "add" /\ w.with \in db.coins
  \/ w.on = "coins" /\ w.do = "remove" /\ w.with \notin db.coins

\* The next write of the list, or the end of the handler.
Proceed ==
  handler' = IF Len(handler.todo) = 1 THEN Idle
             ELSE [handler EXCEPT !.todo = Tail(@), !.at = "commit"]

\* The row is written and its audit row with it.
Commit ==
  /\ Writing /\ handler.at = "commit"
  /\ \/ /\ ~Void(Write)
        /\ db' = Written(Write)
        /\ handler' = [handler EXCEPT !.at = "refresh"]
     \/ /\ Void(Write)
        /\ Proceed
        /\ UNCHANGED db
  /\ UNCHANGED <<env, mem, pending, lost, requests>>

\* The session fails: rolled back, or committed with the answer lost.  The
\* error ends the handler.
CommitFails ==
  /\ DbFails
  /\ Writing /\ handler.at = "commit" /\ ~Void(Write)
  /\ \/ UNCHANGED <<db, lost>>
     \/ db' = Written(Write) /\ lost' = lost \cup Touched(Write)
  /\ handler' = Idle
  /\ UNCHANGED <<env, mem, pending, requests>>

\* What is brought back: a setting as it was given, coins and roles by a query
\* of their own, wallets and a reset as the session read them.
Brought(w) == IF w.do = "reset" THEN Touched(w) \cup {"wallets"} ELSE {w.on}

\* Mutant of Refresh: a reset leaves the coins in memory as they were.
RefreshKeepsCoins ==
  /\ Writing /\ handler.at = "refresh"
  /\ mem' = [p \in Parts |->
               IF p \in Brought(Write) /\ ~(Write.do = "reset" /\ p = "coins")
               THEN db[p] ELSE mem[p]]
  /\ lost' = lost \ Brought(Write)
  /\ Proceed
  /\ UNCHANGED <<env, db, pending, requests>>

Refresh ==
  /\ Writing /\ handler.at = "refresh"
  /\ mem' = [p \in Parts |-> IF p \in Brought(Write) THEN db[p] ELSE mem[p]]
  /\ lost' = lost \ Brought(Write)
  /\ Proceed
  /\ UNCHANGED <<env, db, pending, requests>>

\* The query of _refresh_coins or AdminService.refresh fails, after the commit.
RefreshFails ==
  /\ DbFails
  /\ Writing /\ handler.at = "refresh"
  /\ Write.do # "reset" /\ Write.on \in {"coins", "admins"}
  /\ lost' = lost \cup {Write.on}
  /\ handler' = Idle
  /\ UNCHANGED <<env, db, mem, pending, requests>>

-----------------------------------------------------------------------------
\* The process stops and starts again, perhaps deployed with another
\* environment; the handlers run only when both services have loaded.
Restart ==
  /\ env' \in Envs
  /\ db' = Loaded(env', db)
  /\ mem' = db'
  /\ pending' = NobodyAsked
  /\ handler' = Idle
  /\ lost' = {}
  /\ UNCHANGED requests

Request(u) ==
  \/ MonitoringRequest(u) \/ PauseRequest(u) \/ ThresholdRequest(u)
  \/ CoinRequest(u) \/ WalletRequest(u) \/ AdminRequest(u)
  \/ PublicRequest(u) \/ SettingsRequest(u) \/ ResetRequest(u)

Prompt(u) ==
  \/ \E kind \in DOMAIN Needs : Ask(u, kind)
  \/ DropPrompt(u)
  \/ Answer(u)

Next ==
  \/ \E u \in Users : Request(u) \/ Prompt(u)
  \/ Commit \/ CommitFails \/ Refresh \/ RefreshFails
  \/ Restart

Spec == Init /\ [][Next]_vars

-----------------------------------------------------------------------------
\* The parts nothing is known against: no write of them is on its way into
\* memory and none ended in an error since memory was last read.
Settled ==
  Parts \ (lost \cup IF Writing /\ handler.at = "refresh" THEN Touched(Write) ELSE {})

\* service.config and the roles are what the tables hold, whatever sequence of
\* commands, buttons, prompts, errors and restarts came before, except for the
\* parts whose own last write failed.
MemoryIsDatabase == \A p \in Settled : mem[p] = db[p]

\* Everything an administrator set survives a restart, under any environment:
\* load neither overwrites a stored value nor fills a list that was emptied.
RestartRestores ==
  [][pending' = NobodyAsked /\ Restart =>
       \A p \in Settled : mem'[p] = mem[p]]_vars

\* The tables change only by one who is an administrator in the tables at that
\* moment, and roles and resets only by the main administrator: a prompt or a
\* button from before a demotion gives nothing.  (An error while the roles were
\* refreshed leaves the old ones in force.)
NoStaleAuthority ==
  [][db' # db =>
       \/ handler.user = Main
       \/ /\ handler.user \in db.admins \/ "admins" \in lost
          /\ db'.admins = db.admins
          /\ Write.do # "reset"]_vars

\* While the bot is paused nothing but the pause itself is written, also by an
\* answer to a question asked before the pause.
PausedIsFrozen ==
  [][mem.paused => \A p \in Parts \ {"paused"} : db'[p] = db[p]]_vars

=============================================================================
