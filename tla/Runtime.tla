------------------------------ MODULE Runtime ------------------------------
(***************************************************************************)
(* The process: Runtime.start and stop (src/app/main.py) over the parts of *)
(* AppContainer, with a Telegram handler and the tasks of the engine       *)
(* running beside them.  A part that is up may act at any time; a database *)
(* session opens the pool again when it finds it closed.                   *)
(*                                                                         *)
(*   pool     the connection pool          state   roles and settings read *)
(*   http     the HTTP server              bot     Telegram initialised    *)
(*   sender   the alert sender             handlers, polling     updates   *)
(*   rest     the exchange client          running    WhaleEngine._running *)
(*   tasks    the engine's tasks           ingest       ingest_started     *)
(*   market   the market socket            focus     sockets of wallets    *)
(***************************************************************************)
EXTENDS Integers, Sequences, SequencesExt

CONSTANTS
  Attempts,    \* DB_WAIT_ATTEMPTS
  MaxUpdates   \* bound: updates waiting for their handler

ASSUME RuntimeAssumption == Attempts \in Nat \ {0} /\ MaxUpdates \in Nat

VARIABLES
  phase,    \* of run(): starting, serving, stopping, failing (start raised), ended
  todo,     \* the steps of start or stop that are left
  tries,    \* attempts of wait_until_ready so far
  up,       \* the parts that are up
  kept,     \* parts whose closing raised
  asked,    \* stop_signal
  updates,  \* updates fetched and not handled yet
  update,   \* the handler in progress
  exit      \* exit status of the process

run == <<phase, todo, tries, kept, exit>>
runtimeVars == <<run, up, asked, updates, update>>

\* Mutant of StartOrder: the server is up while the state is being read.
StartOrderHttpFirst ==
  <<"connect", "wait", "http", "migrate", "restore", "initialize", "menus",
    "sender", "dispatch", "poll", "rest", "engine", "spawn">>

\* Runtime.start and container.start_ingest, in order.
StartOrder ==
  <<"connect", "wait", "migrate", "restore", "http", "initialize", "menus",
    "sender", "dispatch", "poll", "rest", "engine", "spawn">>

\* Runtime.stop and container.stop_ingest, in order.
StopOrder ==
  <<"tasks", "sockets", "rest", "poll", "sender", "dispatch", "bot", "http",
    "disconnect">>

IngestSteps == {"rest", "engine", "spawn"}

\* What a step of start brings up.
Brings(step) ==
  CASE step = "connect" -> {"pool"}
    [] step = "restore" -> {"pool", "state"}
    [] step = "http" -> {"http"}
    [] step = "initialize" -> {"bot"}
    [] step = "sender" -> {"sender"}
    [] step = "dispatch" -> {"handlers"}
    [] step = "poll" -> {"polling"}
    [] step = "rest" -> {"rest"}
    [] step = "engine" -> {"running"}
    [] step = "spawn" -> {"market", "tasks", "ingest"}
    [] OTHER -> {}

\* What a step of stop takes down.
Takes(step) ==
  CASE step = "tasks" -> {"running", "tasks"}
    [] step = "sockets" -> {"market", "focus"}
    [] step = "rest" -> {"rest", "ingest"}
    [] step = "poll" -> {"polling"}
    [] step = "sender" -> {"sender"}
    [] step = "dispatch" -> {"handlers"}
    [] step = "bot" -> {"bot"}
    [] step = "http" -> {"http"}
    [] step = "disconnect" -> {"pool"}

RuntimeInit ==
  /\ phase = "starting" /\ todo = StartOrder /\ tries = 0
  /\ up = {} /\ kept = {}
  /\ asked = FALSE
  /\ updates = 0 /\ update = "none"
  /\ exit = "none"

-----------------------------------------------------------------------------
(* Runtime.start.                                                          *)

Starting(step) == phase = "starting" /\ todo # <<>> /\ Head(todo) = step

\* A step succeeds.
Bring(step) ==
  /\ Starting(step)
  /\ todo' = Tail(todo)
  /\ up' = up \cup Brings(step)
  /\ UNCHANGED <<phase, tries, kept, exit, asked, updates, update>>

\* wait_until_ready: the database does not answer yet.
Retry ==
  /\ Starting("wait") /\ tries < Attempts
  /\ tries' = tries + 1
  /\ UNCHANGED <<phase, todo, kept, exit, up, asked, updates, update>>

\* Mutant of Fail: a failed start just returns 1.
FailReturns(step) ==
  /\ Starting(step)
  /\ step = "wait" => tries = Attempts
  /\ step \notin IngestSteps \cup {"http", "sender"}
  /\ phase' = "ended" /\ exit' = "1"
  /\ UNCHANGED <<todo, tries, kept, up, asked, updates, update>>

\* A step raises; what start had brought up is then stopped.
Fail(step) ==
  /\ Starting(step)
  /\ step = "wait" => tries = Attempts
  /\ step \notin IngestSteps \cup {"http", "sender"}
  /\ phase' = "failing" /\ todo' = StopOrder
  /\ UNCHANGED <<tries, kept, exit, up, asked, updates, update>>

\* The server cannot bind: its task raises SystemExit, which is no Exception.
CannotBind ==
  /\ Starting("http")
  /\ phase' = "ended" /\ exit' = "killed" /\ up' = {}
  /\ UNCHANGED <<todo, tries, kept, asked, updates, update>>

\* The exchange cannot be brought up: logged, and the process serves without.
Degrade(step) ==
  /\ Starting(step) /\ step \in {"rest", "spawn"}
  /\ todo' = <<>>
  /\ UNCHANGED <<phase, tries, kept, exit, up, asked, updates, update>>

Serve ==
  /\ phase = "starting" /\ todo = <<>>
  /\ phase' = "serving"
  /\ UNCHANGED <<todo, tries, kept, exit, up, asked, updates, update>>

StartRuntime ==
  \/ \E step \in ToSet(StartOrder) : Bring(step) \/ Fail(step) \/ Degrade(step)
  \/ Retry \/ CannotBind \/ Serve

-----------------------------------------------------------------------------
(* Signals and Runtime.stop.                                               *)

\* SIGTERM or SIGINT, at any time.
Signal ==
  /\ phase # "ended" /\ ~asked
  /\ asked' = TRUE
  /\ UNCHANGED <<run, up, updates, update>>

\* The server takes the signal too, and leaves on its own.
ServerLeaves ==
  /\ asked /\ "http" \in up /\ phase # "ended"
  /\ up' = up \ {"http"}
  /\ UNCHANGED <<run, asked, updates, update>>

Stopping == phase \in {"stopping", "failing"}

BeginStop ==
  /\ phase = "serving" /\ asked
  /\ phase' = "stopping" /\ todo' = StopOrder
  /\ UNCHANGED <<tries, kept, exit, up, asked, updates, update>>

\* stop_ingest does nothing for an exchange that never came up.
Skipped(step) == step \in {"tasks", "sockets", "rest"} /\ "ingest" \notin up

\* A step of stop: telegram.stop waits for the updates already fetched, and a
\* client whose closing raises is left as it is.
Take(step) ==
  /\ Stopping /\ todo # <<>> /\ Head(todo) = step
  /\ step = "dispatch" => updates = 0 /\ update = "none"
  /\ todo' = Tail(todo)
  /\ \/ Skipped(step) /\ UNCHANGED <<up, kept>>
     \/ ~Skipped(step) /\ up' = up \ Takes(step) /\ UNCHANGED kept
     \/ /\ ~Skipped(step) /\ step \in {"rest", "bot", "disconnect"}
        /\ kept' = kept \cup (Takes(step) \cap up)
        /\ UNCHANGED up
  /\ UNCHANGED <<phase, tries, exit, asked, updates, update>>

Exit ==
  /\ Stopping /\ todo = <<>>
  /\ phase' = "ended"
  /\ exit' = IF phase = "failing" THEN "1" ELSE "0"
  /\ UNCHANGED <<todo, tries, kept, up, asked, updates, update>>

StopRuntime == BeginStop \/ Exit \/ \E step \in ToSet(StopOrder) : Take(step)

-----------------------------------------------------------------------------
(* What runs beside them.                                                  *)

\* The updater fetches an update.
Fetch ==
  /\ "polling" \in up /\ phase # "ended"
  /\ updates < MaxUpdates
  /\ updates' = updates + 1
  /\ UNCHANGED <<run, up, asked, update>>

\* A handler opens a session to store what it was told.
Handle ==
  /\ "handlers" \in up /\ phase # "ended"
  /\ updates > 0 /\ update = "none"
  /\ updates' = updates - 1 /\ update' = "saving"
  /\ up' = up \cup {"pool"}
  /\ UNCHANGED <<run, asked>>

\* _on_config_change: a pause lifted is applied at once while the engine runs.
Saved ==
  /\ update = "saving" /\ phase # "ended"
  /\ \/ update' = "none"
     \/ "running" \in up /\ update' = "applying"
  /\ UNCHANGED <<run, up, asked, updates>>

\* _apply_focus_slate, by the handler or by the focus loop.
OpenFocus ==
  /\ \/ update = "applying" /\ update' = "none"
     \/ "tasks" \in up /\ UNCHANGED update
  /\ phase # "ended"
  /\ up' = up \cup {"focus"}
  /\ UNCHANGED <<run, asked, updates>>

Handlers == Handle \/ Saved \/ OpenFocus

RuntimeNext == StartRuntime \/ Signal \/ ServerLeaves \/ StopRuntime \/ Fetch \/ Handlers

\* Every awaited call of start, of stop and of a handler ends: the clients
\* have timeouts and stop gives the server ten seconds.
RuntimeSpec ==
  /\ RuntimeInit
  /\ [][RuntimeNext]_runtimeVars
  /\ WF_runtimeVars(StartRuntime) /\ WF_runtimeVars(StopRuntime) /\ WF_runtimeVars(Handlers)

-----------------------------------------------------------------------------
(* Properties.                                                             *)

\* What a part needs while it is up.
Needs(part) ==
  CASE part = "http" -> {"pool", "state"}
    [] part = "sender" -> {"pool", "state", "bot"}
    [] part = "handlers" -> {"pool", "state", "bot"}
    [] part = "polling" -> {"bot", "handlers"}
    [] part = "tasks" -> {"pool", "state", "rest", "market", "sender"}
    [] OTHER -> {}

\* A part runs only while everything it uses is up: no request is answered and
\* no update handled from roles and settings that were not read yet, no event is
\* detected while nobody sends alerts, and no part outlives the pool, the bot or
\* the client it works with, wherever start failed and whenever stop began.
NeedsAreUp == \A part \in up : Needs(part) \subseteq up

\* The parts that act by themselves, and the pool.
Acting == {"http", "sender", "handlers", "polling", "tasks", "market", "pool"}

\* A signal, even one that comes while the process is still starting, and a
\* start that fails at any step, end the process with every acting part stopped
\* and the pool closed (unless closing it raised): nothing opened it again.
StopsClean ==
  (asked \/ Stopping) ~>
    (exit # "none" /\ (exit # "killed" => up \cap Acting \subseteq kept))
=============================================================================
