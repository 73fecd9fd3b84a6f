---------------------------- MODULE AlertDelivery ----------------------------
(***************************************************************************)
(* The delivery half of AlertService (src/app/services/alert_service.py):  *)
(* the bounded queue that enqueue fills, the one sender task that takes    *)
(* jobs from it, _send with its two attempts, reply threading, the         *)
(* alert_history rows and what a restart rebuilds from them.               *)
(*                                                                         *)
(* Telegram is the environment: it may accept a message, accept it without *)
(* the answer arriving, refuse it, or report that the message to reply to  *)
(* is gone.  The sender's stages are its awaits, plus "loop", the head of  *)
(* _dispatch's loop over the recipients.  The bot is attached before the   *)
(* service starts, so the branch for a missing bot is left out, and so are *)
(* the counters.  Which chat has no token left depends on the rate and the *)
(* clock: it is left open.  Whether an alert gets here at all while the    *)
(* monitor is paused is part of Ingest.                                    *)
(***************************************************************************)
EXTENDS Integers, Sequences, FiniteSets

CONSTANTS
  Chats,      \* chats a broadcast may go to
  Admins,     \* those whose recipient is an administrator
  Threads,    \* wallet and coin pairs: thread_key_for
  None,       \* no thread (book level), no reply, no chat
  QueueMax,   \* QUEUE_MAX
  MaxJobs,    \* bound: alerts enqueued in one behaviour
  MaxDeleted  \* bound: messages deleted by the readers of the chats

ASSUME DeliveryAssumption ==
  /\ Admins \subseteq Chats
  /\ QueueMax \in Nat \ {0}
  /\ MaxJobs \in Nat
  /\ MaxDeleted \in Nat
  /\ None \notin Chats \cup Threads \cup Nat

VARIABLES
  jobs,       \* alerts enqueued so far
  queue,      \* _queue: job number and thread key of each job
  stage,      \* where the sender stands
  job,        \* the job it carries
  todo,       \* recipients it has not reached yet
  chat,       \* the recipient it is sending to
  root,       \* _dispatch's reply_to: the thread root looked up for this send
  reply,      \* _send's reply_to, cleared when the root is gone
  results,    \* message id per recipient that acknowledged one
  threads,    \* _threads: root message per chat and thread
  log,        \* Telegram: the messages that arrived in each chat, in order
  deleted,    \* Telegram: messages their readers deleted
  history,    \* alert_history: rows of delivered alerts, oldest first
  blocked     \* users marked blocked

senderVars   == <<stage, job, todo, chat, root, reply, results>>
telegramVars == <<log, deleted>>
vars == <<jobs, queue, senderVars, threads, telegramVars,
          history, blocked>>

NoJob == [id |-> 0, thread |-> None]

-----------------------------------------------------------------------------
(* Reply threads.                                                          *)

\* _thread_root.  An entry that is too old is dropped when it is looked up,
\* which ThreadExpires already did.
ThreadRoot(c) == IF job.thread = None THEN None ELSE threads[c][job.thread]

\* _remember_thread: a message that replied keeps its root, one that did not
\* becomes the root.  replied is what _dispatch passed.
Remember(c, message, replied) ==
  IF job.thread = None THEN threads
  ELSE [threads EXCEPT ![c][job.thread] = IF replied = None THEN message ELSE replied]

\* _forget_thread.
Forget(c, message) ==
  [threads EXCEPT ![c] = [t \in Threads |-> IF @[t] = message THEN None ELSE @[t]]]

-----------------------------------------------------------------------------
Init ==
  /\ jobs = 0
  /\ queue = <<>>
  /\ stage = "idle" /\ job = NoJob /\ todo = {} /\ chat = None
  /\ root = None /\ reply = None /\ results = [c \in Chats |-> None]
  /\ threads = [c \in Chats |-> [t \in Threads |-> None]]
  /\ log = [c \in Chats |-> <<>>]
  /\ deleted = [c \in Chats |-> {}]
  /\ history = [c \in Chats |-> <<>>]
  /\ blocked = {}

\* enqueue.  With a full queue the alert is dropped and only a counter moves.
Enqueue(t) ==
  /\ jobs < MaxJobs
  /\ Len(queue) < QueueMax
  /\ jobs' = jobs + 1
  /\ queue' = Append(queue, [id |-> jobs + 1, thread |-> t])
  /\ UNCHANGED <<senderVars, threads, telegramVars, history, blocked>>

-----------------------------------------------------------------------------
(* The sender task.                                                        *)

\* _sender_loop takes a job and _dispatch waits for the recipients.
TakeJob ==
  /\ stage = "idle"
  /\ queue # <<>>
  /\ job' = Head(queue)
  /\ queue' = Tail(queue)
  /\ stage' = "resolve"
  /\ UNCHANGED <<jobs, todo, chat, root, reply, results, threads,
                 telegramVars, history, blocked>>

\* _resolve_recipients answers; with nobody to send to the job is dropped.
\* RecipientCache models who it returns: here any chats, except subscribers
\* marked blocked, whom no query returns and whose marking empties the cache.
Resolve ==
  /\ stage = "resolve"
  /\ todo' \in SUBSET (Chats \ blocked)
  /\ stage' = IF todo' = {} THEN "idle" ELSE "loop"
  /\ job' = IF todo' = {} THEN NoJob ELSE job
  /\ UNCHANGED <<jobs, queue, chat, root, reply, results, threads,
                 telegramVars, history, blocked>>

\* The next recipient's bucket is empty: recorded as throttled, never sent.
Throttle(c) ==
  /\ stage = "loop"
  /\ c \in todo
  /\ todo' = todo \ {c}
  /\ UNCHANGED <<jobs, queue, stage, job, chat, root, reply, results,
                 threads, telegramVars, history, blocked>>

\* It has a token: the recipient's thread root is looked up and the first
\* attempt of _send starts.
Begin(c) ==
  /\ stage = "loop"
  /\ c \in todo
  /\ todo' = todo \ {c}
  /\ chat' = c
  /\ root' = ThreadRoot(c)
  /\ reply' = ThreadRoot(c)
  /\ stage' = "attempt1"
  /\ UNCHANGED <<jobs, queue, job, results, threads, telegramVars, history,
                 blocked>>

Attempting == stage \in {"attempt1", "attempt2"}
ReplyIsGone == reply # None /\ reply \in deleted[chat]

\* The message as it arrives in the chat; its id is its position there.
Arrive(acked) ==
  log' = [log EXCEPT ![chat] =
            Append(@, [id |-> job.id, thread |-> job.thread, reply |-> reply, acked |-> acked])]

\* send_message returns the message; _dispatch remembers the thread and goes
\* on to its pause between chats.
Accept ==
  /\ Attempting
  /\ ~ReplyIsGone
  /\ Arrive(TRUE)
  /\ LET message == Len(log[chat]) + 1 IN
       /\ threads' = Remember(chat, message, root)
       /\ results' = [results EXCEPT ![chat] = message]
  /\ stage' = "gap"
  /\ UNCHANGED <<jobs, queue, job, todo, chat, root, reply, deleted,
                 history, blocked>>

\* Mutant of Trouble: after the second failure the job goes back to the end of
\* the queue.
TroubleRequeues ==
  /\ Attempting
  /\ \/ UNCHANGED log
     \/ ~ReplyIsGone /\ Arrive(FALSE)
  /\ stage' = IF stage = "attempt1" THEN "backoff" ELSE "gap"
  /\ queue' = IF stage = "attempt1" THEN queue ELSE Append(queue, job)
  /\ UNCHANGED <<jobs, job, todo, chat, root, reply, results, threads,
                 deleted, history, blocked>>

\* Mutant of Trouble: every failure is followed by another attempt.
TroubleInsists ==
  /\ Attempting
  /\ \/ UNCHANGED log
     \/ ~ReplyIsGone /\ Arrive(FALSE)
  /\ stage' = "backoff"
  /\ UNCHANGED <<jobs, queue, job, todo, chat, root, reply, results, threads,
                 deleted, history, blocked>>

\* Another TelegramError, or RetryAfter: sleep and try once more, then give up.
\* A timeout may hide a message that did arrive.
Trouble ==
  /\ Attempting
  /\ \/ UNCHANGED log
     \/ ~ReplyIsGone /\ Arrive(FALSE)
  /\ stage' = IF stage = "attempt1" THEN "backoff" ELSE "gap"
  /\ UNCHANGED <<jobs, queue, job, todo, chat, root, reply, results, threads,
                 deleted, history, blocked>>

Retry ==
  /\ stage = "backoff"
  /\ stage' = "attempt2"
  /\ UNCHANGED <<jobs, queue, job, todo, chat, root, reply, results, threads,
                 telegramVars, history, blocked>>

\* BadRequest because the message to reply to is gone: the thread is forgotten
\* and the loop goes round again without a reply, if it has a round left.
ReplyGone ==
  /\ Attempting
  /\ ReplyIsGone
  /\ threads' = Forget(chat, reply)
  /\ reply' = None
  /\ stage' = IF stage = "attempt1" THEN "attempt2" ELSE "gap"
  /\ UNCHANGED <<jobs, queue, job, todo, chat, root, results, telegramVars,
                 history, blocked>>

\* Any other BadRequest.
Reject ==
  /\ Attempting
  /\ stage' = "gap"
  /\ UNCHANGED <<jobs, queue, job, todo, chat, root, reply, results, threads,
                 telegramVars, history, blocked>>

\* Forbidden: the chat blocked the bot.  A subscriber is marked blocked, unless
\* that write fails.
Forbid ==
  /\ Attempting
  /\ blocked' \in {blocked} \cup (IF chat \in Admins THEN {} ELSE {blocked \cup {chat}})
  /\ stage' = "gap"
  /\ UNCHANGED <<jobs, queue, job, todo, chat, root, reply, results, threads,
                 telegramVars, history>>

\* The pause between two chats is over: the next recipient, or the record.
Advance ==
  /\ stage = "gap"
  /\ stage' = "loop"
  /\ chat' = None /\ root' = None /\ reply' = None
  /\ UNCHANGED <<jobs, queue, job, todo, results, threads, telegramVars,
                 history, blocked>>

\* _record: one history row per recipient; only the delivered ones matter
\* here.  Its failure is logged and the job is done either way.
Record ==
  /\ stage = "loop"
  /\ todo = {}
  /\ \/ history' = [c \in Chats |->
           IF results[c] = None THEN history[c]
           ELSE Append(history[c],
                       [thread |-> job.thread, message |-> results[c], id |-> job.id])]
     \/ UNCHANGED history
  /\ stage' = "idle"
  /\ job' = NoJob
  /\ results' = [c \in Chats |-> None]
  /\ UNCHANGED <<jobs, queue, todo, chat, root, reply, threads, telegramVars, blocked>>

\* Mutant of Abandon: what the job delivered so far is taken for the next one's.
AbandonKeepsResults ==
  /\ Attempting
  /\ stage' = "idle"
  /\ job' = NoJob
  /\ todo' = {} /\ chat' = None /\ root' = None /\ reply' = None
  /\ UNCHANGED <<jobs, queue, results, threads, telegramVars, history,
                 blocked>>

\* Mutant of Abandon: the exception ends the sender task.
AbandonStops ==
  /\ Attempting
  /\ stage' = "stopped"
  /\ UNCHANGED <<jobs, queue, job, todo, chat, root, reply, results, threads,
                 telegramVars, history, blocked>>

\* Anything else raised in _send: _sender_loop logs it and takes the next job;
\* what this one delivered goes unrecorded.
Abandon ==
  /\ Attempting
  /\ stage' = "idle"
  /\ job' = NoJob
  /\ todo' = {} /\ chat' = None /\ root' = None /\ reply' = None
  /\ results' = [c \in Chats |-> None]
  /\ UNCHANGED <<jobs, queue, threads, telegramVars, history, blocked>>

-----------------------------------------------------------------------------
(* The environment.                                                        *)

\* A subscriber unblocks the bot and sends /start.
ComeBack(c) ==
  /\ c \in blocked
  /\ blocked' = blocked \ {c}
  /\ UNCHANGED <<jobs, queue, senderVars, threads, telegramVars, history>>

\* A reader deletes a message.
Delete(c, message) ==
  /\ message \in DOMAIN log[c]
  /\ message \notin deleted[c]
  /\ Cardinality({p \in Chats \X (1..2 * MaxJobs) : p[2] \in deleted[p[1]]}) < MaxDeleted
  /\ deleted' = [deleted EXCEPT ![c] = @ \cup {message}]
  /\ UNCHANGED <<jobs, queue, senderVars, threads, log, history, blocked>>

\* An entry has not been used for THREAD_TTL, or THREAD_MAX newer ones pushed
\* it out.
ThreadExpires(c, t) ==
  /\ threads[c][t] # None
  /\ threads' = [threads EXCEPT ![c][t] = None]
  /\ UNCHANGED <<jobs, queue, senderVars, telegramVars, history, blocked>>

\* Mutant of Warmed: rows are keyed by the chat alone.
WarmedByChat(c, t, cut) ==
  LET rows == {i \in DOMAIN history[c] : i > cut}
  IN  IF rows = {} THEN None
      ELSE history[c][CHOOSE i \in rows : \A j \in rows : i <= j].message

\* _warm_threads: rows arrive oldest first and the first one of a thread is
\* its root.  Rows before cut are older than THREAD_TTL; a thread the query's
\* LIMIT or THREAD_MAX leaves out is one ThreadExpires takes right after.
Warmed(c, t, cut) ==
  LET rows == {i \in DOMAIN history[c] : i > cut /\ history[c][i].thread = t}
  IN  IF rows = {} THEN None
      ELSE history[c][CHOOSE i \in rows : \A j \in rows : i <= j].message

\* The process is killed or redeployed: the queue and the job in hand are lost.
Restart ==
  /\ queue' = <<>>
  /\ stage' = "idle" /\ job' = NoJob /\ todo' = {} /\ chat' = None
  /\ root' = None /\ reply' = None /\ results' = [c \in Chats |-> None]
  /\ \E cut \in 0..MaxJobs :
       threads' = [c \in Chats |-> [t \in Threads |-> Warmed(c, t, cut)]]
  /\ UNCHANGED <<jobs, telegramVars, history, blocked>>

-----------------------------------------------------------------------------
Answer == Accept \/ Trouble \/ ReplyGone \/ Reject \/ Forbid \/ Abandon
Loop   == Record \/ \E c \in Chats : Throttle(c) \/ Begin(c)
Sender == TakeJob \/ Resolve \/ Loop \/ Answer \/ Retry \/ Advance

Environment ==
  \/ \E c \in Chats :
       \/ ComeBack(c)
       \/ \E message \in 1..2 * MaxJobs : Delete(c, message)
       \/ \E t \in Threads : ThreadExpires(c, t)
  \/ Restart

Next == Sender \/ Environment \/ \E t \in Threads \cup {None} : Enqueue(t)

Spec == Init /\ [][Next]_vars

\* The sender task is scheduled and Telegram and the database answer or time
\* out (the HTTP client and the pool have timeouts).
FairSpec == Spec /\ WF_vars(Sender)

-----------------------------------------------------------------------------
(* Properties.                                                             *)

\* A chat sees the alerts in the order they were detected, through retries,
\* throttling and restarts, and each once: twice in a row only if Telegram took
\* the first copy without the answer arriving, and never three times.
InOrder ==
  \A c \in Chats : \A i, j \in DOMAIN log[c] : i < j =>
    \/ log[c][i].id < log[c][j].id
    \/ log[c][i].id = log[c][j].id /\ j = i + 1 /\ ~log[c][i].acked

\* An alert never replies into the conversation of another wallet or coin,
\* also after the threads were rebuilt from alert_history.
RepliesStayInThread ==
  \A c \in Chats : \A i \in DOMAIN log[c] :
    log[c][i].reply # None =>
      /\ log[c][i].reply < i
      /\ log[c][log[c][i].reply].thread = log[c][i].thread

\* alert_history, which warms the dedup cache and the threads after a restart,
\* names only messages that Telegram acknowledged for that very alert.
HistoryIsTrue ==
  \A c \in Chats : \A i \in DOMAIN history[c] :
    LET row == history[c][i]
    IN  /\ row.message \in DOMAIN log[c]
        /\ log[c][row.message].acked
        /\ log[c][row.message].id = row.id

\* The delivery implements TellOnce: no chat is told of an alert after another
\* chat was told of a later one, and none is told of one again except after a
\* message that arrived without the answer.
Promise == INSTANCE TellOnce WITH detected <- jobs, told <- log
TellsOnce == Promise!Spec

\* Whatever Telegram answers, the sender gets to the end of the queue: every
\* job that waits is taken, or lost in a restart.
JobLeaves ==
  \A n \in 1..MaxJobs :
    (\E i \in DOMAIN queue : queue[i].id = n) ~>
      ~(job.id = n \/ \E i \in DOMAIN queue : queue[i].id = n)

=============================================================================
