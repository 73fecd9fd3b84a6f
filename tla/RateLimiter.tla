---------------------------- MODULE RateLimiter ----------------------------
(***************************************************************************)
(* The REST budget: WeightedRateLimiter (src/app/utils/ratelimit.py) under *)
(* its callers, the requests of HyperliquidREST.post_info.                 *)
(*                                                                         *)
(* A call that may wait (acquire) queues for an asyncio lock, which wakes  *)
(* its waiters in order, and keeps it while it sleeps until enough of the  *)
(* window has passed; its deadline was set before it queued.  A call that  *)
(* may not wait (try_acquire) takes no lock: it looks at the same books    *)
(* between any two steps of a waiter.  An admitted request is then sent up *)
(* to MaxRetries times.                                                    *)
(*                                                                         *)
(* Time is a tick; times are kept as ages, so nothing grows.  A task that  *)
(* is due runs before the clock moves on.                                  *)
(***************************************************************************)
EXTENDS Integers, Sequences, FiniteSets, SequencesExt

CONSTANTS
  Callers,     \* tasks that call post_info, one request each at a time
  Polls,       \* <<caller, weight>> of the requests that are dropped over budget
  Waits,       \* <<caller, weight>> of the requests that wait for the budget
  Budget,      \* rest_weight_budget
  Window,      \* the minute, in ticks
  Timeout,     \* budget_timeout, in ticks
  MaxRetries

ASSUME LimiterAssumption ==
  /\ Polls \subseteq Callers \X (Nat \ {0}) /\ Waits \subseteq Callers \X (Nat \ {0})
  /\ Budget \in Nat \ {0} /\ Window \in Nat \ {0}
  /\ Timeout \in Nat /\ MaxRetries \in Nat \ {0}

VARIABLES
  events,     \* _events, oldest first, with ages for times
  spent,      \* _spent
  queue,      \* tasks that hold or wait for _lock, in order
  call,       \* per caller: its request
  connected,  \* HyperliquidREST.connected
  recent      \* what was admitted inside the window, whatever the books say

books == <<events, spent>>
vars == <<events, spent, queue, call, connected, recent>>

CallAt(at, weight, left, attempt) ==
  [at |-> at, weight |-> weight, left |-> left, sleep |-> 0, attempt |-> attempt]
NoCall == CallAt("idle", 0, 0, 0)

\* The weight of the first events of s, by their number, and of all of them.
Sums(s) ==
  LET sum[i \in 0 .. Len(s)] == IF i = 0 THEN 0 ELSE sum[i - 1] + s[i].weight IN sum
Total(s) == Sums(s)[Len(s)]

Init ==
  /\ events = <<>> /\ spent = 0
  /\ queue = <<>>
  /\ call = [c \in Callers |-> NoCall]
  /\ connected = FALSE
  /\ recent = <<>>

-----------------------------------------------------------------------------
(* The books.                                                              *)

\* Mutant of Expired: an event leaves the books a tick early.
ExpiredEarly(s) == Cardinality({i \in DOMAIN s : s[i].age >= Window - 1})

\* Mutant of Expired: one event leaves at a time, an if for a while.
ExpiredOne(s) == IF \E i \in DOMAIN s : s[i].age >= Window THEN 1 ELSE 0

\* How many of the events are outside the window: the first ones.
Expired(s) == Cardinality({i \in DOMAIN s : s[i].age >= Window})

\* What _evict leaves of _events and of _spent.
Kept == SubSeq(events, Expired(events) + 1, Len(events))
KeptSpent ==
  IF Kept = <<>> THEN 0 ELSE spent - Sums(events)[Expired(events)]

Fits(weight) == KeptSpent + weight <= Budget

Evict ==
  /\ events' = Kept
  /\ spent' = KeptSpent

\* Mutant of Spend: the event has the time from before the sleep.
SpendBackdated(weight) ==
  /\ events' = Append(Kept, [age |-> 1, weight |-> weight])
  /\ spent' = KeptSpent + weight
  /\ recent' = Append(recent, [age |-> 0, weight |-> weight])

Spend(weight) ==
  /\ events' = Append(Kept, [age |-> 0, weight |-> weight])
  /\ spent' = KeptSpent + weight
  /\ recent' = Append(recent, [age |-> 0, weight |-> weight])

Sending(c, weight) == call' = [call EXCEPT ![c] = CallAt("sending", weight, 0, 1)]

-----------------------------------------------------------------------------
(* Admission.                                                              *)

\* try_acquire: the opportunistic polls.
TryAcquire(c, weight) ==
  /\ call[c] = NoCall
  /\ \/ /\ Fits(weight)
        /\ Spend(weight)
        /\ Sending(c, weight)
     \/ /\ ~Fits(weight)
        /\ Evict
        /\ UNCHANGED <<call, recent>>
  /\ UNCHANGED <<queue, connected>>

\* acquire: the deadline is set, and the lock asked for.
Acquire(c, weight) ==
  /\ call[c] = NoCall
  /\ call' = [call EXCEPT ![c] = CallAt("waiting", weight, Timeout, 0)]
  /\ queue' = Append(queue, c)
  /\ UNCHANGED <<books, connected, recent>>

\* The task that holds the lock is not asleep.
Due(c) == queue # <<>> /\ Head(queue) = c /\ call[c].sleep <= 0

\* Until the oldest event leaves the window, but not past the deadline.
Pause(c) ==
  LET oldest == IF Kept = <<>> THEN 1 ELSE Window - Kept[1].age
  IN IF oldest < call[c].left THEN oldest ELSE call[c].left

\* Mutant of Serve: the deadline is looked at before the sleep only.
ServeOversleeps(c) ==
  /\ Due(c)
  /\ \/ /\ Fits(call[c].weight)
        /\ Spend(call[c].weight)
        /\ queue' = Tail(queue)
        /\ Sending(c, call[c].weight)
     \/ /\ ~Fits(call[c].weight) /\ call[c].left <= 0
        /\ Evict
        /\ queue' = Tail(queue)
        /\ call' = [call EXCEPT ![c] = NoCall]
        /\ UNCHANGED recent
     \/ /\ ~Fits(call[c].weight) /\ call[c].left > 0
        /\ Evict
        /\ call' = [call EXCEPT ![c].sleep =
                      IF Kept = <<>> THEN 1 ELSE Window - Kept[1].age]
        /\ UNCHANGED <<queue, recent>>
  /\ UNCHANGED connected

\* Mutant of Serve: one that does not fit never gives up.
ServeForEver(c) ==
  /\ Due(c)
  /\ \/ /\ Fits(call[c].weight)
        /\ Spend(call[c].weight)
        /\ queue' = Tail(queue)
        /\ Sending(c, call[c].weight)
     \/ /\ ~Fits(call[c].weight)
        /\ Evict
        /\ call' = [call EXCEPT ![c].sleep = IF call[c].left > 0 THEN Pause(c) ELSE 1]
        /\ UNCHANGED <<queue, recent>>
  /\ UNCHANGED connected

\* One turn of acquire's loop: it fits, or the time is over, or it sleeps.
Serve(c) ==
  /\ Due(c)
  /\ \/ /\ Fits(call[c].weight)
        /\ Spend(call[c].weight)
        /\ queue' = Tail(queue)
        /\ Sending(c, call[c].weight)
     \/ /\ ~Fits(call[c].weight) /\ call[c].left <= 0
        /\ Evict
        /\ queue' = Tail(queue)
        /\ call' = [call EXCEPT ![c] = NoCall]
        /\ UNCHANGED recent
     \/ /\ ~Fits(call[c].weight) /\ call[c].left > 0
        /\ Evict
        /\ call' = [call EXCEPT ![c].sleep = Pause(c)]
        /\ UNCHANGED <<queue, recent>>
  /\ UNCHANGED connected

-----------------------------------------------------------------------------
(* post_info after its admission.                                          *)

\* JSON, or a status from 400 to 499 that no retry will change.
Answered(c) ==
  /\ call[c].at = "sending"
  /\ call' = [call EXCEPT ![c] = NoCall]
  /\ \/ connected' = TRUE
     \/ UNCHANGED connected
  /\ UNCHANGED <<books, queue, recent>>

\* 429: sleep and go on, also past the last attempt.
Throttled(c) ==
  /\ call[c].at = "sending"
  /\ call' = [call EXCEPT ![c].at = "backoff"]
  /\ UNCHANGED <<books, queue, connected, recent>>

\* A server error, a timeout or nonsense: the last attempt gives up.
Failed(c) ==
  /\ call[c].at = "sending"
  /\ \/ /\ call[c].attempt >= MaxRetries
        /\ call' = [call EXCEPT ![c] = NoCall]
        /\ connected' = FALSE
     \/ /\ call[c].attempt < MaxRetries
        /\ call' = [call EXCEPT ![c].at = "backoff"]
        /\ UNCHANGED connected
  /\ UNCHANGED <<books, queue, recent>>

\* The sleep between two attempts is over.
Again(c) ==
  /\ call[c].at = "backoff"
  /\ \/ /\ call[c].attempt >= MaxRetries
        /\ call' = [call EXCEPT ![c] = NoCall]
     \/ /\ call[c].attempt < MaxRetries
        /\ call' = [call EXCEPT ![c] = CallAt("sending", @.weight, 0, @.attempt + 1)]
  /\ UNCHANGED <<books, queue, connected, recent>>

\* The engine stops and cancels the task, wherever it waits: a waiter leaves
\* the queue, a holder releases the lock.
Cancel(c) ==
  /\ call[c] # NoCall
  /\ \/ \E i \in DOMAIN queue : queue[i] = c /\ queue' = RemoveAt(queue, i)
     \/ c \notin ToSet(queue) /\ UNCHANGED queue
  /\ call' = [call EXCEPT ![c] = NoCall]
  /\ UNCHANGED <<books, connected, recent>>

-----------------------------------------------------------------------------
Older(t) == IF t > 0 THEN t - 1 ELSE t

\* An event too old to count is as old as any.
Aged(s) == [i \in DOMAIN s |->
              [s[i] EXCEPT !.age = IF @ < Window THEN @ + 1 ELSE @]]

\* Those that are now a window old, the first ones, leave.
Leaving(s) == {i \in DOMAIN s : s[i].age = Window - 1}

Tick ==
  /\ ~\E c \in Callers : Due(c)
  /\ events' = Aged(events)
  /\ recent' = SubSeq(Aged(recent), Cardinality(Leaving(recent)) + 1, Len(recent))
  /\ call' = [c \in Callers |->
                [call[c] EXCEPT !.sleep = Older(@),
                                !.left = IF call[c].at = "waiting" /\ @ >= 0
                                         THEN @ - 1 ELSE @]]
  /\ UNCHANGED <<spent, queue, connected>>

Exchange(c) == Answered(c) \/ Throttled(c) \/ Failed(c)

Next ==
  \/ \E r \in Polls : TryAcquire(r[1], r[2])
  \/ \E r \in Waits : Acquire(r[1], r[2])
  \/ \E c \in Callers : Serve(c) \/ Exchange(c) \/ Again(c) \/ Cancel(c)
  \/ Tick

\* Due tasks run, time passes, a request is answered or times out, a sleep ends.
Fairness ==
  /\ WF_vars(Tick)
  /\ \A c \in Callers : WF_vars(Serve(c)) /\ WF_vars(Exchange(c)) /\ WF_vars(Again(c))

Spec == Init /\ [][Next]_vars /\ Fairness

-----------------------------------------------------------------------------
\* In no window is more weight admitted than the budget, by waiters and by
\* polls together, however they interleave.  (Retries are sent, but are not
\* admitted again.)
WindowRespected == Total(recent) <= Budget

\* Nor is any of it withheld: whoever looks at the books, after whatever polls
\* and waiters wrote to them, is let through just when its weight fits beside
\* what the window really holds, and refused or put to sleep just when not.
NoBudgetWithheld ==
  \A r \in Polls \cup Waits : Fits(r[2]) <=> Total(recent) + r[2] <= Budget

\* What _evict makes of the books is a sliding window, whatever else happens: each
\* step of waiters and polls admits one request that fits, lets a tick pass, or
\* changes nothing, also one that only throws out what expired.
Sliding == INSTANCE SlidingWindow WITH window <- Kept
SlidesExactly == Sliding!Spec

\* Nobody who waits is still waiting when its time is over, though it may only
\* look at the clock when it holds the lock: whoever is before it in the queue
\* has less time left.
BoundedWait == \A c \in Callers : call[c].at = "waiting" => call[c].left >= 0

\* Every request is answered, refused or given up in the end, also one that is
\* starved by polls or heavier than the budget.
EveryCallEnds == \A c \in Callers : call[c] # NoCall ~> call[c] = NoCall

=============================================================================
