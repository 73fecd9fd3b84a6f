------------------------------ MODULE TellOnce ------------------------------
(***************************************************************************)
(* What the delivery of alerts promises the chats, with none of the        *)
(* machinery that keeps the promise: the alerts are told one at a time, in *)
(* the order they were detected, so that nobody is told of one after       *)
(* anybody was told of a later one; and a chat is told of an alert once,   *)
(* or twice in a row if it did not acknowledge the first time.  Nothing    *)
(* says that it is told at all: a queue is bounded, a bucket may be empty, *)
(* a process may be restarted.  AlertDelivery is shown to implement this.  *)
(***************************************************************************)
EXTENDS Naturals, Sequences

CONSTANT Chats

VARIABLES
  detected,  \* number of alerts so far; they are numbered from 1
  told       \* per chat: its messages, with at least id, the number of the alert,
             \* and acked, if Telegram's answer arrived; what else they say is open

Init ==
  /\ detected = 0
  /\ told = [c \in Chats |-> <<>>]

Detect ==
  /\ detected' = detected + 1
  /\ UNCHANGED told

\* Nobody has been told of an alert after the n-th.
NobodyBeyond(n) == \A c \in Chats : \A i \in DOMAIN told[c] : told[c][i].id <= n

\* If chat c was told of the n-th alert, it was just now, without an answer.
Open(c, n) ==
  \A i \in DOMAIN told[c] : told[c][i].id = n => i = Len(told[c]) /\ ~told[c][i].acked

\* Chat c is told something more, of one alert.
Tell(c) ==
  LET message == told'[c][Len(told[c]) + 1]
  IN  /\ Len(told'[c]) = Len(told[c]) + 1
      /\ told' = [told EXCEPT ![c] = Append(@, message)]
      /\ message.id \in 1 .. detected
      /\ NobodyBeyond(message.id)
      /\ Open(c, message.id)
      /\ UNCHANGED detected

Next == Detect \/ \E c \in Chats : Tell(c)

Spec == Init /\ [][Next]_<<detected, told>>
=============================================================================
