----------------------------- MODULE RecordOnce -----------------------------
(***************************************************************************)
(* What the duplicate gates of the detection engine promise, with none of  *)
(* the machinery that keeps the promise: one observation of the exchange   *)
(* (one dedup key) is recorded in whale_events at most once in any window  *)
(* of TTL time units, however many feeds, replays, retries or restarts     *)
(* deliver it.  Only an observation whose record could not be looked up    *)
(* may be recorded again.  EmitPipeline is shown to implement this.        *)
(***************************************************************************)
EXTENDS Integers

CONSTANTS
  Keys,     \* identities of observations (WhaleEvent.dedup_key)
  TTL       \* IDENTITY_TTL, in ticks

VARIABLES
  row,      \* age of the newest row of a key, Absent when it has none
  rows,     \* number of rows ever written for a key
  unread    \* keys whose record could not be looked up; changes at any time

Absent == -1

\* Ages are counted up to TTL + 1, which stands for "longer ago than TTL".
Older(age) == IF age = Absent \/ age > TTL THEN age ELSE age + 1

Live(k) == row[k] \in 0..TTL

Init ==
  /\ row  = [k \in Keys |-> Absent]
  /\ rows = [k \in Keys |-> 0]

Record(k) ==
  /\ Live(k) => k \in unread
  /\ row'  = [row EXCEPT ![k] = 0]
  /\ rows' = [rows EXCEPT ![k] = @ + 1]

Tick ==
  /\ row' = [k \in Keys |-> Older(row[k])]
  /\ UNCHANGED rows

Next == Tick \/ \E k \in Keys : Record(k)

Spec == Init /\ [][Next]_<<row, rows>>
=============================================================================
