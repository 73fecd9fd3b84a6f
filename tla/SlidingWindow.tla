--------------------------- MODULE SlidingWindow ---------------------------
(***************************************************************************)
(* What the REST budget promises, without books to keep: requests are      *)
(* admitted only while the weight of those of the last minute allows it,   *)
(* and each counts for exactly that minute, not a moment more or less.     *)
(* Nothing is said of who is admitted, or when.  RateLimiter is shown to   *)
(* implement this.                                                         *)
(***************************************************************************)
EXTENDS Integers, Sequences, FiniteSets

CONSTANTS
  Budget,   \* the weight a minute may hold
  Window    \* the minute, in ticks

VARIABLE
  window    \* what was admitted in the last minute, oldest first: age and weight

\* The weight of the first requests of s, by their number, and of all of them.
Sums(s) ==
  LET sum[i \in 0 .. Len(s)] == IF i = 0 THEN 0 ELSE sum[i - 1] + s[i].weight IN sum
Total(s) == Sums(s)[Len(s)]

Init == window = <<>>

\* One more request is admitted, and fits.
Admit ==
  LET request == window'[Len(window) + 1]
  IN  /\ Len(window') = Len(window) + 1
      /\ window' = Append(window, request)
      /\ request.age = 0
      /\ request.weight \in Nat
      /\ Total(window) + request.weight <= Budget

\* How many become a minute old with the next tick: they stop counting.
Leaving == Cardinality({i \in DOMAIN window : window[i].age + 1 >= Window})

\* A tick passes.
Pass ==
  window' = [i \in 1 .. Len(window) - Leaving |->
               [window[Leaving + i] EXCEPT !.age = @ + 1]]

Next == Admit \/ Pass

Spec == Init /\ [][Next]_window
=============================================================================
