--------------------------- MODULE AtomicProgress ---------------------------
(***************************************************************************)
(* What the atomic batch step promises, whoever runs it and however often: *)
(* the checkpoint moves forward, and in the same step every item it passes *)
(* is either written once or dropped.                                      *)
(***************************************************************************)
EXTENDS Integers

CONSTANT N   \* the number of items

Items == 1..N

VARIABLES
  value,     \* the checkpoint: the number of items it has passed
  written,   \* how often each item was written
  dropped    \* the items that were filtered or skipped

vars == <<value, written, dropped>>

Init == value = 0 /\ written = [i \in Items |-> 0] /\ dropped = {}

\* The checkpoint moves to n, with the items in W written on the way.
Advance(n, W) ==
  /\ n \in value..N
  /\ W \subseteq (value + 1)..n
  /\ value' = n
  /\ written' = [i \in Items |-> IF i \in W THEN written[i] + 1 ELSE written[i]]
  /\ dropped' = dropped \cup (((value + 1)..n) \ W)

Next == \E n \in 0..N : \E W \in SUBSET Items : Advance(n, W)

Spec == Init /\ [][Next]_vars

=============================================================================
