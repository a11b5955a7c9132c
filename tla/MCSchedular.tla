----------------------------- MODULE MCSchedular -----------------------------
(* Small instances of Schedular for TLC. *)
EXTENDS Schedular

CONSTANTS w1, w2, a, b

\* No task is pinned; every task is scheduled once.
AllAny == [k \in Tasks |-> AnyThread]
Once == [k \in Tasks |-> 1]

\* b is pinned to the calling thread, which takes it inside stop().
PinB == [k \in Tasks |-> IF k = b THEN Main ELSE AnyThread]

\* The fiber a is scheduled twice.
TwiceA == [k \in Tasks |-> IF k = a THEN 2 ELSE 1]

=============================================================================
