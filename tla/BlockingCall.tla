----------------------------- MODULE BlockingCall -----------------------------
(***************************************************************************)
(* What a fiber may expect of a hooked call (blue/hook.cpp), whatever the  *)
(* scheduler, the event loop and the timers do meanwhile.  Data that has   *)
(* arrived stays until a call succeeds, and one call takes it; a call      *)
(* reports a timeout, and a sleep ends, only if a timer that this very     *)
(* call armed has elapsed.                                                 *)
(***************************************************************************)
CONSTANTS
    Fibers,
    Targets,   \* what a reading, writing or accepting call waits for
    NoTarget   \* the target of a sleep or a connect

Results == {"ok", "timeout", "error", "slept", "connected"}

VARIABLES
    pending,   \* the fibers inside a call
    target,    \* what the call of a fiber waits for
    elapsed,   \* the fibers whose pending call armed a timer that elapsed
    arrived,   \* the targets that have come and were not taken yet
    result     \* how the last call of a fiber ended, "none" inside one

vars == <<pending, target, elapsed, arrived, result>>

Init ==
    /\ pending = {}
    /\ target = [f \in Fibers |-> NoTarget]
    /\ elapsed = {}
    /\ arrived = {}
    /\ result = [f \in Fibers |-> "none"]

Call(f, x) ==
    /\ f \notin pending
    /\ pending' = pending \cup {f}
    /\ target' = [target EXCEPT ![f] = x]
    /\ result' = [result EXCEPT ![f] = "none"]
    /\ UNCHANGED <<elapsed, arrived>>

Elapse(f) ==
    /\ f \in pending
    /\ elapsed' = elapsed \cup {f}
    /\ UNCHANGED <<pending, target, arrived, result>>

Return(f, r) ==
    /\ f \in pending
    /\ pending' = pending \ {f}
    /\ elapsed' = elapsed \ {f}
    /\ target' = [target EXCEPT ![f] = NoTarget]
    /\ result' = [result EXCEPT ![f] = r]
    /\ r \in {"timeout", "slept"} => f \in elapsed
    /\ IF r = "ok" THEN target[f] \in arrived /\ arrived' = arrived \ {target[f]}
                   ELSE UNCHANGED arrived

\* The peer sends, a descriptor is opened or closed; what a pending call
\* waits for is not taken away.
Environment ==
    /\ arrived' \subseteq Targets
    /\ \A f \in pending : target[f] \in arrived => target[f] \in arrived'
    /\ UNCHANGED <<pending, target, elapsed, result>>

Next ==
    \/ Environment
    \/ \E f \in Fibers :
        \/ \E x \in Targets \cup {NoTarget} : Call(f, x)
        \/ Elapse(f)
        \/ \E r \in Results : Return(f, r)

Spec == Init /\ [][Next]_vars

=============================================================================
