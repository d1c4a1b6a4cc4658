----------------------------- MODULE MCLifecycle ----------------------------
(***************************************************************************)
(* The instance of Lifecycle for TLC: one handler dispatches two events    *)
(* and the callback of the first a third, which is enough for a full       *)
(* buffer, a fallback goroutine and a dispatch into the closing queue.     *)
(***************************************************************************)
EXTENDS Lifecycle

CONSTANTS j1, j2, j3, r1, c1, c2

MCJobs == {j1, j2, j3}

MCCaller == [j \in Jobs |-> IF j = j3 THEN j1 ELSE r1]

\* The bound on the states: three events and one listener, or two events, one of
\* them dispatched by a callback of the other, and two listeners.
MCBound ==
    \/ call[j2] = "idle"
    \/ c2 \notin listeners /\ \A j \in Jobs : c2 \notin heard[j]
==============================================================================
