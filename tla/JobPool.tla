------------------------------- MODULE JobPool -------------------------------
(***************************************************************************)
(* What core.Queue promises its callers, without channels or goroutines:   *)
(* a Dispatch is answered at most once, with an acceptance, a refusal or a *)
(* failure; it is refused or fails only when the pool is closed; a job     *)
(* that was accepted is executed at most once, and no other job ever is.   *)
(*                                                                         *)
(* Queue.tla is shown to implement this specification.                     *)
(***************************************************************************)

CONSTANT Jobs

VARIABLES closed,   \* the pool no longer takes jobs
          status    \* what became of each job

vars == <<closed, status>>

Status == {"new", "refused", "failed", "queued", "running", "done"}

TypeOK == /\ closed \in BOOLEAN
          /\ status \in [Jobs -> Status]

Init == /\ closed = FALSE
        /\ status = [j \in Jobs |-> "new"]

Become(j, from, to) == /\ status[j] = from
                       /\ status' = [status EXCEPT ![j] = to]

\* An accepted job waits its turn or, when the pool is full, starts at once.
Accept(j) == /\ \E to \in {"queued", "running"} : Become(j, "new", to)
             /\ UNCHANGED closed

Reject(j) == /\ closed
             /\ \E to \in {"refused", "failed"} : Become(j, "new", to)
             /\ UNCHANGED closed

Start(j) == Become(j, "queued", "running") /\ UNCHANGED closed

Finish(j) == Become(j, "running", "done") /\ UNCHANGED closed

Close == /\ ~closed
         /\ closed' = TRUE
         /\ UNCHANGED status

\* The call of a running job that fails takes the job that made it down too.
FailIn(p, j) == /\ closed
                /\ p # j
                /\ status[j] = "new"
                /\ status[p] = "running"
                /\ status' = [status EXCEPT ![j] = "failed", ![p] = "done"]
                /\ UNCHANGED closed

Next == \/ Close
        \/ \E j \in Jobs : Accept(j) \/ Reject(j) \/ Start(j) \/ Finish(j)
        \/ \E p, j \in Jobs : FailIn(p, j)

Spec == Init /\ [][Next]_vars
==============================================================================
