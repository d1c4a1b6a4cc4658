-------------------------------- MODULE Queue --------------------------------
(***************************************************************************)
(* core/queue.go: the background worker pool of the framework.             *)
(*                                                                         *)
(* Every job is the argument of one Dispatch call.  The call is two steps, *)
(* the load of isClosed and the select that sends, and Shutdown's three    *)
(* writes may fall between them.  A call is made by a goroutine outside    *)
(* the pool (Parent[j] = External) or by another job while it executes.    *)
(* A job that panics is recovered by executeJob, which is how a job ends   *)
(* too, so the two are one action here.                                    *)
(***************************************************************************)
EXTENDS Naturals, Sequences

CONSTANTS Workers,      \* the goroutines NewQueue starts
          Jobs,         \* the jobs that may be dispatched
          Shutters,     \* the goroutines that may call Shutdown
          BufferSize,   \* capacity of jobCh
          Parent,       \* the job whose execution dispatches a job, or External
          External,     \* a caller that is not a job
          NoJob         \* a worker holds no job

\* NewQueue replaces a size that is not positive by a default, so the program
\* has at least one worker and one buffer slot.
ASSUME QueueAssumption ==
    /\ Workers # {}
    /\ BufferSize \in Nat \ {0}
    /\ External \notin Jobs
    /\ NoJob \notin Jobs
    /\ Parent \in [Jobs -> Jobs \cup {External}]

VARIABLES isClosed,     \* q.isClosed
          quitClosed,   \* close(q.quitCh) has happened
          jobClosed,    \* close(q.jobCh) has happened
          once,         \* q.once: "new", "busy" or "done"
          jobCh,        \* the jobs buffered in q.jobCh
          wpc,          \* where each worker stands
          held,         \* the job each worker executes
          fallback,     \* jobs running in a fallback goroutine
          done,         \* jobs whose execution has ended
          call,         \* where each job's Dispatch call stands
          shut,         \* where each Shutdown call stands
          late          \* history: jobs buffered after quitCh was closed

chans == <<isClosed, quitClosed, jobClosed, once>>
pool  == <<wpc, held, fallback, done>>
vars  == <<chans, jobCh, pool, call, shut, late>>

CallState   == {"idle", "checked", "refused", "accepted", "panicked"}
WorkerState == {"select", "drain", "exited"}
ShutState   == {"idle", "store", "closeQuit", "closeJobs", "wait",
                "drained", "timedOut", "panicked"}

TypeOK ==
    /\ isClosed \in BOOLEAN
    /\ quitClosed \in BOOLEAN
    /\ jobClosed \in BOOLEAN
    /\ once \in {"new", "busy", "done"}
    /\ jobCh \in Seq(Jobs)
    /\ Len(jobCh) \in 0..BufferSize
    /\ wpc \in [Workers -> WorkerState]
    /\ held \in [Workers -> Jobs \cup {NoJob}]
    /\ fallback \in SUBSET Jobs
    /\ done \in SUBSET Jobs
    /\ call \in [Jobs -> CallState]
    /\ shut \in [Shutters -> ShutState]
    /\ late \in SUBSET Jobs

Init ==
    /\ isClosed = FALSE
    /\ quitClosed = FALSE
    /\ jobClosed = FALSE
    /\ once = "new"
    /\ jobCh = <<>>
    /\ wpc = [w \in Workers |-> "select"]
    /\ held = [w \in Workers |-> NoJob]
    /\ fallback = {}
    /\ done = {}
    /\ call = [j \in Jobs |-> "idle"]
    /\ shut = [s \in Shutters |-> "idle"]
    /\ late = {}

Buffered(j)  == \E i \in 1..Len(jobCh) : jobCh[i] = j
Held(j)      == \E w \in Workers : held[w] = j
Executing(j) == Held(j) \/ j \in fallback

\* The code of a job runs one statement at a time: while a Dispatch it made is
\* between its two steps, the job does nothing else.
Calling(p) == \E j \in Jobs : Parent[j] = p /\ call[j] = "checked"

------------------------------------------------------------------------------
(* Faulty variants of the actions below, each what a slip in queue.go would    *)
(* make of one of them.  No specification uses them: they serve to show that   *)
(* the properties at the end of the module can fail.                           *)

\* The select without its default: the buffer has no limit.
SendUnbounded(j) ==
    /\ call[j] = "checked" /\ ~jobClosed
    /\ jobCh' = Append(jobCh, j)
    /\ call' = [call EXCEPT ![j] = "accepted"]
    /\ UNCHANGED <<chans, pool, shut, late>>

\* The default that returns true without the fallback goroutine.
FallbackForgotten(j) ==
    /\ call[j] = "checked" /\ ~jobClosed
    /\ Len(jobCh) = BufferSize
    /\ call' = [call EXCEPT ![j] = "accepted"]
    /\ UNCHANGED <<chans, jobCh, pool, shut, late>>

\* A worker that returns on quitCh without draining jobCh.
ExitUndrained(w) ==
    /\ held[w] = NoJob
    /\ wpc[w] = "drain"
    /\ wpc' = [wpc EXCEPT ![w] = "exited"]
    /\ UNCHANGED <<chans, jobCh, held, fallback, done, call, shut, late>>

\* A draining worker that tests neither ok nor default.
ExitNever(w) ==
    /\ held[w] = NoJob
    /\ jobCh = <<>> /\ jobClosed /\ wpc[w] = "select"
    /\ wpc' = [wpc EXCEPT ![w] = "exited"]
    /\ UNCHANGED <<chans, jobCh, held, fallback, done, call, shut, late>>

\* Shutdown without once.Do.
EnterTwice(s) ==
    /\ shut[s] = "idle"
    /\ shut' = [shut EXCEPT ![s] = "store"]
    /\ UNCHANGED <<chans, jobCh, pool, call, late>>

\* Shutdown that forgets to set isClosed.
StoreForgotten(s) ==
    /\ shut[s] = "store"
    /\ shut' = [shut EXCEPT ![s] = "closeQuit"]
    /\ UNCHANGED <<chans, jobCh, pool, call, late>>

------------------------------------------------------------------------------
(* Dispatch *)

\* The load of isClosed.
DispatchCheck(j) ==
    /\ call[j] = "idle"
    /\ Parent[j] # External => Executing(Parent[j]) /\ ~Calling(Parent[j])
    /\ call' = [call EXCEPT ![j] = IF isClosed THEN "refused" ELSE "checked"]
    /\ UNCHANGED <<chans, jobCh, pool, shut, late>>

\* The send succeeds.
DispatchSend(j) ==
    /\ call[j] = "checked"
    /\ ~jobClosed
    /\ Len(jobCh) < BufferSize
    /\ jobCh' = Append(jobCh, j)
    /\ call' = [call EXCEPT ![j] = "accepted"]
    /\ late' = IF quitClosed THEN late \cup {j} ELSE late
    /\ UNCHANGED <<chans, pool, shut>>

\* The buffer is full: a goroutine no WaitGroup counts executes the job.
DispatchFallback(j) ==
    /\ call[j] = "checked"
    /\ ~jobClosed
    /\ Len(jobCh) = BufferSize
    /\ fallback' = fallback \cup {j}
    /\ call' = [call EXCEPT ![j] = "accepted"]
    /\ UNCHANGED <<chans, jobCh, wpc, held, done, shut, late>>

\* The execution of job p is over, whoever runs it.
EndExecution(p) ==
    /\ held' = [w \in Workers |-> IF held[w] = p THEN NoJob ELSE held[w]]
    /\ fallback' = fallback \ {p}
    /\ done' = done \cup {p}
    /\ UNCHANGED wpc

\* A send on a closed channel panics, whether the buffer is full or not.  In
\* a job the panic unwinds to the recover of executeJob and ends the job.
DispatchPanic(j) ==
    /\ call[j] = "checked"
    /\ jobClosed
    /\ call' = [call EXCEPT ![j] = "panicked"]
    /\ IF Parent[j] = External THEN UNCHANGED pool ELSE EndExecution(Parent[j])
    /\ UNCHANGED <<chans, jobCh, shut, late>>

------------------------------------------------------------------------------
(* The workers *)

\* A receive from jobCh, in the outer or in the draining select.
WorkerTake(w) ==
    /\ wpc[w] \in {"select", "drain"}
    /\ held[w] = NoJob
    /\ jobCh # <<>>
    /\ held' = [held EXCEPT ![w] = Head(jobCh)]
    /\ jobCh' = Tail(jobCh)
    /\ UNCHANGED <<chans, wpc, fallback, done, call, shut, late>>

\* executeJob returns: the job ended, or panicked and was recovered.
JobEnd(j) ==
    /\ Executing(j)
    /\ ~Calling(j)
    /\ EndExecution(j)
    /\ UNCHANGED <<chans, jobCh, call, shut, late>>

\* The outer select chooses quitCh, which it may although jobCh is ready too.
WorkerQuit(w) ==
    /\ wpc[w] = "select"
    /\ held[w] = NoJob
    /\ quitClosed
    /\ wpc' = [wpc EXCEPT ![w] = "drain"]
    /\ UNCHANGED <<chans, jobCh, held, fallback, done, call, shut, late>>

\* The worker returns: jobCh is closed and empty, or just empty while draining.
WorkerExit(w) ==
    /\ held[w] = NoJob
    /\ jobCh = <<>>
    /\ \/ wpc[w] = "select" /\ jobClosed
       \/ wpc[w] = "drain"
    /\ wpc' = [wpc EXCEPT ![w] = "exited"]
    /\ UNCHANGED <<chans, jobCh, held, fallback, done, call, shut, late>>

------------------------------------------------------------------------------
(* Shutdown *)

\* once.Do: the first caller runs the body, later ones wait until it is done.
ShutdownEnter(s) ==
    /\ shut[s] = "idle"
    /\ once # "busy"
    /\ shut' = [shut EXCEPT ![s] = IF once = "new" THEN "store" ELSE "wait"]
    /\ once' = IF once = "new" THEN "busy" ELSE once
    /\ UNCHANGED <<isClosed, quitClosed, jobClosed, jobCh, pool, call, late>>

ShutdownStore(s) ==
    /\ shut[s] = "store"
    /\ isClosed' = TRUE
    /\ shut' = [shut EXCEPT ![s] = "closeQuit"]
    /\ UNCHANGED <<quitClosed, jobClosed, once, jobCh, pool, call, late>>

\* Closing a channel twice panics; once.Do is what prevents it.
ShutdownCloseQuit(s) ==
    /\ shut[s] = "closeQuit"
    /\ quitClosed' = TRUE
    /\ shut' = [shut EXCEPT ![s] = IF quitClosed THEN "panicked" ELSE "closeJobs"]
    /\ once' = IF quitClosed THEN "done" ELSE once
    /\ UNCHANGED <<isClosed, jobClosed, jobCh, pool, call, late>>

ShutdownCloseJobs(s) ==
    /\ shut[s] = "closeJobs"
    /\ jobClosed' = TRUE
    /\ shut' = [shut EXCEPT ![s] = IF jobClosed THEN "panicked" ELSE "wait"]
    /\ once' = "done"
    /\ UNCHANGED <<isClosed, quitClosed, jobCh, pool, call, late>>

\* wg.Wait has returned and the select took the done channel.
ShutdownDrained(s) ==
    /\ shut[s] = "wait"
    /\ \A w \in Workers : wpc[w] = "exited"
    /\ shut' = [shut EXCEPT ![s] = "drained"]
    /\ UNCHANGED <<chans, jobCh, pool, call, late>>

\* time.After fired first; how long that is, the model does not say.
ShutdownTimeout(s) ==
    /\ shut[s] = "wait"
    /\ shut' = [shut EXCEPT ![s] = "timedOut"]
    /\ UNCHANGED <<chans, jobCh, pool, call, late>>

------------------------------------------------------------------------------

\* The second step of a Dispatch, once its caller has loaded isClosed.
DispatchSelect(j) == DispatchSend(j) \/ DispatchFallback(j) \/ DispatchPanic(j)

Dispatch(j) == DispatchCheck(j) \/ DispatchSelect(j)

Worker(w) == WorkerTake(w) \/ WorkerQuit(w) \/ WorkerExit(w)

ShutdownStep(s) == \/ ShutdownStore(s) \/ ShutdownCloseQuit(s)
                   \/ ShutdownCloseJobs(s)
                   \/ ShutdownDrained(s) \/ ShutdownTimeout(s)

Next == \/ \E j \in Jobs : Dispatch(j) \/ JobEnd(j)
        \/ \E w \in Workers : Worker(w)
        \/ \E s \in Shutters : ShutdownEnter(s) \/ ShutdownStep(s)

Spec == Init /\ [][Next]_vars

\* The Go scheduler runs every goroutine that is able to run, and jobs are
\* functions that return.  Nothing makes a caller begin a call.
Fairness ==
    /\ \A j \in Jobs : /\ WF_vars(DispatchSelect(j))
                       /\ WF_vars(JobEnd(j))
    /\ \A w \in Workers : WF_vars(Worker(w))
    /\ \A s \in Shutters : WF_vars(ShutdownStep(s))

FairSpec == Spec /\ Fairness

------------------------------------------------------------------------------
(* Safety *)

\* The three writes of Shutdown happen in their order and at most once however
\* many goroutines call it: a second close of either channel would panic.
ClosesOnce ==
    /\ jobClosed => quitClosed
    /\ quitClosed => isClosed
    /\ \A s \in Shutters : shut[s] # "panicked"

\* A job whose Dispatch returned true is in exactly one place, the buffer (once),
\* one worker, one fallback goroutine or among the ended jobs, and no other job
\* is anywhere: nothing is lost between the channel and the goroutines that
\* receive from it, and nothing is executed twice.
OnePlace ==
    /\ \A i, k \in 1..Len(jobCh) : jobCh[i] = jobCh[k] => i = k
    /\ \A v, w \in Workers : held[v] = held[w] /\ held[v] # NoJob => v = w
    /\ \A j \in Jobs :
          /\ call[j] = "accepted" <=> Buffered(j) \/ Executing(j) \/ j \in done
          /\ Buffered(j) => ~Executing(j) /\ j \notin done
          /\ Executing(j) => j \notin done
          /\ Held(j) => j \notin fallback

\* When Shutdown returns true, a job that Dispatch accepted has ended, unless it
\* runs in a fallback goroutine or slipped into the buffer after quitCh was
\* closed: a worker that stops, by either of its two exits, leaves no job that
\* was accepted before the shutdown behind.
DrainedServesEarlyJobs ==
    (\E s \in Shutters : shut[s] = "drained") =>
        \A j \in Jobs : call[j] = "accepted" => j \in done \cup late \cup fallback

\* core.Queue implements the pool a caller sees.
StatusOf(j) ==
    CASE j \in done             -> "done"
      [] Executing(j)           -> "running"
      [] Buffered(j)            -> "queued"
      [] call[j] = "refused"    -> "refused"
      [] call[j] = "panicked"   -> "failed"
      [] OTHER                  -> "new"

Pool == INSTANCE JobPool WITH closed <- isClosed,
                              status <- [j \in Jobs |-> StatusOf(j)]

ImplementsJobPool == Pool!Spec

(* Liveness, under FairSpec *)

\* A job accepted before quitCh was closed ends, shutdown or not.
EarlyJobsEnd ==
    \A j \in Jobs : call[j] = "accepted" /\ j \notin late ~> j \in done

\* After a Shutdown closed the channels every worker goroutine stops.
WorkersStop == jobClosed ~> \A w \in Workers : wpc[w] = "exited"

(* What the comments of queue.go say, and its runs refute *)

\* "Returns true if queued successfully, or false if the queue is shutting
\* down": no other outcome of a Dispatch is mentioned.
DispatchReturns == \A j \in Jobs : call[j] # "panicked"
==============================================================================
