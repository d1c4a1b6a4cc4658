----------------------------- MODULE Lifecycle ------------------------------
(***************************************************************************)
(* core/app.go and core/events.go: an application from its first request   *)
(* to the end of its process, composed with the job queue of Queue.tla.    *)
(*                                                                         *)
(* Every job of the queue is here an event that DispatchAsync hands over:  *)
(* a handler or the callback of another event calls it, the job copies the *)
(* listeners of the event and runs them one after the other.  There is one *)
(* event name, and the order of its listeners is left open.                *)
(*                                                                         *)
(* net/http is taken at its word: srv.Shutdown accepts nothing new and     *)
(* returns nil when no handler is running.  Closing the cache and the hub  *)
(* is a step of the shutdown here; what happens in them is in Cache.tla    *)
(* and WebSocketHub.tla.                                                   *)
(***************************************************************************)
EXTENDS Naturals, Sequences

CONSTANTS Workers, Jobs, BufferSize, External, NoJob,   \* as in Queue
          Requests,    \* the requests that may arrive
          Caller,      \* the request or the job that dispatches each job
          Callbacks,   \* the functions that may be listeners of the event
          Main         \* the goroutine that is in Run

ASSUME LifecycleAssumption ==
    /\ Workers # {}
    /\ BufferSize \in Nat \ {0}
    /\ External \notin Jobs
    /\ NoJob \notin Jobs
    /\ Caller \in [Jobs -> Requests \cup Jobs]
    /\ Requests \cap Jobs = {}

VARIABLES isClosed, quitClosed, jobClosed, once, jobCh,
          wpc, held, fallback, done, call, shut, late,   \* as in Queue
          app,         \* where Run stands
          result,      \* what Run has returned
          open,        \* the parts that are not closed
          req,         \* where each request's handler stands
          listeners,   \* ed.listeners[event]
          copied,      \* the jobs that have copied the listeners
          targets,     \* the copied callbacks each job has still to run
          ran,         \* history: the callbacks each job has run
          steady,      \* history: who listened from each DispatchAsync to its job's copy
          heard,       \* history: who listened at some time between the two
          spilled,     \* history: jobs that ran in a fallback goroutine
          broken       \* history: jobs and requests that used a closed database

queueVars == <<isClosed, quitClosed, jobClosed, once, jobCh,
               wpc, held, fallback, done, call, shut, late>>
appVars   == <<app, result, open>>
eventVars == <<listeners, copied, targets, ran, steady, heard>>
vars      == <<queueVars, appVars, req, eventVars, spilled, broken>>

Q == INSTANCE Queue WITH
        Shutters <- {Main},
        Parent   <- [j \in Jobs |-> IF Caller[j] \in Jobs THEN Caller[j] ELSE External]

Parts == {"http", "queue", "cache", "db", "hub"}

TypeOK ==
    /\ Q!TypeOK
    /\ app \in {"serving", "http", "queue", "draining", "cache", "db", "hub", "exited"}
    /\ result \in {"none", "nil", "error"}
    /\ open \in SUBSET Parts
    /\ req \in [Requests -> {"new", "running", "done"}]
    /\ listeners \in SUBSET Callbacks
    /\ copied \in SUBSET Jobs
    /\ targets \in [Jobs -> SUBSET Callbacks]
    /\ ran \in [Jobs -> SUBSET Callbacks]
    /\ steady \in [Jobs -> SUBSET Callbacks]
    /\ heard \in [Jobs -> SUBSET Callbacks]
    /\ spilled \in SUBSET Jobs
    /\ broken \in SUBSET (Jobs \cup Requests)

\* NewApp has built every part, listeners are registered, Run is in its select.
Init ==
    /\ Q!Init
    /\ app = "serving"
    /\ result = "none"
    /\ open = Parts
    /\ req = [r \in Requests |-> "new"]
    /\ listeners \in SUBSET Callbacks
    /\ copied = {}
    /\ targets = [j \in Jobs |-> {}]
    /\ ran = [j \in Jobs |-> {}]
    /\ steady = [j \in Jobs |-> {}]
    /\ heard = [j \in Jobs |-> {}]
    /\ spilled = {}
    /\ broken = {}

\* When main returns, every other goroutine ends where it stands.
Alive == app # "exited"

Running == {r \in Requests : req[r] = "running"}

\* A query of r; with a closed handle it fails.
Query(r) == broken' = IF "db" \in open THEN broken ELSE broken \cup {r}

Goto(from, to) == app = from /\ app' = to

Close(part) == open' = open \ {part}

------------------------------------------------------------------------------
(* Faulty variants, which no specification uses. *)

\* Shutdown that does not wait for the handlers.
HttpDoneEarly ==
    /\ Goto("http", "queue")
    /\ Close("http")
    /\ UNCHANGED <<queueVars, result, req, eventVars, spilled, broken>>

\* A GracefulShutdown that goes on while the queue is drained.
QueueEndEarly ==
    /\ Goto("draining", "cache")
    /\ shut[Main] = "wait"
    /\ Close("queue")
    /\ UNCHANGED <<queueVars, result, req, eventVars, spilled, broken>>

\* A GracefulShutdown that forgets the queue.
QueueForgotten ==
    /\ Goto("queue", "cache")
    /\ UNCHANGED <<queueVars, result, open, req, eventVars, spilled, broken>>

\* executeCallback without its recover: executeJob recovers, and the job ends.
CallbackUnrecovered(j, cb) ==
    /\ Alive /\ Q!Executing(j) /\ ~Q!Calling(j)
    /\ cb \in targets[j]
    /\ \E left \in {{}, targets[j] \ {cb}} : targets' = [targets EXCEPT ![j] = left]
    /\ ran' = [ran EXCEPT ![j] = @ \cup {cb}]
    /\ UNCHANGED <<queueVars, appVars, req, listeners, copied, steady, heard, spilled,
                   broken>>

------------------------------------------------------------------------------
(* Requests *)

Accept(r) ==
    /\ app = "serving"
    /\ req[r] = "new"
    /\ req' = [req EXCEPT ![r] = "running"]
    /\ UNCHANGED <<queueVars, appVars, eventVars, spilled, broken>>

HandlerQuery(r) ==
    /\ Alive /\ req[r] = "running"
    /\ Query(r)
    /\ UNCHANGED <<queueVars, appVars, req, eventVars, spilled>>

\* The handler returns; it is in no call of Dispatch then.
HandlerEnd(r) ==
    /\ Alive /\ req[r] = "running"
    /\ \A j \in Jobs : Caller[j] = r => call[j] # "checked"
    /\ req' = [req EXCEPT ![r] = "done"]
    /\ UNCHANGED <<queueVars, appVars, eventVars, spilled, broken>>

------------------------------------------------------------------------------
(* Events *)

Listen(cb) ==
    /\ Alive /\ cb \notin listeners
    /\ listeners' = listeners \cup {cb}
    /\ heard' = [j \in Jobs |-> IF call[j] # "idle" /\ j \notin copied
                                THEN heard[j] \cup {cb} ELSE heard[j]]
    /\ UNCHANGED <<queueVars, appVars, req, copied, targets, ran, steady, spilled, broken>>

Unlisten ==
    /\ Alive /\ listeners # {}
    /\ listeners' = {}
    /\ steady' = [j \in Jobs |-> IF j \in copied THEN steady[j] ELSE {}]
    /\ UNCHANGED <<queueVars, appVars, req, copied, targets, ran, heard, spilled, broken>>

\* The caller of job j is a handler, or a callback that is being run.
MayCall(j) ==
    IF Caller[j] \in Requests THEN req[Caller[j]] = "running"
                              ELSE targets[Caller[j]] # {}

\* DispatchAsync: the call of queue.Dispatch, whose result it ignores.
DispatchAsync(j) ==
    /\ Alive /\ MayCall(j)
    /\ Q!DispatchCheck(j)
    /\ steady' = [steady EXCEPT ![j] = listeners]
    /\ heard' = [heard EXCEPT ![j] = listeners]
    /\ UNCHANGED <<appVars, req, listeners, copied, targets, ran, spilled, broken>>

DispatchEnd(j) ==
    /\ Alive
    /\ Q!DispatchSend(j) \/ Q!DispatchFallback(j)
    /\ spilled' = spilled \cup fallback'
    /\ UNCHANGED <<appVars, req, eventVars, broken>>

\* The send panics.  executeCallback recovers it when a callback made the call,
\* so that only this callback ends; Recover does in a handler.
DispatchPanic(j) ==
    /\ Alive /\ jobClosed
    /\ call[j] = "checked"
    /\ call' = [call EXCEPT ![j] = "panicked"]
    /\ IF Caller[j] \in Requests
       THEN UNCHANGED <<targets, ran>>
       ELSE \E cb \in targets[Caller[j]] :
               /\ targets' = [targets EXCEPT ![Caller[j]] = @ \ {cb}]
               /\ ran' = [ran EXCEPT ![Caller[j]] = @ \cup {cb}]
    /\ UNCHANGED <<isClosed, quitClosed, jobClosed, once, jobCh, wpc, held,
                   fallback, done, shut, late, appVars, req, listeners, copied,
                   steady, heard, spilled, broken>>

\* Dispatch in the job: the copy under the read lock.
CopyListeners(j) ==
    /\ Alive /\ Q!Executing(j)
    /\ j \notin copied
    /\ copied' = copied \cup {j}
    /\ targets' = [targets EXCEPT ![j] = listeners]
    /\ UNCHANGED <<queueVars, appVars, req, listeners, ran, steady, heard, spilled, broken>>

\* executeCallback: cb returns or panics, which changes nothing for the others.
Callback(j, cb) ==
    /\ Alive /\ Q!Executing(j) /\ ~Q!Calling(j)
    /\ cb \in targets[j]
    /\ targets' = [targets EXCEPT ![j] = @ \ {cb}]
    /\ ran' = [ran EXCEPT ![j] = @ \cup {cb}]
    /\ Query(j) \/ UNCHANGED broken
    /\ UNCHANGED <<queueVars, appVars, req, listeners, copied, steady, heard, spilled>>

JobEnd(j) ==
    /\ Alive /\ j \in copied /\ targets[j] = {}
    /\ Q!JobEnd(j)
    /\ UNCHANGED <<appVars, req, eventVars, spilled, broken>>

WorkerStep(w) ==
    /\ Alive /\ Q!Worker(w)
    /\ UNCHANGED <<appVars, req, eventVars, spilled, broken>>

------------------------------------------------------------------------------
(* Run and GracefulShutdown *)

\* ListenAndServe failed: Run returns its error and main ends the process.
ListenError ==
    /\ Goto("serving", "exited")
    /\ result' = "error"
    /\ UNCHANGED <<queueVars, open, req, eventVars, spilled, broken>>

\* The signal arrives, srv.Shutdown closes the listener.
Signal ==
    /\ Goto("serving", "http")
    /\ UNCHANGED <<queueVars, result, open, req, eventVars, spilled, broken>>

HttpDone ==
    /\ Goto("http", "queue")
    /\ Running = {}
    /\ Close("http")
    /\ UNCHANGED <<queueVars, result, req, eventVars, spilled, broken>>

\* The ten seconds are over: GracefulShutdown returns before its other steps,
\* and main ends the process.
HttpTimeout ==
    /\ Goto("http", "exited")
    /\ Running # {}
    /\ result' = "error"
    /\ UNCHANGED <<queueVars, open, req, eventVars, spilled, broken>>

QueueShutdown ==
    /\ Goto("queue", "draining")
    /\ Q!ShutdownEnter(Main)
    /\ UNCHANGED <<result, open, req, eventVars, spilled, broken>>

QueueStep ==
    /\ app = "draining" /\ Q!ShutdownStep(Main)
    /\ UNCHANGED <<appVars, req, eventVars, spilled, broken>>

\* Queue.Shutdown has returned; its result is not looked at.
QueueEnd ==
    /\ Goto("draining", "cache")
    /\ shut[Main] \in {"drained", "timedOut"}
    /\ Close("queue")
    /\ UNCHANGED <<queueVars, result, req, eventVars, spilled, broken>>

CloseCache ==
    /\ Goto("cache", "db") /\ Close("cache")
    /\ UNCHANGED <<queueVars, result, req, eventVars, spilled, broken>>

\* An error of Close is logged only; the handle is closed all the same.
CloseDb ==
    /\ Goto("db", "hub") /\ Close("db")
    /\ UNCHANGED <<queueVars, result, req, eventVars, spilled, broken>>

CloseHub ==
    /\ Goto("hub", "exited") /\ Close("hub")
    /\ result' = "nil"
    /\ UNCHANGED <<queueVars, req, eventVars, spilled, broken>>

------------------------------------------------------------------------------

Next == \/ \E r \in Requests : Accept(r) \/ HandlerQuery(r) \/ HandlerEnd(r)
        \/ \E cb \in Callbacks : Listen(cb)
        \/ Unlisten
        \/ \E j \in Jobs : \/ DispatchAsync(j) \/ DispatchEnd(j) \/ DispatchPanic(j)
                           \/ CopyListeners(j) \/ JobEnd(j)
                           \/ \E cb \in Callbacks : Callback(j, cb)
        \/ \E w \in Workers : WorkerStep(w)
        \/ ListenError \/ Signal \/ HttpDone \/ HttpTimeout
        \/ QueueShutdown \/ QueueStep \/ QueueEnd
        \/ CloseCache \/ CloseDb \/ CloseHub

Spec == Init /\ [][Next]_vars

------------------------------------------------------------------------------
(* Safety *)

\* The order of GracefulShutdown protects the handlers: none meets a closed
\* database, and no event a handler dispatches is refused or makes it panic,
\* although Queue.tla alone allows both.  Only events that callbacks dispatch
\* can be lost to the shutdown.
HandlersUndisturbed ==
    /\ broken \cap Requests = {}
    /\ \A j \in Jobs : Caller[j] \in Requests => call[j] \notin {"refused", "panicked"}

\* The database is closed "after all handlers & queue tasks complete" except for
\* two kinds of jobs: one in a fallback goroutine, which no Shutdown waits for,
\* and any job once Queue.Shutdown has given up waiting.
ClosedDbUseExplained ==
    \A j \in broken \cap Jobs : j \in spilled \/ shut[Main] = "timedOut"

\* A job that Dispatch accepted and that the process took with it when it ended
\* has one of four reasons: Run returned an error, so that nobody drained the
\* queue; the drain timed out; the job ran in a fallback goroutine; or it was
\* sent between the two closes of Queue.Shutdown.
UnservedJobsExplained ==
    ~Alive => \A j \in Jobs :
        call[j] = "accepted" =>
            \/ j \in done \cup spilled \cup late
            \/ result = "error" \/ shut[Main] = "timedOut"

\* An event reaches every callback that listened from the call of DispatchAsync
\* until its job copied the listeners, even when Unlisten or another callback's
\* panic comes then, or a dispatch into a closed queue; and it reaches no other
\* than those that listened at some time between the two: a callback may still run
\* after Unlisten has returned, but not for an event that is dispatched later.
ListenersServed ==
    \A j \in Jobs : /\ j \in done => steady[j] \subseteq ran[j]
                    /\ ran[j] \subseteq heard[j]
==============================================================================
