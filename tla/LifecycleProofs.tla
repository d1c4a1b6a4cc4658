--------------------------- MODULE LifecycleProofs ---------------------------
(***************************************************************************)
(* Theorems about Lifecycle for any requests, jobs, listeners and workers: *)
(* its types, that no handler meets the shutdown, and what is lost to it.  *)
(*                                                                         *)
(* The invariants of the queue come from QueueProofs: every step of an     *)
(* application is one of its queue, or none, but for DispatchPanic, since  *)
(* executeCallback recovers before executeJob would.                       *)
(***************************************************************************)
EXTENDS Lifecycle, TLAPS

QP == INSTANCE QueueProofs WITH
         Shutters <- {Main},
         Parent   <- [j \in Jobs |-> IF Caller[j] \in Jobs THEN Caller[j] ELSE External]

LEMMA QueueParameters == QP!QueueAssumption
BY LifecycleAssumption DEF QP!QueueAssumption

------------------------------------------------------------------------------
(* The queue of an application *)

\* The instance of Queue in Lifecycle and the one in QueueProofs are the same.
LEMMA SameQueue ==
    /\ Q!TypeOK <=> QP!TypeOK
    /\ Q!Init <=> QP!Init
    /\ \A j \in Jobs : Q!Executing(j) <=> QP!Executing(j)
BY DEF Q!TypeOK, QP!TypeOK, Q!CallState, QP!CallState, Q!WorkerState, QP!WorkerState,
       Q!ShutState, QP!ShutState, Q!Init, QP!Init, Q!Executing, QP!Executing,
       Q!Held, QP!Held

\* What the steps of an application are to its queue.
LEMMA QueueActions ==
    /\ \A j \in Jobs :
          /\ DispatchAsync(j) => QP!DispatchCheck(j)
          /\ DispatchEnd(j) => QP!DispatchSend(j) \/ QP!DispatchFallback(j)
          /\ JobEnd(j) => QP!JobEnd(j)
    /\ \A w \in Workers : WorkerStep(w) => QP!Worker(w)
    /\ QueueShutdown => QP!ShutdownEnter(Main)
    /\ QueueStep => QP!ShutdownStep(Main)
<1> USE DEF Q!chans, QP!chans, Q!pool, QP!pool
<1>1. ASSUME NEW j \in Jobs, DispatchAsync(j) PROVE QP!DispatchCheck(j)
    BY <1>1 DEF DispatchAsync, Q!DispatchCheck, QP!DispatchCheck, Q!Calling, QP!Calling,
                Q!Executing, QP!Executing, Q!Held, QP!Held
<1>2. ASSUME NEW j \in Jobs, DispatchEnd(j)
      PROVE  QP!DispatchSend(j) \/ QP!DispatchFallback(j)
    BY <1>2 DEF DispatchEnd, Q!DispatchSend, QP!DispatchSend, Q!DispatchFallback,
                QP!DispatchFallback
<1>3. ASSUME NEW j \in Jobs, JobEnd(j) PROVE QP!JobEnd(j)
    BY <1>3 DEF JobEnd, Q!JobEnd, QP!JobEnd, Q!Calling, QP!Calling, Q!Executing,
                QP!Executing, Q!Held, QP!Held, Q!EndExecution, QP!EndExecution
<1>4. ASSUME NEW w \in Workers, WorkerStep(w) PROVE QP!Worker(w)
    BY <1>4 DEF WorkerStep, Q!Worker, QP!Worker, Q!WorkerTake, QP!WorkerTake,
                Q!WorkerQuit, QP!WorkerQuit, Q!WorkerExit, QP!WorkerExit
<1>5. QueueShutdown => QP!ShutdownEnter(Main)
    BY DEF QueueShutdown, Q!ShutdownEnter, QP!ShutdownEnter
<1>6. QueueStep => QP!ShutdownStep(Main)
    BY DEF QueueStep, Q!ShutdownStep, QP!ShutdownStep, Q!ShutdownStore,
           QP!ShutdownStore, Q!ShutdownCloseQuit, QP!ShutdownCloseQuit,
           Q!ShutdownCloseJobs, QP!ShutdownCloseJobs, Q!ShutdownDrained,
           QP!ShutdownDrained, Q!ShutdownTimeout, QP!ShutdownTimeout
<1> QED
    BY <1>1, <1>2, <1>3, <1>4, <1>5, <1>6

\* A step that leaves the queue alone.
QueueIdle == UNCHANGED queueVars

LEMMA IdleActions ==
    /\ \A r \in Requests : Accept(r) \/ HandlerQuery(r) \/ HandlerEnd(r) => QueueIdle
    /\ \A cb \in Callbacks : Listen(cb) => QueueIdle
    /\ Unlisten => QueueIdle
    /\ \A j \in Jobs : /\ CopyListeners(j) => QueueIdle
                       /\ \A cb \in Callbacks : Callback(j, cb) => QueueIdle
    /\ ListenError \/ Signal \/ HttpDone \/ HttpTimeout \/ QueueEnd => QueueIdle
    /\ CloseCache \/ CloseDb \/ CloseHub => QueueIdle
BY DEF QueueIdle, Accept, HandlerQuery, HandlerEnd, Listen, Unlisten, CopyListeners,
       Callback, ListenError, Signal, HttpDone, HttpTimeout, QueueEnd, CloseCache,
       CloseDb, CloseHub

LEMMA QueueRefined ==
    ASSUME [Next]_vars
    PROVE  [QP!Next]_(QP!vars) \/ \E j \in Jobs : DispatchPanic(j)
<1>1. ASSUME QueueIdle PROVE UNCHANGED QP!vars
    BY <1>1 DEF QueueIdle, queueVars, QP!vars, QP!chans, QP!pool
<1>2. CASE UNCHANGED vars
    BY <1>1, <1>2 DEF vars, QueueIdle
<1>3. CASE Next
    BY <1>1, <1>3, QueueActions, IdleActions
       DEF Next, QP!Next, QP!Dispatch, QP!DispatchSelect
<1> QED
    BY <1>2, <1>3

\* The invariants of QueueProofs.
QueueInv ==
    QP!TypeOK /\ QP!ShutdownPhases /\ QP!OnePlace /\ QP!CallersExecute /\ QP!WorkersServe

LEMMA QueueInvNext == QueueInv /\ [Next]_vars => QueueInv'
<1> SUFFICES ASSUME QueueInv, [Next]_vars PROVE QueueInv'
    OBVIOUS
<1>1. CASE [QP!Next]_(QP!vars)
    BY <1>1, QueueParameters, QP!TypeNext, QP!PhasesNext, QP!OnePlaceNext, QP!CallersNext,
       QP!ServeNext DEF QueueInv
<1>2. ASSUME NEW j \in Jobs, DispatchPanic(j) PROVE QueueInv'
  <2>1. /\ UNCHANGED <<isClosed, quitClosed, jobClosed, once, jobCh, wpc, held,
                       fallback, done, shut, late>>
        /\ call[j] = "checked" /\ call' = [call EXCEPT ![j] = "panicked"]
      BY <1>2 DEF DispatchPanic
  <2>2. /\ QP!TypeOK'
        /\ \A k \in Jobs : k # j => call'[k] = call[k]
        /\ call'[j] = "panicked"
      BY <2>1 DEF QueueInv, QP!TypeOK, QP!CallState, QP!WorkerState, QP!ShutState
  <2>3. QP!ShutdownPhases'
      BY <2>1 DEF QueueInv, QP!ShutdownPhases
  <2>4. QP!OnePlace'
      BY <2>1, <2>2 DEF QueueInv, QP!OnePlace, QP!Buffered, QP!Executing, QP!Held
  <2>5. QP!CallersExecute'
      BY <2>1, <2>2 DEF QueueInv, QP!CallersExecute, QP!Executing, QP!Held
  <2>6. QP!WorkersServe'
      BY <2>1 DEF QueueInv, QP!WorkersServe, QP!Buffered
  <2> QED
      BY <2>2, <2>3, <2>4, <2>5, <2>6 DEF QueueInv
<1> QED
    BY <1>1, <1>2, QueueRefined

LEMMA QueueInvariant == Spec => []QueueInv
<1>1. Init => QueueInv
    BY QueueParameters, SameQueue, QP!TypeInit, QP!PhasesInit, QP!OnePlaceInit,
       QP!CallersInit, QP!ServeInit DEF Init, QueueInv
<1> QED
    BY <1>1, QueueInvNext, PTL DEF Spec

\* What Queue promises by itself it also promises in an application, whose jobs go on
\* after a Dispatch of theirs has panicked: the channels are closed once and in order,
\* an accepted job is in one place, and a clean drain has served the early ones.
THEOREM QueueKeepsItsPromises ==
    Spec => [](Q!ClosesOnce /\ Q!OnePlace /\ Q!DrainedServesEarlyJobs)
<1>1. QueueInv => Q!ClosesOnce
    BY DEF QueueInv, QP!ShutdownPhases, Q!ClosesOnce
<1>2. QueueInv => Q!OnePlace
    BY DEF QueueInv, QP!OnePlace, QP!Buffered, QP!Executing, QP!Held, Q!OnePlace,
           Q!Buffered, Q!Executing, Q!Held
<1>3. QueueInv => Q!DrainedServesEarlyJobs
    BY QueueParameters
       DEF QP!QueueAssumption, QueueInv, QP!OnePlace, QP!WorkersServe, QP!Executing,
           QP!Held, Q!DrainedServesEarlyJobs
<1> QED
    BY <1>1, <1>2, <1>3, QueueInvariant, PTL

------------------------------------------------------------------------------
(* Types *)

LEMMA TypeInit == Init => TypeOK
<1> SUFFICES ASSUME Init PROVE TypeOK
    OBVIOUS
<1>1. Q!TypeOK
    BY SameQueue, QueueParameters, QP!TypeInit DEF Init
<1> QED
    BY <1>1 DEF Init, TypeOK

\* The caller of a call that a callback makes is a job.
LEMMA CallerType == \A j \in Jobs : Caller[j] \in Requests \/ Caller[j] \in Jobs
BY LifecycleAssumption

LEMMA TypeNext == TypeOK /\ QueueInv /\ [Next]_vars => TypeOK'
<1> SUFFICES ASSUME TypeOK, QueueInv, [Next]_vars PROVE TypeOK'
    OBVIOUS
<1>q. Q!TypeOK'
    BY QueueInvNext, SameQueue DEF QueueInv, Q!TypeOK, QP!TypeOK, Q!CallState,
       QP!CallState, Q!WorkerState, QP!WorkerState, Q!ShutState, QP!ShutState
<1>t. QP!TypeOK'
    BY QueueInvNext DEF QueueInv
<1> USE DEF appVars, eventVars
<1>1. ASSUME NEW r \in Requests, Accept(r) \/ HandlerQuery(r) \/ HandlerEnd(r)
      PROVE  TypeOK'
    BY <1>1, <1>q DEF TypeOK, Accept, HandlerQuery, HandlerEnd, Query
<1>2. ASSUME NEW cb \in Callbacks, Listen(cb) PROVE TypeOK'
    BY <1>2, <1>q DEF TypeOK, Listen
<1>3. CASE Unlisten
    BY <1>3, <1>q DEF TypeOK, Unlisten
<1>4. ASSUME NEW j \in Jobs, DispatchAsync(j) \/ JobEnd(j) \/ CopyListeners(j)
      PROVE  TypeOK'
    BY <1>4, <1>q DEF TypeOK, DispatchAsync, JobEnd, CopyListeners
<1>5. ASSUME NEW j \in Jobs, DispatchEnd(j) PROVE TypeOK'
  <2>1. fallback' \in SUBSET Jobs
      BY <1>t DEF QP!TypeOK
  <2> QED
      BY <1>5, <1>q, <2>1 DEF TypeOK, DispatchEnd
<1>6. ASSUME NEW j \in Jobs, DispatchPanic(j) PROVE TypeOK'
    BY <1>6, <1>q, CallerType DEF TypeOK, DispatchPanic
<1>7. ASSUME NEW j \in Jobs, NEW cb \in Callbacks, Callback(j, cb) PROVE TypeOK'
    BY <1>7, <1>q DEF TypeOK, Callback, Query
<1>8. ASSUME NEW w \in Workers, WorkerStep(w) PROVE TypeOK'
    BY <1>8, <1>q DEF TypeOK, WorkerStep
<1>9. CASE ListenError \/ Signal \/ HttpDone \/ HttpTimeout
    BY <1>9, <1>q DEF TypeOK, ListenError, Signal, HttpDone, HttpTimeout, Goto, Close
<1>10. CASE QueueShutdown \/ QueueStep \/ QueueEnd
    BY <1>10, <1>q DEF TypeOK, QueueShutdown, QueueStep, QueueEnd, Goto, Close
<1>11. CASE CloseCache \/ CloseDb \/ CloseHub
    BY <1>11, <1>q DEF TypeOK, CloseCache, CloseDb, CloseHub, Goto, Close
<1>12. CASE UNCHANGED vars
    BY <1>12, <1>q DEF TypeOK, vars
<1> QED
    BY <1>1, <1>2, <1>3, <1>4, <1>5, <1>6, <1>7, <1>8, <1>9, <1>10, <1>11, <1>12
       DEF Next

\* Every variable keeps its type, those of the queue under an application included.
THEOREM LifecycleType == Spec => []TypeOK
BY TypeInit, TypeNext, QueueInvariant, PTL DEF Spec

------------------------------------------------------------------------------
(* The order of GracefulShutdown *)

\* A handler runs only until srv.Shutdown returns, the queue is closed after that,
\* and the database when Queue.Shutdown has returned; a handler that is in a call of
\* Dispatch is running; and whoever is in a fallback goroutine has spilled.
ShutdownOrder ==
    /\ Running # {} => app \in {"serving", "http", "exited"}
    /\ app \in {"serving", "http"} => ~isClosed
    /\ "db" \notin open => app \in {"hub", "exited"}
    /\ app \in {"cache", "db", "hub"} => shut[Main] \in {"drained", "timedOut"}
    /\ app = "exited" => result = "error" \/ shut[Main] \in {"drained", "timedOut"}
    /\ \A j \in Jobs : Caller[j] \in Requests /\ call[j] = "checked" =>
                          req[Caller[j]] = "running"
    /\ fallback \subseteq spilled

LEMMA OrderInit == Init => ShutdownOrder
BY DEF Init, Q!Init, ShutdownOrder, Running, Parts

LEMMA OrderNext == TypeOK /\ QueueInv /\ ShutdownOrder /\ [Next]_vars => ShutdownOrder'
<1> SUFFICES ASSUME TypeOK, QueueInv, ShutdownOrder, [Next]_vars PROVE ShutdownOrder'
    OBVIOUS
<1> USE DEF appVars, eventVars, queueVars
<1>t. /\ req \in [Requests -> {"new", "running", "done"}]
      /\ call \in [Jobs -> QP!CallState] /\ shut \in [{Main} -> QP!ShutState]
    BY DEF TypeOK, QueueInv, QP!TypeOK
<1>1. ASSUME NEW r \in Requests, Accept(r) PROVE ShutdownOrder'
    BY <1>1, <1>t DEF Accept, ShutdownOrder, Running
<1>2. ASSUME NEW r \in Requests, HandlerQuery(r) PROVE ShutdownOrder'
    BY <1>2 DEF HandlerQuery, ShutdownOrder, Running
<1>3. ASSUME NEW r \in Requests, HandlerEnd(r) PROVE ShutdownOrder'
    BY <1>3, <1>t DEF HandlerEnd, ShutdownOrder, Running
<1>4. CASE Unlisten \/ \E cb \in Callbacks : Listen(cb)
    BY <1>4 DEF Listen, Unlisten, ShutdownOrder, Running
<1>5. ASSUME NEW j \in Jobs, DispatchAsync(j) PROVE ShutdownOrder'
  <2>1. /\ UNCHANGED <<app, result, open, req, spilled, isClosed, shut, fallback>>
        /\ \A k \in Jobs : k # j => call'[k] = call[k]
      BY <1>5, <1>t DEF DispatchAsync, Q!DispatchCheck, Q!chans, Q!pool
  <2>2. Caller[j] \in Requests => req[Caller[j]] = "running"
      BY <1>5 DEF DispatchAsync, MayCall
  <2> QED
      BY <2>1, <2>2 DEF ShutdownOrder, Running
<1>6. ASSUME NEW j \in Jobs, DispatchEnd(j) PROVE ShutdownOrder'
  <2>1. /\ UNCHANGED <<app, result, open, req, isClosed, shut>>
        /\ \A k \in Jobs : call'[k] = "checked" => call[k] = "checked"
        /\ fallback' \subseteq spilled'
      BY <1>6, <1>t
         DEF DispatchEnd, Q!DispatchSend, Q!DispatchFallback, Q!chans, Q!pool, ShutdownOrder
  <2> QED
      BY <2>1 DEF ShutdownOrder, Running
<1>7. ASSUME NEW j \in Jobs, DispatchPanic(j) PROVE ShutdownOrder'
    BY <1>7, <1>t DEF DispatchPanic, ShutdownOrder, Running
<1>8. ASSUME NEW j \in Jobs, CopyListeners(j) PROVE ShutdownOrder'
    BY <1>8 DEF CopyListeners, ShutdownOrder, Running
<1>9. ASSUME NEW j \in Jobs, NEW cb \in Callbacks, Callback(j, cb) PROVE ShutdownOrder'
    BY <1>9 DEF Callback, ShutdownOrder, Running
<1>10. ASSUME NEW j \in Jobs, JobEnd(j) PROVE ShutdownOrder'
    BY <1>10 DEF JobEnd, Q!JobEnd, Q!EndExecution, Q!chans, ShutdownOrder, Running
<1>11. ASSUME NEW w \in Workers, WorkerStep(w) PROVE ShutdownOrder'
    BY <1>11 DEF WorkerStep, Q!Worker, Q!WorkerTake, Q!WorkerQuit, Q!WorkerExit, Q!chans,
                 ShutdownOrder, Running
<1>12. CASE ListenError \/ Signal \/ HttpDone \/ HttpTimeout
    BY <1>12 DEF ListenError, Signal, HttpDone, HttpTimeout, Goto, Close, ShutdownOrder,
                 Running
<1>13. CASE QueueShutdown \/ QueueStep
  <2>1. /\ app \in {"queue", "draining"} /\ app' = "draining"
        /\ UNCHANGED <<open, req, spilled, call, fallback, result>>
      BY <1>13 DEF QueueShutdown, QueueStep, Goto, Q!ShutdownEnter, Q!ShutdownStep,
                   Q!ShutdownStore, Q!ShutdownCloseQuit, Q!ShutdownCloseJobs,
                   Q!ShutdownDrained, Q!ShutdownTimeout, Q!chans, Q!pool
  <2> QED
      BY <2>1 DEF ShutdownOrder, Running
<1>14. CASE QueueEnd \/ CloseCache \/ CloseDb \/ CloseHub
    BY <1>14 DEF QueueEnd, CloseCache, CloseDb, CloseHub, Goto, Close, ShutdownOrder,
                 Running
<1>15. CASE UNCHANGED vars
    BY <1>15 DEF vars, ShutdownOrder, Running
<1> QED
    BY <1>1, <1>2, <1>3, <1>4, <1>5, <1>6, <1>7, <1>8, <1>9, <1>10, <1>11, <1>12,
       <1>13, <1>14, <1>15 DEF Next

LEMMA OrderInvariant == Spec => [](TypeOK /\ QueueInv /\ ShutdownOrder)
BY LifecycleType, QueueInvariant, OrderInit, OrderNext, PTL DEF Spec

------------------------------------------------------------------------------
(* No handler meets the shutdown *)

LEMMA HandlersNext ==
    /\ TypeOK /\ QueueInv /\ ShutdownOrder /\ HandlersUndisturbed /\ [Next]_vars
    => HandlersUndisturbed'
<1> SUFFICES ASSUME TypeOK, QueueInv, ShutdownOrder, HandlersUndisturbed, [Next]_vars
             PROVE  HandlersUndisturbed'
    OBVIOUS
<1>t. call \in [Jobs -> QP!CallState]
    BY DEF QueueInv, QP!TypeOK
\* The database is open and the queue takes jobs as long as a handler is running.
<1>r. ASSUME NEW r \in Requests, req[r] = "running", Alive
      PROVE  "db" \in open /\ ~isClosed /\ ~jobClosed
    BY <1>r DEF ShutdownOrder, Running, Alive, QueueInv, QP!ShutdownPhases
<1>1. ASSUME UNCHANGED <<broken, call>> PROVE HandlersUndisturbed'
    BY <1>1 DEF HandlersUndisturbed
<1>2. ASSUME NEW r \in Requests, HandlerQuery(r) PROVE HandlersUndisturbed'
  <2>1. UNCHANGED <<broken, call>>
      BY <1>2, <1>r DEF HandlerQuery, Query, queueVars
  <2> QED
      BY <1>1, <2>1
<1>3. ASSUME NEW j \in Jobs, DispatchAsync(j) PROVE HandlersUndisturbed'
  <2>1. /\ UNCHANGED broken
        /\ call' = [call EXCEPT ![j] = IF isClosed THEN "refused" ELSE "checked"]
      BY <1>3 DEF DispatchAsync, Q!DispatchCheck
  <2>2. Caller[j] \in Requests => ~isClosed
      BY <1>3, <1>r DEF DispatchAsync, MayCall
  <2> QED
      BY <1>t, <2>1, <2>2 DEF HandlersUndisturbed
<1>4. ASSUME NEW j \in Jobs, DispatchEnd(j) PROVE HandlersUndisturbed'
    BY <1>4, <1>t DEF DispatchEnd, Q!DispatchSend, Q!DispatchFallback, HandlersUndisturbed
<1>5. ASSUME NEW j \in Jobs, DispatchPanic(j) PROVE HandlersUndisturbed'
  <2>1. Alive /\ jobClosed /\ call[j] = "checked" /\ UNCHANGED broken
        /\ call' = [call EXCEPT ![j] = "panicked"]
      BY <1>5 DEF DispatchPanic
  <2>2. Caller[j] \notin Requests
      BY <1>r, <2>1 DEF ShutdownOrder
  <2> QED
      BY <1>t, <2>1, <2>2 DEF HandlersUndisturbed
<1>6. ASSUME NEW j \in Jobs, NEW cb \in Callbacks, Callback(j, cb)
      PROVE  HandlersUndisturbed'
  <2>1. broken' \subseteq broken \cup {j} /\ UNCHANGED call
      BY <1>6 DEF Callback, Query, queueVars
  <2>2. j \notin Requests
      BY LifecycleAssumption
  <2> QED
      BY <2>1, <2>2 DEF HandlersUndisturbed
<1>7. ASSUME NEW r \in Requests, Accept(r) \/ HandlerEnd(r) PROVE HandlersUndisturbed'
    BY <1>7, <1>1 DEF Accept, HandlerEnd, queueVars
<1>8. CASE Unlisten \/ \E cb \in Callbacks : Listen(cb)
    BY <1>8, <1>1 DEF Listen, Unlisten, queueVars
<1>9. ASSUME NEW j \in Jobs, CopyListeners(j) \/ JobEnd(j) PROVE HandlersUndisturbed'
    BY <1>9, <1>1 DEF CopyListeners, JobEnd, Q!JobEnd, queueVars
<1>10. ASSUME NEW w \in Workers, WorkerStep(w) PROVE HandlersUndisturbed'
    BY <1>10, <1>1 DEF WorkerStep, Q!Worker, Q!WorkerTake, Q!WorkerQuit, Q!WorkerExit
<1>11. CASE ListenError \/ Signal \/ HttpDone \/ HttpTimeout \/ QueueEnd
    BY <1>11, <1>1 DEF ListenError, Signal, HttpDone, HttpTimeout, QueueEnd, queueVars
<1>12. CASE QueueShutdown \/ QueueStep
    BY <1>12, <1>1
       DEF QueueShutdown, QueueStep, Q!ShutdownEnter, Q!ShutdownStep, Q!ShutdownStore,
           Q!ShutdownCloseQuit, Q!ShutdownCloseJobs, Q!ShutdownDrained,
           Q!ShutdownTimeout
<1>13. CASE CloseCache \/ CloseDb \/ CloseHub
    BY <1>13, <1>1 DEF CloseCache, CloseDb, CloseHub, queueVars
<1>14. CASE UNCHANGED vars
    BY <1>14, <1>1 DEF vars, queueVars
<1> QED
    BY <1>2, <1>3, <1>4, <1>5, <1>6, <1>7, <1>8, <1>9, <1>10, <1>11, <1>12, <1>13, <1>14
       DEF Next

\* No handler uses a closed database, and no event a handler dispatches is refused or
\* makes it panic: srv.Shutdown has waited for the handlers before anything is closed.
THEOREM HandlersMeetNoShutdown == Spec => []HandlersUndisturbed
<1>1. Init => HandlersUndisturbed
    BY DEF Init, Q!Init, HandlersUndisturbed
<1> QED
    BY <1>1, HandlersNext, OrderInvariant, PTL DEF Spec

------------------------------------------------------------------------------
(* Jobs that outlive the queue *)

\* After a clean drain no worker holds a job: whoever still executes has spilled.
LEMMA OnlySpilledOutlive ==
    ASSUME TypeOK, QueueInv, ShutdownOrder, NEW j \in Jobs, Q!Executing(j),
           shut[Main] = "drained"
    PROVE  j \in spilled
<1>1. \A w \in Workers : held[w] = NoJob
    BY DEF QueueInv, QP!WorkersServe
<1>2. j # NoJob
    BY LifecycleAssumption
<1> QED
    BY <1>1, <1>2 DEF Q!Executing, Q!Held, ShutdownOrder

LEMMA ClosedDbNext ==
    /\ TypeOK /\ QueueInv /\ ShutdownOrder /\ ClosedDbUseExplained /\ [Next]_vars
    => ClosedDbUseExplained'
<1> SUFFICES ASSUME TypeOK, QueueInv, ShutdownOrder, ClosedDbUseExplained, [Next]_vars
             PROVE  ClosedDbUseExplained'
    OBVIOUS
<1>1. ASSUME broken' \cap Jobs \subseteq broken, spilled \subseteq spilled',
             shut[Main] = "timedOut" => shut'[Main] = "timedOut"
      PROVE  ClosedDbUseExplained'
    BY <1>1 DEF ClosedDbUseExplained
<1>2. ASSUME NEW r \in Requests, HandlerQuery(r) PROVE ClosedDbUseExplained'
    BY <1>1, <1>2, LifecycleAssumption DEF HandlerQuery, Query, queueVars
<1>3. ASSUME NEW j \in Jobs, NEW cb \in Callbacks, Callback(j, cb)
      PROVE  ClosedDbUseExplained'
  <2>1. /\ Alive /\ Q!Executing(j) /\ UNCHANGED <<shut, spilled>>
        /\ broken' = broken \/ (broken' = broken \cup {j} /\ "db" \notin open)
      BY <1>3 DEF Callback, Query, queueVars
  <2>2. "db" \notin open => shut[Main] \in {"drained", "timedOut"}
      BY <2>1 DEF ShutdownOrder, Alive
  <2> QED
      BY <2>1, <2>2, OnlySpilledOutlive DEF ClosedDbUseExplained
<1>4. ASSUME NEW r \in Requests, Accept(r) \/ HandlerEnd(r) PROVE ClosedDbUseExplained'
    BY <1>4, <1>1 DEF Accept, HandlerEnd, queueVars
<1>5. CASE Unlisten \/ \E cb \in Callbacks : Listen(cb)
    BY <1>5, <1>1 DEF Listen, Unlisten, queueVars
<1>6. ASSUME NEW j \in Jobs, DispatchAsync(j) \/ DispatchEnd(j) \/ DispatchPanic(j)
      PROVE  ClosedDbUseExplained'
    BY <1>6, <1>1 DEF DispatchAsync, DispatchEnd, DispatchPanic, Q!DispatchCheck,
                      Q!DispatchSend, Q!DispatchFallback
<1>7. ASSUME NEW j \in Jobs, CopyListeners(j) \/ JobEnd(j) PROVE ClosedDbUseExplained'
    BY <1>7, <1>1 DEF CopyListeners, JobEnd, Q!JobEnd, queueVars
<1>8. ASSUME NEW w \in Workers, WorkerStep(w) PROVE ClosedDbUseExplained'
    BY <1>8, <1>1 DEF WorkerStep, Q!Worker, Q!WorkerTake, Q!WorkerQuit, Q!WorkerExit
<1>9. CASE ListenError \/ Signal \/ HttpDone \/ HttpTimeout \/ QueueEnd
    BY <1>9, <1>1 DEF ListenError, Signal, HttpDone, HttpTimeout, QueueEnd, queueVars
<1>10. CASE QueueShutdown \/ QueueStep
    BY <1>10, <1>1
       DEF QueueShutdown, QueueStep, Q!ShutdownEnter, Q!ShutdownStep, Q!ShutdownStore,
           Q!ShutdownCloseQuit, Q!ShutdownCloseJobs, Q!ShutdownDrained,
           Q!ShutdownTimeout
<1>11. CASE CloseCache \/ CloseDb \/ CloseHub
    BY <1>11, <1>1 DEF CloseCache, CloseDb, CloseHub, queueVars
<1>12. CASE UNCHANGED vars
    BY <1>12, <1>1 DEF vars, queueVars
<1> QED
    BY <1>2, <1>3, <1>4, <1>5, <1>6, <1>7, <1>8, <1>9, <1>10, <1>11, <1>12 DEF Next

\* Only a job in a fallback goroutine, or any job once Queue.Shutdown has given up
\* waiting, uses the database after GracefulShutdown has closed it.
THEOREM ClosedDbUsers == Spec => []ClosedDbUseExplained
<1>1. Init => ClosedDbUseExplained
    BY DEF Init, ClosedDbUseExplained
<1> QED
    BY <1>1, ClosedDbNext, OrderInvariant, PTL DEF Spec

\* A job that was accepted and is not done when the process ends was lost in one of
\* four ways: Run failed, the drain timed out, the job was in a fallback goroutine, or
\* it was sent between the two closes.
THEOREM UnservedJobs == Spec => []UnservedJobsExplained
<1>1. ShutdownOrder /\ Q!DrainedServesEarlyJobs => UnservedJobsExplained
    BY DEF ShutdownOrder, Q!DrainedServesEarlyJobs, UnservedJobsExplained, Alive
<1> QED
    BY <1>1, OrderInvariant, QueueKeepsItsPromises, PTL

------------------------------------------------------------------------------
(* An event reaches its listeners *)

\* Until a job copies the listeners, those that have been there since its dispatch
\* are still there, all that are there have been heard of, and none has run; from
\* then on each of the first is still to run or has run, and who is still to run or
\* has run has been heard of; and a job that is done has copied them and has none
\* left.
ListenersKept ==
    \A j \in Jobs :
        /\ j \notin copied => /\ steady[j] \subseteq listeners
                              /\ call[j] # "idle" => listeners \subseteq heard[j]
                              /\ targets[j] = {} /\ ran[j] = {}
        /\ j \in copied => /\ steady[j] \subseteq targets[j] \cup ran[j]
                           /\ targets[j] \cup ran[j] \subseteq heard[j]
                           /\ call[j] = "accepted"
        /\ j \in done => j \in copied /\ targets[j] = {}

\* No job is dispatched in this step.
NoNewCall == \A j \in Jobs : call'[j] # "idle" => call[j] # "idle"

\* What a step does to the queue, as far as ListenersKept reads it.
LEMMA CallsAndEnds ==
    ASSUME QueueInv, [Next]_vars
    PROVE  /\ \A j \in Jobs : call[j] = "accepted" => call'[j] = "accepted"
           /\ NoNewCall \/ \E j \in Jobs : DispatchAsync(j)
           /\ UNCHANGED done \/ \E j \in Jobs : JobEnd(j)
<1>t. call \in [Jobs -> QP!CallState]
    BY DEF QueueInv, QP!TypeOK
<1>1. ASSUME NEW j \in Jobs, DispatchAsync(j) \/ DispatchEnd(j) \/ DispatchPanic(j)
      PROVE  /\ \A k \in Jobs : call[k] = "accepted" => call'[k] = "accepted"
             /\ UNCHANGED done
             /\ DispatchAsync(j) \/ NoNewCall
    BY <1>1, <1>t DEF NoNewCall, DispatchAsync, DispatchEnd, DispatchPanic, Q!DispatchCheck,
                      Q!DispatchSend, Q!DispatchFallback, Q!pool
<1>2. ASSUME NEW j \in Jobs, JobEnd(j) PROVE UNCHANGED call
    BY <1>2 DEF JobEnd, Q!JobEnd
<1>3. ASSUME NEW w \in Workers, WorkerStep(w) PROVE UNCHANGED <<call, done>>
    BY <1>3 DEF WorkerStep, Q!Worker, Q!WorkerTake, Q!WorkerQuit, Q!WorkerExit
<1>4. QueueShutdown \/ QueueStep => UNCHANGED <<call, done>>
    BY DEF QueueShutdown, QueueStep, Q!ShutdownEnter, Q!ShutdownStep, Q!ShutdownStore,
           Q!ShutdownCloseQuit, Q!ShutdownCloseJobs, Q!ShutdownDrained,
           Q!ShutdownTimeout, Q!pool
<1>5. QueueIdle \/ UNCHANGED vars => UNCHANGED <<call, done>>
    BY DEF QueueIdle, vars, queueVars
<1>6. UNCHANGED call => NoNewCall
    BY DEF NoNewCall
<1> QED
    BY <1>1, <1>2, <1>3, <1>4, <1>5, <1>6, IdleActions DEF Next

LEMMA ListenersNext ==
    /\ TypeOK /\ QueueInv /\ ListenersKept /\ [Next]_vars
    => ListenersKept'
<1> SUFFICES ASSUME TypeOK, QueueInv, ListenersKept, [Next]_vars PROVE ListenersKept'
    OBVIOUS
<1> USE DEF eventVars
<1>c. \A j \in Jobs : call[j] = "accepted" => call'[j] = "accepted"
    BY CallsAndEnds
<1>d. \A j \in Jobs : j \in done => call[j] = "accepted"
    BY DEF QueueInv, QP!OnePlace
<1>t. call \in [Jobs -> QP!CallState]
    BY DEF QueueInv, QP!TypeOK
\* Such steps change neither the listeners nor the progress of a job.
<1>1. ASSUME UNCHANGED <<eventVars, done>>, NoNewCall PROVE ListenersKept'
    BY <1>1, <1>c DEF ListenersKept, NoNewCall
\* The callback cb of job p, which it has copied, returns or is recovered.
<1>2. ASSUME NEW p \in Jobs, NEW cb \in targets[p],
             targets' = [targets EXCEPT ![p] = @ \ {cb}],
             ran' = [ran EXCEPT ![p] = @ \cup {cb}],
             UNCHANGED <<listeners, copied, steady, heard, done>>, NoNewCall,
             p \in copied
      PROVE  ListenersKept'
  <2>1. \A j \in Jobs : /\ targets'[j] \cup ran'[j] = targets[j] \cup ran[j]
                        /\ targets'[j] \subseteq targets[j]
                        /\ j \notin copied => targets'[j] = targets[j] /\ ran'[j] = ran[j]
      BY <1>2 DEF TypeOK
  <2> QED
      BY <1>2, <1>c, <2>1 DEF ListenersKept, NoNewCall
<1>3. ASSUME NEW cb \in Callbacks, Listen(cb) PROVE ListenersKept'
  <2>1. /\ listeners' = listeners \cup {cb}
        /\ \A j \in Jobs : heard'[j] = IF call[j] # "idle" /\ j \notin copied
                                       THEN heard[j] \cup {cb} ELSE heard[j]
        /\ UNCHANGED <<copied, targets, ran, steady, call, done>>
      BY <1>3 DEF Listen, queueVars
  <2> QED
      BY <2>1 DEF ListenersKept
<1>4. CASE Unlisten
    BY <1>4, <1>c DEF Unlisten, queueVars, ListenersKept
<1>5. ASSUME NEW j \in Jobs, DispatchAsync(j) PROVE ListenersKept'
  <2>1. /\ call[j] = "idle"
        /\ \A k \in Jobs : k # j => call'[k] = call[k] /\ UNCHANGED <<steady[k], heard[k]>>
        /\ steady'[j] = listeners /\ heard'[j] = listeners
        /\ UNCHANGED <<listeners, copied, targets, ran, done>>
      BY <1>5, <1>t DEF DispatchAsync, Q!DispatchCheck, Q!pool, TypeOK
  <2>2. j \notin copied
      BY <2>1 DEF ListenersKept
  <2> QED
      BY <1>c, <2>1, <2>2 DEF ListenersKept
<1>6. ASSUME NEW j \in Jobs, DispatchEnd(j) PROVE ListenersKept'
    BY <1>1, <1>6, <1>t
       DEF DispatchEnd, Q!DispatchSend, Q!DispatchFallback, Q!pool, NoNewCall
<1>7. ASSUME NEW j \in Jobs, DispatchPanic(j) PROVE ListenersKept'
  <2>n. NoNewCall
      BY <1>7, <1>t DEF DispatchPanic, NoNewCall
  <2>1. CASE Caller[j] \in Requests
      BY <1>1, <1>7, <2>n, <2>1 DEF DispatchPanic
  <2>2. CASE Caller[j] \notin Requests
    <3>1. Caller[j] \in Jobs
        BY <2>2, CallerType
    <3>2. PICK cb \in targets[Caller[j]] :
             /\ targets' = [targets EXCEPT ![Caller[j]] = @ \ {cb}]
             /\ ran' = [ran EXCEPT ![Caller[j]] = @ \cup {cb}]
        BY <1>7, <2>2 DEF DispatchPanic
    <3>3. Caller[j] \in copied
        BY <3>1, <3>2 DEF ListenersKept
    <3>4. UNCHANGED <<listeners, copied, steady, heard, done>>
        BY <1>7 DEF DispatchPanic
    <3> QED
        BY <1>2, <2>n, <3>1, <3>2, <3>3, <3>4
  <2> QED
      BY <2>1, <2>2
<1>8. ASSUME NEW j \in Jobs, CopyListeners(j) PROVE ListenersKept'
  <2>1. call[j] = "accepted" /\ j \notin done
      BY <1>8, SameQueue DEF CopyListeners, QueueInv, QP!OnePlace
  <2> QED
      BY <1>8, <1>c, <2>1 DEF CopyListeners, queueVars, ListenersKept, TypeOK
<1>9. ASSUME NEW j \in Jobs, NEW cb \in Callbacks, Callback(j, cb) PROVE ListenersKept'
  <2>1. cb \in targets[j] /\ j \in copied
      BY <1>9 DEF Callback, ListenersKept
  <2> QED
      BY <1>2, <1>9, <2>1 DEF Callback, queueVars, NoNewCall
<1>10. ASSUME NEW j \in Jobs, JobEnd(j) PROVE ListenersKept'
    BY <1>10, <1>c DEF JobEnd, Q!JobEnd, Q!EndExecution, ListenersKept
<1>11. ASSUME UNCHANGED eventVars, ~\E j \in Jobs : JobEnd(j),
              ~\E j \in Jobs : DispatchAsync(j)
       PROVE  ListenersKept'
    BY <1>1, <1>11, CallsAndEnds
<1>12. ASSUME NEW r \in Requests, Accept(r) \/ HandlerQuery(r) \/ HandlerEnd(r)
       PROVE  UNCHANGED eventVars
    BY <1>12 DEF Accept, HandlerQuery, HandlerEnd
<1>13. ASSUME NEW w \in Workers, WorkerStep(w) PROVE UNCHANGED eventVars
    BY <1>13 DEF WorkerStep
<1>14. \/ ListenError \/ Signal \/ HttpDone \/ HttpTimeout
       \/ QueueShutdown \/ QueueStep \/ QueueEnd
       \/ CloseCache \/ CloseDb \/ CloseHub \/ UNCHANGED vars
       => UNCHANGED eventVars
    BY DEF ListenError, Signal, HttpDone, HttpTimeout, QueueShutdown, QueueStep, QueueEnd,
           CloseCache, CloseDb, CloseHub, vars
<1> QED
    BY <1>3, <1>4, <1>5, <1>6, <1>7, <1>8, <1>9, <1>10, <1>11, <1>12, <1>13, <1>14
       DEF Next

\* An event has reached every callback that listened from its dispatch to its end,
\* whatever other callbacks panic and whatever the shutdown refuses them.
THEOREM ListenersAreServed == Spec => []ListenersServed
<1>1. Init => ListenersKept
    BY DEF Init, Q!Init, ListenersKept
<1>2. QueueInv /\ ListenersKept => ListenersServed
    BY DEF QueueInv, QP!TypeOK, ListenersKept, ListenersServed
<1> QED
    BY <1>1, <1>2, ListenersNext, QueueInvariant, LifecycleType, PTL DEF Spec
==============================================================================
