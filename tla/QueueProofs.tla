----------------------------- MODULE QueueProofs -----------------------------
(***************************************************************************)
(* Theorems about Queue for any number of workers, callers and jobs and    *)
(* any buffer size: its types, that Shutdown closes each channel once, that *)
(* an accepted job is in exactly one place, and that a Shutdown that       *)
(* returns true has served every job accepted before it.                   *)
(***************************************************************************)
EXTENDS Queue, TLAPS

(* What the two channel operations do to the buffer. *)

LEMMA AppendElems ==
    ASSUME NEW S, NEW s \in Seq(S), NEW e \in S
    PROVE  /\ Append(s, e) \in Seq(S)
           /\ Len(s) \in Nat
           /\ Len(Append(s, e)) = Len(s) + 1
           /\ \A i \in 1..Len(s) : Append(s, e)[i] = s[i]
           /\ Append(s, e)[Len(s) + 1] = e
OBVIOUS

LEMMA TailElems ==
    ASSUME NEW S, NEW s \in Seq(S), s # <<>>
    PROVE  /\ Tail(s) \in Seq(S)
           /\ Len(s) \in Nat \ {0}
           /\ Len(Tail(s)) = Len(s) - 1
           /\ Head(s) = s[1]
           /\ Head(s) \in S
           /\ \A i \in 1..Len(Tail(s)) : Tail(s)[i] = s[i + 1]
OBVIOUS

------------------------------------------------------------------------------
(* Types *)

LEMMA TypeInit == Init => TypeOK
<1> SUFFICES ASSUME Init PROVE TypeOK
    OBVIOUS
<1>1. jobCh \in Seq(Jobs) /\ Len(jobCh) = 0
    BY DEF Init
<1>2. Len(jobCh) \in 0..BufferSize
    BY <1>1, QueueAssumption
<1> QED
    BY <1>1, <1>2 DEF Init, TypeOK, CallState, WorkerState, ShutState

LEMMA TypeNext == TypeOK /\ [Next]_vars => TypeOK'
<1> SUFFICES ASSUME TypeOK, [Next]_vars PROVE TypeOK'
    OBVIOUS
<1> USE QueueAssumption DEF TypeOK, CallState, WorkerState, ShutState, chans, pool
<1>1. ASSUME NEW j \in Jobs, DispatchCheck(j) PROVE TypeOK'
    BY <1>1 DEF DispatchCheck
<1>2. ASSUME NEW j \in Jobs, DispatchSend(j) PROVE TypeOK'
    BY <1>2, AppendElems DEF DispatchSend
<1>3. ASSUME NEW j \in Jobs, DispatchFallback(j) PROVE TypeOK'
    BY <1>3 DEF DispatchFallback
<1>4. ASSUME NEW j \in Jobs, DispatchPanic(j) PROVE TypeOK'
    BY <1>4 DEF DispatchPanic, EndExecution
<1>5. ASSUME NEW j \in Jobs, JobEnd(j) PROVE TypeOK'
    BY <1>5 DEF JobEnd, EndExecution
<1>6. ASSUME NEW w \in Workers, WorkerTake(w) PROVE TypeOK'
    BY <1>6, TailElems DEF WorkerTake
<1>7. ASSUME NEW w \in Workers, WorkerQuit(w) \/ WorkerExit(w) PROVE TypeOK'
    BY <1>7 DEF WorkerQuit, WorkerExit
<1>8. ASSUME NEW s \in Shutters, ShutdownEnter(s) \/ ShutdownStep(s) PROVE TypeOK'
    BY <1>8 DEF ShutdownEnter, ShutdownStep, ShutdownStore, ShutdownCloseQuit,
                ShutdownCloseJobs, ShutdownDrained, ShutdownTimeout
<1>9. CASE UNCHANGED vars
    BY <1>9 DEF vars
<1> QED
    BY <1>1, <1>2, <1>3, <1>4, <1>5, <1>6, <1>7, <1>8, <1>9
       DEF Next, Dispatch, DispatchSelect, Worker

\* Every variable keeps its type; the buffer never exceeds its capacity.
THEOREM QueueType == Spec => []TypeOK
BY TypeInit, TypeNext, PTL DEF Spec

------------------------------------------------------------------------------
(* Shutdown closes each channel once *)

\* The flags and the phases of the Shutdown calls agree: once.Do lets one call
\* into its body, which sets the flags in their order.
ShutdownPhases ==
    /\ once = "new" => ~isClosed /\ ~quitClosed /\ ~jobClosed
    /\ jobClosed => quitClosed
    /\ quitClosed => isClosed
    /\ \A s \in Shutters :
          /\ shut[s] # "panicked"
          /\ shut[s] \in {"store", "closeQuit", "closeJobs"} => once = "busy"
          /\ shut[s] = "store" => ~quitClosed /\ ~jobClosed
          /\ shut[s] = "closeQuit" => isClosed /\ ~quitClosed /\ ~jobClosed
          /\ shut[s] = "closeJobs" => quitClosed /\ ~jobClosed
    /\ \A r, s \in Shutters :
          /\ shut[r] \in {"store", "closeQuit", "closeJobs"}
          /\ shut[s] \in {"store", "closeQuit", "closeJobs"}
          => r = s

LEMMA PhasesInit == Init => ShutdownPhases
BY DEF Init, ShutdownPhases

LEMMA PhasesNext == TypeOK /\ ShutdownPhases /\ [Next]_vars => ShutdownPhases'
<1> SUFFICES ASSUME TypeOK, ShutdownPhases, [Next]_vars PROVE ShutdownPhases'
    OBVIOUS
<1> USE DEF ShutdownPhases, chans
<1>1. shut \in [Shutters -> ShutState]
    BY DEF TypeOK
<1>2. ASSUME NEW s \in Shutters, ShutdownEnter(s) PROVE ShutdownPhases'
    BY <1>1, <1>2 DEF ShutdownEnter
<1>3. ASSUME NEW s \in Shutters, ShutdownStore(s) PROVE ShutdownPhases'
    BY <1>1, <1>3 DEF ShutdownStore
<1>4. ASSUME NEW s \in Shutters, ShutdownCloseQuit(s) PROVE ShutdownPhases'
    BY <1>1, <1>4 DEF ShutdownCloseQuit
<1>5. ASSUME NEW s \in Shutters, ShutdownCloseJobs(s) PROVE ShutdownPhases'
    BY <1>1, <1>5 DEF ShutdownCloseJobs
<1>6. ASSUME NEW s \in Shutters, ShutdownDrained(s) \/ ShutdownTimeout(s)
      PROVE  ShutdownPhases'
    BY <1>1, <1>6 DEF ShutdownDrained, ShutdownTimeout
<1>7. ASSUME UNCHANGED <<chans, shut>> PROVE ShutdownPhases'
    BY <1>7
<1>8. ASSUME NEW j \in Jobs, Dispatch(j) \/ JobEnd(j)
      PROVE  UNCHANGED <<chans, shut>>
    BY <1>8 DEF Dispatch, DispatchSelect, DispatchCheck, DispatchSend,
                DispatchFallback, DispatchPanic, JobEnd
<1>9. ASSUME NEW w \in Workers, Worker(w) PROVE UNCHANGED <<chans, shut>>
    BY <1>9 DEF Worker, WorkerTake, WorkerQuit, WorkerExit
<1> QED
    BY <1>2, <1>3, <1>4, <1>5, <1>6, <1>7, <1>8, <1>9
       DEF Next, ShutdownStep, vars

\* Whatever number of goroutines call Shutdown, quitCh and jobCh are closed in
\* this order and never a second time.
THEOREM ShutdownClosesOnce == Spec => []ClosesOnce
<1>1. Spec => []ShutdownPhases
    BY PhasesInit, PhasesNext, QueueType, PTL DEF Spec
<1>2. ShutdownPhases => ClosesOnce
    BY DEF ShutdownPhases, ClosesOnce
<1> QED
    BY <1>1, <1>2, PTL

------------------------------------------------------------------------------
(* An accepted job is in exactly one place *)

\* A job whose execution has a Dispatch between its two steps is executing, and
\* makes one call at a time.  It is what lets a panicking call end its caller.
CallersExecute ==
    /\ \A j \in Jobs :
          call[j] = "checked" /\ Parent[j] # External => Executing(Parent[j])
    /\ \A j, k \in Jobs :
          /\ call[j] = "checked" /\ call[k] = "checked"
          /\ Parent[j] = Parent[k] /\ Parent[j] # External
          => j = k

LEMMA OnePlaceInit == Init => OnePlace
BY QueueAssumption DEF Init, OnePlace, Buffered, Executing, Held

\* Ending the execution of a job moves it from where it executes to done.
LEMMA EndMoves ==
    ASSUME TypeOK, OnePlace, NEW p \in Jobs, Executing(p), EndExecution(p)
    PROVE  /\ p \in done' /\ ~Executing(p)' /\ ~Buffered(p) /\ call[p] = "accepted"
           /\ \A j \in Jobs \ {p} : /\ Held(j)' <=> Held(j)
                                    /\ j \in fallback' <=> j \in fallback
                                    /\ j \in done' <=> j \in done
           /\ \A v, w \in Workers : held'[v] = held'[w] /\ held'[v] # NoJob => v = w
BY QueueAssumption
   DEF TypeOK, OnePlace, Buffered, Executing, Held, EndExecution

LEMMA OnePlaceNext ==
    TypeOK /\ OnePlace /\ CallersExecute /\ [Next]_vars => OnePlace'
<1> SUFFICES ASSUME TypeOK, OnePlace, CallersExecute, [Next]_vars PROVE OnePlace'
    OBVIOUS
<1> USE QueueAssumption DEF chans, pool
<1>1. ASSUME NEW k \in Jobs, DispatchCheck(k) PROVE OnePlace'
    BY <1>1 DEF DispatchCheck, TypeOK, OnePlace, Buffered, Executing, Held
<1>2. ASSUME NEW k \in Jobs, DispatchSend(k) PROVE OnePlace'
  <2>1. /\ Len(jobCh) \in Nat
        /\ Len(jobCh') = Len(jobCh) + 1
        /\ \A i \in 1..Len(jobCh) : jobCh'[i] = jobCh[i]
        /\ jobCh'[Len(jobCh) + 1] = k
      BY <1>2, AppendElems DEF DispatchSend, TypeOK
  <2>2. ~Buffered(k) /\ ~Executing(k) /\ k \notin done
      BY <1>2 DEF DispatchSend, OnePlace
  <2>3. \A j \in Jobs : Buffered(j)' <=> Buffered(j) \/ j = k
      BY <2>1 DEF Buffered
  <2>4. \A i, l \in 1..Len(jobCh') : jobCh'[i] = jobCh'[l] => i = l
      BY <2>1, <2>2 DEF OnePlace, Buffered
  <2>5. /\ UNCHANGED <<held, fallback, done>>
        /\ call' = [call EXCEPT ![k] = "accepted"]
      BY <1>2 DEF DispatchSend
  <2> QED
      BY <2>2, <2>3, <2>4, <2>5 DEF TypeOK, OnePlace, Executing, Held
<1>3. ASSUME NEW k \in Jobs, DispatchFallback(k) PROVE OnePlace'
    BY <1>3 DEF DispatchFallback, TypeOK, OnePlace, Buffered, Executing, Held
<1>4. ASSUME NEW p \in Jobs, Executing(p), EndExecution(p), UNCHANGED jobCh,
             \A j \in Jobs : call'[j] = "accepted" <=> call[j] = "accepted"
      PROVE  OnePlace'
    BY <1>4, EndMoves DEF OnePlace, Buffered, Executing
<1>5. ASSUME NEW k \in Jobs, DispatchPanic(k) PROVE OnePlace'
  <2>1. \A j \in Jobs : call'[j] = "accepted" <=> call[j] = "accepted"
      BY <1>5 DEF DispatchPanic, TypeOK
  <2>2. CASE Parent[k] = External
      BY <1>5, <2>1, <2>2 DEF DispatchPanic, OnePlace, Buffered, Executing, Held
  <2>3. CASE Parent[k] # External
    <3>1. Parent[k] \in Jobs /\ Executing(Parent[k])
        BY <1>5, <2>3 DEF DispatchPanic, CallersExecute
    <3> QED
        BY <1>5, <2>1, <2>3, <3>1, <1>4 DEF DispatchPanic
  <2> QED
      BY <2>2, <2>3
<1>6. ASSUME NEW k \in Jobs, JobEnd(k) PROVE OnePlace'
    BY <1>6, <1>4 DEF JobEnd
<1>7. ASSUME NEW u \in Workers, WorkerTake(u) PROVE OnePlace'
  <2>0. PICK k \in Jobs : k = Head(jobCh)
      BY <1>7, TailElems DEF WorkerTake, TypeOK
  <2>1. /\ Len(jobCh) \in Nat \ {0}
        /\ Len(jobCh') = Len(jobCh) - 1
        /\ k = jobCh[1]
        /\ \A i \in 1..Len(jobCh') : jobCh'[i] = jobCh[i + 1]
      BY <1>7, <2>0, TailElems DEF WorkerTake, TypeOK
  <2>11. Buffered(k)
      BY <2>1 DEF Buffered
  <2>2. ~Executing(k) /\ k \notin done /\ call[k] = "accepted"
      BY <2>11 DEF OnePlace
  <2>3. ~Buffered(k)'
      BY <2>1 DEF OnePlace, Buffered
  <2>4. \A j \in Jobs \ {k} : Buffered(j)' <=> Buffered(j)
    <3> SUFFICES ASSUME NEW j \in Jobs \ {k} PROVE Buffered(j)' <=> Buffered(j)
        OBVIOUS
    <3>1. Buffered(j)' => Buffered(j)
        BY <2>1 DEF Buffered
    <3>2. ASSUME NEW i \in 1..Len(jobCh), jobCh[i] = j PROVE Buffered(j)'
      <4>1. i - 1 \in 1..Len(jobCh') /\ jobCh'[i - 1] = j
          BY <2>1, <3>2
      <4> QED
          BY <4>1 DEF Buffered
    <3> QED
        BY <3>1, <3>2 DEF Buffered
  <2>5. \A i, l \in 1..Len(jobCh') : jobCh'[i] = jobCh'[l] => i = l
    <3> SUFFICES ASSUME NEW i \in 1..Len(jobCh'), NEW l \in 1..Len(jobCh'),
                        jobCh'[i] = jobCh'[l]
                 PROVE  i = l
        OBVIOUS
    <3>1. /\ i + 1 \in 1..Len(jobCh) /\ l + 1 \in 1..Len(jobCh)
          /\ jobCh[i + 1] = jobCh[l + 1]
        BY <2>1
    <3>2. i + 1 = l + 1
        BY <3>1 DEF OnePlace
    <3> QED
        BY <3>2, <2>1
  <2>6. /\ held[u] = NoJob /\ held' = [held EXCEPT ![u] = k]
        /\ UNCHANGED <<call, fallback, done>>
      BY <1>7, <2>0 DEF WorkerTake
  <2>7. /\ \A j \in Jobs : Held(j)' <=> Held(j) \/ j = k
        /\ \A v, w \in Workers : held'[v] = held'[w] /\ held'[v] # NoJob => v = w
      BY <2>1, <2>2, <2>6 DEF TypeOK, OnePlace, Executing, Held
  <2>8. \A j \in Jobs :
           /\ Buffered(j)' <=> Buffered(j) /\ j # k
           /\ Executing(j)' <=> Executing(j) \/ j = k
      BY <2>1, <2>3, <2>4, <2>6, <2>7 DEF Executing
  <2> QED
      BY <2>2, <2>5, <2>6, <2>7, <2>8, <2>11 DEF OnePlace, Executing
<1>8. ASSUME UNCHANGED <<jobCh, held, fallback, done, call>> PROVE OnePlace'
    BY <1>8 DEF OnePlace, Buffered, Executing, Held
<1>9. ASSUME NEW w \in Workers, WorkerQuit(w) \/ WorkerExit(w) PROVE OnePlace'
    BY <1>8, <1>9 DEF WorkerQuit, WorkerExit
<1>10. ASSUME NEW s \in Shutters, ShutdownEnter(s) \/ ShutdownStep(s) PROVE OnePlace'
    BY <1>8, <1>10
       DEF ShutdownEnter, ShutdownStep, ShutdownStore, ShutdownCloseQuit,
           ShutdownCloseJobs, ShutdownDrained, ShutdownTimeout
<1>11. CASE UNCHANGED vars
    BY <1>8, <1>11 DEF vars
<1> QED
    BY <1>1, <1>2, <1>3, <1>5, <1>6, <1>7, <1>9, <1>10, <1>11
       DEF Next, Dispatch, DispatchSelect, Worker

LEMMA CallersInit == Init => CallersExecute
BY DEF Init, CallersExecute

LEMMA CallersNext ==
    TypeOK /\ OnePlace /\ CallersExecute /\ [Next]_vars => CallersExecute'
<1> SUFFICES ASSUME TypeOK, OnePlace, CallersExecute, [Next]_vars PROVE CallersExecute'
    OBVIOUS
<1> USE QueueAssumption DEF chans, pool
<1>1. ASSUME NEW k \in Jobs, DispatchCheck(k) PROVE CallersExecute'
    BY <1>1 DEF DispatchCheck, TypeOK, CallersExecute, Calling, Executing, Held
<1>2. ASSUME NEW k \in Jobs, DispatchSend(k) \/ DispatchFallback(k)
      PROVE  CallersExecute'
  <2>1. CASE DispatchSend(k)
      BY <2>1 DEF DispatchSend, TypeOK, CallersExecute, Executing, Held
  <2>2. CASE DispatchFallback(k)
      BY <2>2 DEF DispatchFallback, TypeOK, CallersExecute, Executing, Held
  <2> QED
      BY <1>2, <2>1, <2>2
<1>3. ASSUME NEW k \in Jobs, DispatchPanic(k) PROVE CallersExecute'
  <2>1. \A j \in Jobs : call'[j] = "checked" => call[j] = "checked" /\ j # k
      BY <1>3 DEF DispatchPanic, TypeOK
  <2>2. CASE Parent[k] = External
      BY <1>3, <2>1, <2>2 DEF DispatchPanic, CallersExecute, Executing, Held
  <2>3. CASE Parent[k] # External
    <3>1. Parent[k] \in Jobs /\ Executing(Parent[k]) /\ EndExecution(Parent[k])
        BY <1>3, <2>3 DEF DispatchPanic, CallersExecute
    <3>2. \A j \in Jobs \ {Parent[k]} : Executing(j)' <=> Executing(j)
        BY <3>1, EndMoves DEF Executing
    <3>3. \A j \in Jobs : call'[j] = "checked" => Parent[j] # Parent[k]
        BY <1>3, <2>1, <2>3 DEF DispatchPanic, CallersExecute
    <3> QED
        BY <2>1, <3>2, <3>3 DEF CallersExecute
  <2> QED
      BY <2>2, <2>3
<1>4. ASSUME NEW p \in Jobs, JobEnd(p) PROVE CallersExecute'
  <2>1. \A j \in Jobs \ {p} : Executing(j)' <=> Executing(j)
      BY <1>4, EndMoves DEF JobEnd, Executing
  <2>2. \A j \in Jobs : call[j] = "checked" => Parent[j] # p
      BY <1>4 DEF JobEnd, Calling
  <2>3. UNCHANGED call
      BY <1>4 DEF JobEnd
  <2> QED
      BY <2>1, <2>2, <2>3 DEF CallersExecute
<1>5. ASSUME NEW w \in Workers, WorkerTake(w) PROVE CallersExecute'
  <2>1. \A j \in Jobs : Executing(j) => Executing(j)'
      BY <1>5 DEF WorkerTake, TypeOK, Executing, Held
  <2> QED
      BY <1>5, <2>1 DEF WorkerTake, CallersExecute
<1>6. ASSUME UNCHANGED <<held, fallback, call>> PROVE CallersExecute'
    BY <1>6 DEF CallersExecute, Executing, Held
<1>7. ASSUME NEW w \in Workers, WorkerQuit(w) \/ WorkerExit(w)
      PROVE  CallersExecute'
    BY <1>6, <1>7 DEF WorkerQuit, WorkerExit
<1>8. ASSUME NEW s \in Shutters, ShutdownEnter(s) \/ ShutdownStep(s)
      PROVE  CallersExecute'
    BY <1>6, <1>8
       DEF ShutdownEnter, ShutdownStep, ShutdownStore, ShutdownCloseQuit,
           ShutdownCloseJobs, ShutdownDrained, ShutdownTimeout
<1>9. CASE UNCHANGED vars
    BY <1>6, <1>9 DEF vars
<1> QED
    BY <1>1, <1>2, <1>3, <1>4, <1>5, <1>7, <1>8, <1>9
       DEF Next, Dispatch, DispatchSelect, Worker

\* No job is lost between the channel and the goroutines that take from it, and
\* none is executed twice.
THEOREM AcceptedJobInOnePlace == Spec => []OnePlace
<1>1. Spec => [](OnePlace /\ CallersExecute)
    BY OnePlaceInit, OnePlaceNext, CallersInit, CallersNext, QueueType, PTL DEF Spec
<1> QED
    BY <1>1, PTL

------------------------------------------------------------------------------
(* A Shutdown that returns true has served the early jobs *)

\* Workers leave their loop only after quitCh is closed and with nothing in
\* hand, and the first to leave finds the buffer empty: what is in the buffer
\* while some worker has left was sent after the close.
WorkersServe ==
    /\ \A w \in Workers :
          /\ wpc[w] # "select" => quitClosed
          /\ wpc[w] = "exited" => held[w] = NoJob
          /\ wpc[w] = "exited" => \A j \in Jobs : Buffered(j) => j \in late
    /\ \A s \in Shutters : shut[s] = "drained" => \A w \in Workers : wpc[w] = "exited"

LEMMA ServeInit == Init => WorkersServe
BY DEF Init, WorkersServe

LEMMA ServeNext ==
    TypeOK /\ ShutdownPhases /\ WorkersServe /\ [Next]_vars => WorkersServe'
<1> SUFFICES ASSUME TypeOK, ShutdownPhases, WorkersServe, [Next]_vars
             PROVE  WorkersServe'
    OBVIOUS
<1> USE QueueAssumption DEF chans, pool
<1>1. ASSUME NEW k \in Jobs, DispatchSend(k) PROVE WorkersServe'
  <2>1. \A j \in Jobs : Buffered(j)' => Buffered(j) \/ j = k
      BY <1>1, AppendElems DEF DispatchSend, TypeOK, Buffered
  <2>2. late \subseteq late' /\ (quitClosed => k \in late')
      BY <1>1 DEF DispatchSend
  <2> QED
      BY <1>1, <2>1, <2>2 DEF DispatchSend, WorkersServe
<1>2. ASSUME NEW p \in Jobs, EndExecution(p), UNCHANGED <<chans, jobCh, shut, late>>
      PROVE  WorkersServe'
    BY <1>2 DEF EndExecution, TypeOK, WorkersServe, Buffered
<1>3. ASSUME UNCHANGED <<chans, jobCh, wpc, held, shut, late>> PROVE WorkersServe'
    BY <1>3 DEF WorkersServe, Buffered
<1>4. ASSUME NEW k \in Jobs, Dispatch(k) \/ JobEnd(k) PROVE WorkersServe'
  <2>1. CASE DispatchCheck(k) \/ DispatchFallback(k)
      BY <1>3, <2>1 DEF DispatchCheck, DispatchFallback
  <2>2. CASE DispatchPanic(k)
      BY <1>2, <1>3, <2>2 DEF DispatchPanic
  <2>3. CASE JobEnd(k)
      BY <1>2, <2>3 DEF JobEnd
  <2> QED
      BY <1>1, <1>4, <2>1, <2>2, <2>3 DEF Dispatch, DispatchSelect
<1>5. ASSUME NEW w \in Workers, WorkerTake(w) PROVE WorkersServe'
  <2>1. \A j \in Jobs : Buffered(j)' => Buffered(j)
      BY <1>5, TailElems DEF WorkerTake, TypeOK, Buffered
  <2> QED
      BY <1>5, <2>1 DEF WorkerTake, TypeOK, WorkersServe
<1>6. ASSUME NEW w \in Workers, WorkerQuit(w) PROVE WorkersServe'
    BY <1>6 DEF WorkerQuit, TypeOK, WorkersServe, Buffered
<1>7. ASSUME NEW w \in Workers, WorkerExit(w) PROVE WorkersServe'
  <2>1. \A j \in Jobs : ~Buffered(j)'
      BY <1>7 DEF WorkerExit, Buffered
  <2> QED
      BY <1>7, <2>1 DEF WorkerExit, TypeOK, WorkersServe, ShutdownPhases
<1>8. ASSUME NEW s \in Shutters, ShutdownEnter(s) \/ ShutdownStep(s)
      PROVE  WorkersServe'
    BY <1>8
       DEF ShutdownEnter, ShutdownStep, ShutdownStore, ShutdownCloseQuit,
           ShutdownCloseJobs, ShutdownDrained, ShutdownTimeout, TypeOK,
           WorkersServe, Buffered
<1>9. CASE UNCHANGED vars
    BY <1>3, <1>9 DEF vars
<1> QED
    BY <1>4, <1>5, <1>6, <1>7, <1>8, <1>9 DEF Next, Worker

\* When Shutdown returns true, every job that Dispatch accepted has ended, save
\* those in fallback goroutines and those sent after quitCh was closed.
THEOREM DrainedShutdownServes == Spec => []DrainedServesEarlyJobs
<1>1. Spec => [](TypeOK /\ OnePlace /\ WorkersServe)
    BY QueueType, AcceptedJobInOnePlace, ServeInit, ServeNext, PhasesInit,
       PhasesNext, PTL DEF Spec
<1>2. TypeOK /\ OnePlace /\ WorkersServe => DrainedServesEarlyJobs
    BY QueueAssumption
       DEF OnePlace, WorkersServe, DrainedServesEarlyJobs, Executing, Held
<1> QED
    BY <1>1, <1>2, PTL

------------------------------------------------------------------------------
(* Queue implements JobPool *)

\* Where the jobs stand after a step, from where they stood before it: the
\* predicates StatusOf is built from change for job k alone.
OthersKeepStatus(k) ==
    \A j \in Jobs \ {k} : StatusOf(j)' = StatusOf(j)

LEMMA StatusUpdate ==
    ASSUME NEW k \in Jobs, NEW v, OthersKeepStatus(k), StatusOf(k)' = v
    PROVE  [j \in Jobs |-> StatusOf(j)]'
              = [[j \in Jobs |-> StatusOf(j)] EXCEPT ![k] = v]
BY DEF OthersKeepStatus

LEMMA StatusSame ==
    ASSUME UNCHANGED <<jobCh, held, fallback, done, call>>
    PROVE  UNCHANGED [j \in Jobs |-> StatusOf(j)]
BY DEF StatusOf, Buffered, Executing, Held

LEMMA ImplementsInit == Init => Pool!Init
BY QueueAssumption DEF Init, Pool!Init, StatusOf, Buffered, Executing, Held

LEMMA ImplementsNext ==
    /\ TypeOK /\ OnePlace /\ CallersExecute /\ ShutdownPhases /\ [Next]_vars
    => [Pool!Next]_(Pool!vars)
<1> SUFFICES ASSUME TypeOK, OnePlace, CallersExecute, ShutdownPhases, [Next]_vars
             PROVE  Pool!Next \/ UNCHANGED Pool!vars
    OBVIOUS
<1> USE QueueAssumption DEF chans, pool
<1>0. \A j \in Jobs :
         /\ StatusOf(j) = "new" <=> call[j] \in {"idle", "checked"}
         /\ StatusOf(j) = "queued" <=> Buffered(j)
         /\ StatusOf(j) = "running" <=> Executing(j)
    BY DEF StatusOf, TypeOK, CallState, OnePlace
<1>1. ASSUME NEW k \in Jobs, DispatchCheck(k)
      PROVE  Pool!Next \/ UNCHANGED Pool!vars
  <2>1. /\ \A j \in Jobs : /\ Buffered(j)' <=> Buffered(j)
                           /\ Executing(j)' <=> Executing(j)
        /\ UNCHANGED <<done, isClosed>>
        /\ call[k] = "idle" /\ StatusOf(k) = "new"
        /\ call' = [call EXCEPT ![k] = IF isClosed THEN "refused" ELSE "checked"]
      BY <1>0, <1>1 DEF DispatchCheck, Buffered, Executing, Held
  <2>2. OthersKeepStatus(k)
      BY <2>1 DEF OthersKeepStatus, StatusOf, TypeOK
  <2>3. ~Buffered(k) /\ ~Executing(k) /\ k \notin done
      BY <2>1 DEF OnePlace
  <2>4. StatusOf(k)' = IF isClosed THEN "refused" ELSE "new"
      BY <2>1, <2>3 DEF StatusOf, TypeOK
  <2>5. CASE isClosed
    <3>1. Pool!Reject(k)
        BY <2>1, <2>2, <2>4, <2>5, StatusUpdate DEF Pool!Reject, Pool!Become
    <3> QED
        BY <3>1 DEF Pool!Next
  <2>6. CASE ~isClosed
    <3>1. UNCHANGED [j \in Jobs |-> StatusOf(j)]
        BY <2>1, <2>2, <2>4, <2>6 DEF OthersKeepStatus
    <3> QED
        BY <2>1, <3>1 DEF Pool!vars
  <2> QED
      BY <2>5, <2>6
<1>2. ASSUME NEW k \in Jobs, DispatchSend(k) PROVE Pool!Next
  <2>1. \A j \in Jobs : Buffered(j)' <=> Buffered(j) \/ j = k
      BY <1>2, AppendElems DEF DispatchSend, TypeOK, Buffered
  <2>2. /\ \A j \in Jobs : Executing(j)' <=> Executing(j)
        /\ UNCHANGED <<done, isClosed>>
        /\ call[k] = "checked" /\ call' = [call EXCEPT ![k] = "accepted"]
      BY <1>2 DEF DispatchSend, Executing, Held
  <2>3. ~Executing(k) /\ k \notin done
      BY <2>2 DEF OnePlace
  <2>4. OthersKeepStatus(k) /\ StatusOf(k)' = "queued"
      BY <2>1, <2>2, <2>3 DEF OthersKeepStatus, StatusOf, TypeOK
  <2>5. Pool!Accept(k)
      BY <1>0, <2>2, <2>4, StatusUpdate DEF Pool!Accept, Pool!Become
  <2> QED
      BY <2>5 DEF Pool!Next
<1>3. ASSUME NEW k \in Jobs, DispatchFallback(k) PROVE Pool!Next
  <2>1. /\ \A j \in Jobs : /\ Buffered(j)' <=> Buffered(j)
                           /\ Executing(j)' <=> Executing(j) \/ j = k
        /\ UNCHANGED <<done, isClosed>>
        /\ call[k] = "checked" /\ call' = [call EXCEPT ![k] = "accepted"]
      BY <1>3 DEF DispatchFallback, Buffered, Executing, Held
  <2>2. ~Buffered(k) /\ k \notin done
      BY <2>1 DEF OnePlace
  <2>3. OthersKeepStatus(k) /\ StatusOf(k)' = "running"
      BY <2>1, <2>2 DEF OthersKeepStatus, StatusOf, TypeOK
  <2>4. Pool!Accept(k)
      BY <1>0, <2>1, <2>3, StatusUpdate DEF Pool!Accept, Pool!Become
  <2> QED
      BY <2>4 DEF Pool!Next
<1>4. ASSUME NEW k \in Jobs, DispatchPanic(k) PROVE Pool!Next
  <2>1. /\ \A j \in Jobs : Buffered(j)' <=> Buffered(j)
        /\ isClosed /\ UNCHANGED isClosed
        /\ call[k] = "checked" /\ call' = [call EXCEPT ![k] = "panicked"]
      BY <1>4 DEF DispatchPanic, ShutdownPhases, Buffered
  <2>2. ~Buffered(k) /\ ~Executing(k) /\ k \notin done /\ StatusOf(k) = "new"
      BY <1>0, <2>1 DEF OnePlace
  <2>3. CASE Parent[k] = External
    <3>1. /\ \A j \in Jobs : Executing(j)' <=> Executing(j)
          /\ UNCHANGED done
        BY <1>4, <2>3 DEF DispatchPanic, Executing, Held
    <3>2. OthersKeepStatus(k) /\ StatusOf(k)' = "failed"
        BY <2>1, <2>2, <3>1 DEF OthersKeepStatus, StatusOf, TypeOK
    <3>3. Pool!Reject(k)
        BY <2>1, <2>2, <3>2, StatusUpdate DEF Pool!Reject, Pool!Become
    <3> QED
        BY <3>3 DEF Pool!Next
  <2>4. CASE Parent[k] # External
    <3>1. PICK p \in Jobs : p = Parent[k] /\ Executing(p) /\ EndExecution(p)
        BY <1>4, <2>4 DEF DispatchPanic, CallersExecute
    <3>2. /\ p # k /\ ~Executing(k)' /\ k \notin done'
          /\ p \in done' /\ ~Executing(p)' /\ ~Buffered(p) /\ call[p] = "accepted"
          /\ \A j \in Jobs \ {p} : /\ Executing(j)' <=> Executing(j)
                                   /\ j \in done' <=> j \in done
        BY <2>2, <3>1, EndMoves DEF Executing
    <3>3. /\ \A j \in Jobs \ {k, p} : StatusOf(j)' = StatusOf(j)
          /\ StatusOf(k)' = "failed"
          /\ StatusOf(p)' = "done"
        BY <2>1, <2>2, <3>2 DEF StatusOf, TypeOK
    <3>4. [j \in Jobs |-> StatusOf(j)]'
             = [[j \in Jobs |-> StatusOf(j)] EXCEPT ![k] = "failed", ![p] = "done"]
        BY <3>2, <3>3
    <3>5. Pool!FailIn(p, k)
        BY <1>0, <2>1, <2>2, <3>1, <3>2, <3>4 DEF Pool!FailIn
    <3> QED
        BY <3>5 DEF Pool!Next
  <2> QED
      BY <2>3, <2>4
<1>5. ASSUME NEW p \in Jobs, JobEnd(p) PROVE Pool!Next
  <2>1. Executing(p) /\ EndExecution(p) /\ UNCHANGED <<jobCh, call, isClosed>>
      BY <1>5 DEF JobEnd
  <2>2. /\ p \in done' /\ ~Executing(p)' /\ ~Buffered(p) /\ call[p] = "accepted"
        /\ \A j \in Jobs \ {p} : /\ Executing(j)' <=> Executing(j)
                                 /\ j \in done' <=> j \in done
      BY <2>1, EndMoves DEF Executing
  <2>3. OthersKeepStatus(p) /\ StatusOf(p)' = "done"
      BY <2>1, <2>2 DEF OthersKeepStatus, StatusOf, Buffered
  <2>4. Pool!Finish(p)
      BY <1>0, <2>1, <2>3, StatusUpdate DEF Pool!Finish, Pool!Become
  <2> QED
      BY <2>4 DEF Pool!Next
<1>6. ASSUME NEW u \in Workers, WorkerTake(u) PROVE Pool!Next
  <2>1. PICK k \in Jobs : /\ k = Head(jobCh)
                          /\ k = jobCh[1] /\ Len(jobCh) \in Nat \ {0}
      BY <1>6, TailElems DEF WorkerTake, TypeOK
  <2>2. Buffered(k)
      BY <2>1 DEF Buffered
  <2>3. k \notin done /\ call[k] = "accepted"
      BY <2>2 DEF OnePlace
  <2>4. \A j \in Jobs : Executing(j)' <=> Executing(j) \/ j = k
      BY <1>6, <2>1 DEF WorkerTake, TypeOK, Executing, Held
  <2>5. \A j \in Jobs \ {k} : Buffered(j)' <=> Buffered(j)
    <3> SUFFICES ASSUME NEW j \in Jobs \ {k} PROVE Buffered(j)' <=> Buffered(j)
        OBVIOUS
    <3>1. /\ Len(jobCh') = Len(jobCh) - 1
          /\ \A i \in 1..Len(jobCh') : jobCh'[i] = jobCh[i + 1]
        BY <1>6, TailElems DEF WorkerTake, TypeOK
    <3>2. Buffered(j)' => Buffered(j)
        BY <2>1, <3>1 DEF Buffered
    <3>3. ASSUME NEW i \in 1..Len(jobCh), jobCh[i] = j PROVE Buffered(j)'
      <4>1. i - 1 \in 1..Len(jobCh') /\ jobCh'[i - 1] = j
          BY <2>1, <3>1, <3>3
      <4> QED
          BY <4>1 DEF Buffered
    <3> QED
        BY <3>2, <3>3 DEF Buffered
  <2>51. ~Buffered(k)'
      BY <1>6, <2>1, TailElems DEF WorkerTake, TypeOK, OnePlace, Buffered
  <2>6. OthersKeepStatus(k) /\ StatusOf(k)' = "running" /\ UNCHANGED isClosed
      BY <1>6, <2>3, <2>4, <2>5, <2>51 DEF WorkerTake, OthersKeepStatus, StatusOf
  <2>7. Pool!Start(k)
      BY <1>0, <2>2, <2>6, StatusUpdate DEF Pool!Start, Pool!Become
  <2> QED
      BY <2>7 DEF Pool!Next
<1>7. ASSUME NEW s \in Shutters, ShutdownStore(s)
      PROVE  Pool!Next \/ UNCHANGED Pool!vars
    BY <1>7, StatusSame DEF ShutdownStore, Pool!Next, Pool!Close, Pool!vars, TypeOK
<1>8. ASSUME UNCHANGED <<isClosed, jobCh, held, fallback, done, call>>
      PROVE  UNCHANGED Pool!vars
    BY <1>8, StatusSame DEF Pool!vars
<1>9. ASSUME NEW w \in Workers, WorkerQuit(w) \/ WorkerExit(w)
      PROVE  UNCHANGED Pool!vars
    BY <1>8, <1>9 DEF WorkerQuit, WorkerExit
<1>10. ASSUME NEW s \in Shutters, ShutdownEnter(s) \/ ShutdownStep(s), ~ShutdownStore(s)
       PROVE  UNCHANGED Pool!vars
    BY <1>8, <1>10
       DEF ShutdownEnter, ShutdownStep, ShutdownCloseQuit, ShutdownCloseJobs,
           ShutdownDrained, ShutdownTimeout
<1>11. CASE UNCHANGED vars
    BY <1>8, <1>11 DEF vars
<1> QED
    BY <1>1, <1>2, <1>3, <1>4, <1>5, <1>6, <1>7, <1>9, <1>10, <1>11
       DEF Next, Dispatch, DispatchSelect, Worker

\* Every behaviour of the queue is one of the pool its callers are promised: a
\* job is answered once, refused or failed only after the pool closed, executed
\* at most once, and only if it was accepted.
THEOREM QueueImplementsJobPool == Spec => ImplementsJobPool
<1>1. Spec => [](TypeOK /\ OnePlace /\ CallersExecute /\ ShutdownPhases)
    BY QueueType, OnePlaceInit, OnePlaceNext, CallersInit, CallersNext, PhasesInit,
       PhasesNext, PTL DEF Spec
<1> QED
    BY <1>1, ImplementsInit, ImplementsNext, PTL DEF Spec, ImplementsJobPool, Pool!Spec
==============================================================================
