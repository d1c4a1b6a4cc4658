------------------------------- MODULE MCQueue -------------------------------
(***************************************************************************)
(* Instances of Queue for TLC.  Workers, buffer slots and jobs are few, but *)
(* enough for a full buffer, for a job that dispatches, for a send between  *)
(* the two closes and for two concurrent calls of Shutdown.                 *)
(***************************************************************************)
EXTENDS Queue, TLC

CONSTANTS j1, j2, j3

MCJobs == {j1, j2, j3}

\* j3 is dispatched by j1 while it executes, the others by handlers.
MCParent == j1 :> External @@ j2 :> External @@ j3 :> j1
==============================================================================
