----------------------------- MODULE MCRequests -----------------------------
(***************************************************************************)
(* An instance of Requests for TLC.  Which requests arrive is left open;   *)
(* three are enough for two that race and one that destroys or registers   *)
(* between their steps.                                                    *)
(***************************************************************************)
EXTENDS Requests, TLC

\* Requests, and contexts, differ in nothing but their names.
MCSymmetry == Permutations(Requests) \cup Permutations(Contexts)
==============================================================================
