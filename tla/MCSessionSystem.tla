--------------------------- MODULE MCSessionSystem ---------------------------
(***************************************************************************)
(* SessionSystem for TLC.  Turns, schedulers, Celery slots, requests and   *)
(* tip requests are each told apart by name alone, and the properties      *)
(* checked with this symmetry are invariants and a step-by-step refinement.*)
(* Its configuration lets each handler be a request and a purge task       *)
(* (Requester = Purger), so that exchanging handlers changes neither set.  *)
(***************************************************************************)
EXTENDS SessionSystem, TLC

Symmetry ==
  UNION {Permutations(S) : S \in {Turn, Scheduler, Worker, Handler, Advisor}}
=============================================================================
