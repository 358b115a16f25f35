--------------------------- MODULE MCInboxWorker ---------------------------
(***************************************************************************)
(* Instances of InboxWorker. One run explores two scenarios: passes of     *)
(* several pages that restores of the journal cut short, a pass twice too, *)
(* and two failures of calls or of the worker over two items. Liveness is  *)
(* checked, so there is no symmetry to use.                                *)
(***************************************************************************)
EXTENDS InboxWorker

VARIABLE scenario   \* the bounds of this behaviour

Scenarios ==
  {[items |-> 3, faults |-> 1, restores |-> 2],
   [items |-> 2, faults |-> 2, restores |-> 2]}

Within ==
  /\ central.head <= scenario.items
  /\ faults <= scenario.faults
  /\ central.epoch <= scenario.restores + 1

(* The bounds limit arrivals, failures and restores, and never the only    *)
(* step of the worker.                                                     *)
ScenarioSpec ==
  /\ scenario \in Scenarios /\ Init
  /\ [][Next /\ UNCHANGED scenario /\ Within']_<<vars, scenario>>
  /\ WF_vars(Work) /\ SF_vars(Elapse)
=============================================================================
