--------------------------- MODULE MCRegistration ---------------------------
(***************************************************************************)
(* Instances of Registration. One run explores two scenarios: users that   *)
(* ask for one handle while runs are killed and the machine stops, and     *)
(* users that ask for two, with one such failure. Liveness is checked, so  *)
(* there is no symmetry to use.                                            *)
(***************************************************************************)
EXTENDS Registration

VARIABLE scenario   \* the bounds of this behaviour

Scenarios == {[asked |-> {1}, failures |-> 2], [asked |-> {1, 2}, failures |-> 1]}

Within ==
  /\ \A r \in Runs : own[r] # NoFile => own[r].handle \in scenario.asked
  /\ kills + outages <= scenario.failures

(* The bounds limit failures and what users ask for, never another step.   *)
ScenarioSpec ==
  /\ scenario \in Scenarios /\ RegistrationInit
  /\ [][RegistrationNext /\ UNCHANGED scenario /\ Within']_<<allvars, scenario>>
  /\ \A r \in Runs :
       /\ \A f \in Files, n \in Asked : WF_allvars(n \in scenario.asked /\ StartRun(r, f, n))
       /\ RunGoesOn(r)
=============================================================================
