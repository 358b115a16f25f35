-------------------------- MODULE MCInitialization --------------------------
(***************************************************************************)
(* Instances of Initialization.  One run explores two scenarios: three     *)
(* processes that race to open a fresh path, and two that open, use and    *)
(* reopen a database that the operator replaces, aliases or archives.  In  *)
(* both a process is killed or an SQLite call of an initializer fails.     *)
(***************************************************************************)
EXTENDS Initialization

CONSTANTS o1, o2, o3

VARIABLE scenario   \* the bounds of this behaviour

Processes == {o1, o2, o3}

Scenarios ==
  {[openers |-> Processes, stops |-> 1, touches |-> 0, uses |-> FALSE],
   [openers |-> {o1, o2}, stops |-> 1, touches |-> 2, uses |-> TRUE]}

Within ==
  /\ \A o \in Openers \ scenario.openers : pc[o] = "idle"
  /\ kills + faults <= scenario.stops /\ touches <= scenario.touches
  /\ ~scenario.uses => \A o \in Openers : mode[o] # "use"

(* The bounds limit starts, uses and faults, never a step of a process. *)
ScenarioSpec ==
  /\ scenario \in Scenarios /\ Init
  /\ [][Next /\ UNCHANGED scenario /\ Within']_<<vars, scenario>>
  /\ Fairness
=============================================================================
