----------------------------- MODULE MCIdentity -----------------------------
(***************************************************************************)
(* Instances of Identity. One run explores three scenarios: one principal  *)
(* whose profile is updated by two requests at a time, two principals that *)
(* register, rename and are granted membership, and two principals that    *)
(* register and rename while backups are taken and restored.               *)
(***************************************************************************)
EXTENDS Identity, TLC

CONSTANT h1

VARIABLE scenario   \* the bounds of this behaviour

Profiles  == [handlers |-> Handlers, keys |-> 2, names |-> 2, principals |-> 1, revision |-> 3,
              backups |-> FALSE, grants |-> FALSE]
Granting  == [handlers |-> {h1}, keys |-> 1, names |-> 3, principals |-> 2, revision |-> 2,
              backups |-> FALSE, grants |-> TRUE]
Restoring == [handlers |-> {h1}, keys |-> 1, names |-> 3, principals |-> 2, revision |-> 2,
              backups |-> TRUE, grants |-> FALSE]

Scenarios == {Profiles, Granting, Restoring}

Busy == {h \in Handlers : handler[h] # Idle}

Within ==
  /\ made <= scenario.principals
  /\ \A p \in Ids : revision[p] <= scenario.revision
  /\ \A r \in names : r.name <= scenario.names
  /\ Busy \subseteq scenario.handlers
  /\ \A h \in Busy : /\ handler[h].payload.handle <= scenario.names
                     /\ handler[h].payload.expected < scenario.revision
  /\ Cardinality({handler[h].key : h \in Busy} \cup {r.key : r \in keys}) <= scenario.keys
  /\ granting # Idle => scenario.grants
  /\ backup.names # {} => scenario.backups

ScenarioSpec ==
  /\ scenario \in Scenarios /\ Init
  /\ [][Next /\ UNCHANGED scenario /\ Within']_<<vars, scenario>>

(* Secrets and keys are interchangeable. *)
Symmetry == Permutations(Tokens) \cup Permutations(Keys)
=============================================================================
