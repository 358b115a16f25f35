-------------------------- MODULE MCRecoveryAudit --------------------------
(***************************************************************************)
(* Instances of RecoveryAudit for TLC. One run explores several scenarios, *)
(* each with bounds of its own: two processes that race for one database   *)
(* through stops and recoveries, mutations of identities with backups and  *)
(* restores, and posts with backups, restores and a stop anywhere in them. *)
(***************************************************************************)
EXTENDS RecoveryInvariant, TLC

VARIABLE scenario   \* the bounds of this behaviour

Races   == [procs |-> 2, paths |-> 1, rev |-> 2, stops |-> 2, recoveries |-> 2, identity |-> FALSE]
Restore == [procs |-> 1, paths |-> 3, rev |-> 3, stops |-> 0, recoveries |-> 0, identity |-> TRUE]
Stopped == [procs |-> 1, paths |-> 3, rev |-> 2, stops |-> 1, recoveries |-> 1, identity |-> FALSE]

Scenarios == {Races, Restore, Stopped}

UsedPaths == {f \in Paths : central[f] # None} \cup ({aux[p] : p \in Procs} \ {None})

(* Mutations are of identities, or posts. *)
Within ==
  /\ Cardinality({p \in Procs : pc[p] # "down"}) <= scenario.procs
  /\ Cardinality(UsedPaths) <= scenario.paths
  /\ head <= scenario.rev
  /\ stops <= scenario.stops
  /\ recoveries <= scenario.recoveries
  /\ scenario.identity /\ tx # None => tx.content.inbox = Empty.inbox
  /\ ~scenario.identity /\ tx # None => tx.content.grant = Empty.grant /\ tx.content.creds = Empty.creds

ScenarioSpec ==
  /\ scenario \in Scenarios /\ Init
  /\ [][Next /\ UNCHANGED scenario /\ Within']_<<vars, scenario>>

(* Processes are interchangeable, and so are the paths no daemon is        *)
(* configured with.                                                        *)
Symmetry == Permutations(Procs) \cup Permutations(Paths \ Homes)
=============================================================================
