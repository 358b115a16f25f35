--------------------------- MODULE MCAdminSocket ---------------------------
(* Instances of AdminSocket. *)
EXTENDS AdminSocket, TLC

CONSTANTS d1, d2, d3

Symmetry == Permutations(Daemons)
PendingNames == 1..2
=============================================================================
