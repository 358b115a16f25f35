----------------------------- MODULE MCHandoff -----------------------------
(***************************************************************************)
(* Instances of the two kinds of runtime behind one contract: a behaviour  *)
(* is one of the drop directory or one of the Runs API.                    *)
(***************************************************************************)
EXTENDS MuseDrop, HermesRuns, TLC

CONSTANTS w1, w2

VARIABLE runtime   \* which runtime this behaviour is of

Symmetry == Permutations({w1, w2})

HandoffInit ==
  /\ DropInit /\ RunsInit /\ runtime \in {"muse", "hermes"}
  /\ runtime = "muse" => ~capable /\ asking = [w \in Clients |-> CHOOSE r \in Requests : TRUE]
  /\ runtime = "hermes" => /\ item = [w \in Publishers |-> CHOOSE i \in Items : TRUE]
                           /\ chat = [w \in Publishers |-> CHOOSE c \in Chats : TRUE]

HandoffSpec ==
  /\ HandoffInit
  /\ [][/\ UNCHANGED runtime
        /\ \/ runtime = "muse" /\ DropNext /\ UNCHANGED runsVars
           \/ runtime = "hermes" /\ RunsNext /\ UNCHANGED dropVars]_<<dropVars, runsVars, runtime>>
=============================================================================
