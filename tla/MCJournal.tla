----------------------------- MODULE MCJournal -----------------------------
(***************************************************************************)
(* Instances of Journal. One run explores four scenarios: two authors who  *)
(* send a post to everybody, and an answer to the first record for bob     *)
(* alone, under one key, by two requests at a time or with a restore; and  *)
(* a reader that pages through the records that alice sends to alice under *)
(* different keys, or through the receipts of those sent to both.          *)
(***************************************************************************)
EXTENDS Journal, TLC

CONSTANTS alice, bob

VARIABLE scenario   \* the bounds of this behaviour

AppendBodies == {[to |-> {alice, bob}, targets |-> {}], [to |-> {bob}, targets |-> {1}]}
PageBodies == {[to |-> {alice}, targets |-> {}]}
StatusBodies == {[to |-> {alice, bob}, targets |-> {}]}
AllBodies == AppendBodies \cup PageBodies

Appends  == [authors |-> {alice, bob}, bodies |-> AppendBodies, handlers |-> 2, keys |-> 1,
             records |-> 2, routes |-> {}, restores |-> 0]
Restores == [authors |-> {alice, bob}, bodies |-> AppendBodies, handlers |-> 1, keys |-> 1,
             records |-> 2, routes |-> {}, restores |-> 1]
Pages    == [authors |-> {alice}, bodies |-> PageBodies, handlers |-> 1, keys |-> 3,
             records |-> 3, routes |-> {"inbox", "records", "search", "ranked"}, restores |-> 1]
Statuses == [authors |-> {alice}, bodies |-> StatusBodies, handlers |-> 1, keys |-> 2,
             records |-> 2, routes |-> {"status"}, restores |-> 1]

Scenarios == {Appends, Restores, Pages, Statuses}

(* The second of three records does not match, and the other two tie; the  *)
(* later of them has the smaller identifier.                               *)
Scores == <<1, 0, 1>>
Places == (1 :> 3) @@ (2 :> 2) @@ (3 :> 1) @@ (alice :> 5) @@ (bob :> 4)

Busy == {h \in Handlers : handler[h] # Idle}

(* Keys are interchangeable, and taken in their order. *)
UsedKeys == {handler[h].req.key : h \in Busy} \cup {k.key : k \in keys \cup backup.keys}

(* Only alice's token is replaced, that of those who neither write nor     *)
(* read is not even revoked, and where there is a reader tokens are        *)
(* replaced only after a restore and answers to appends are lost.          *)
Within ==
  /\ Cardinality(Busy) <= scenario.handlers
  /\ \A h \in Busy : /\ handler[h].req.token[1] \in scenario.authors
                     /\ handler[h].req.body \in scenario.bodies
  /\ UsedKeys \in {1..n : n \in 0..scenario.keys}
  /\ created <= scenario.records
  /\ epoch <= scenario.restores
  /\ scenario.restores = 0 => backup.records = {} /\ live # {}
  /\ \A r \in Readers : reader[r] # Idle =>
       /\ reader[r].route \in scenario.routes
       /\ reader[r].route # "status" => reader[r].by \in scenario.authors
  /\ issued[bob] = 1
  /\ \A p \in Principals \ scenario.authors : epoch = 0 => <<p, 1>> \in live
  /\ scenario.routes # {} => told = {} /\ \A p \in Principals : issued[p] <= 1 + epoch

(* Next, without the readers where there are none. *)
Step ==
  \/ \E h \in Handlers : HandleAppend(h)
  \/ scenario.routes # {} /\ \E r \in Readers : Page(r)
  \/ \E t \in live, i \in mail : Acknowledge(t, i)
  \/ Administer

ScenarioSpec ==
  /\ scenario \in Scenarios /\ Init
  /\ [][Step /\ UNCHANGED scenario /\ Within']_<<vars, scenario>>

(* Requests are interchangeable. *)
Symmetry == Permutations(Handlers)
=============================================================================
