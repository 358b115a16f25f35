----------------------------- MODULE MCServing -----------------------------
(***************************************************************************)
(* Instances of Serving. One run explores several scenarios: three         *)
(* requests for one principal, held polls among them; two requests with    *)
(* mail for two principals; two requests one of whose clients disconnects; *)
(* appends that fail and listeners that stop; and tasks of two dropped     *)
(* requests that have every permit.                                        *)
(***************************************************************************)
EXTENDS Serving

CONSTANT p1

VARIABLE scenario   \* the bounds of this behaviour

Scenario(handlers, principals, polls, limit, expiries, failures) ==
  [handlers |-> handlers, principals |-> principals, polls |-> polls, disconnects |-> limit,
   expiries |-> expiries, failures |-> failures]

(* Polls of each kind: those that wait, and those that do not. *)
Scenarios ==
  {Scenario(3, {p1}, {TRUE}, 0, FALSE, FALSE),
   Scenario(2, Principals, {TRUE}, 0, FALSE, FALSE),
   Scenario(2, {p1}, {TRUE}, 1, TRUE, FALSE),
   Scenario(2, {p1}, BOOLEAN, 0, TRUE, TRUE),
   Scenario(2, {p1}, {}, 2, FALSE, FALSE)}

Busy == {h \in Handlers : req[h].pc # "free"}

FailedAppend(h) == req[h].op = "append" /\ req[h].pc = "returned" /\ ~req[h].found

Within ==
  /\ Cardinality(Busy) <= scenario.handlers
  /\ \A h \in Busy : req[h].who \subseteq scenario.principals
  /\ \A h \in Busy : req[h].kind = "poll" => req[h].waits \in scenario.polls
  /\ disconnects <= scenario.disconnects
  /\ \A h \in Busy : req[h].expired => scenario.expiries
  /\ ~scenario.failures => phase # "closing" /\ \A h \in Busy : ~FailedAppend(h)

(* The bounds limit what clients and failures do, never a step that        *)
(* fairness is about.                                                      *)
ScenarioSpec ==
  /\ scenario \in Scenarios /\ Init
  /\ [][Next /\ UNCHANGED scenario /\ Within']_<<vars, scenario>>
  /\ Fairness
=============================================================================
