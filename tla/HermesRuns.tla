----------------------------- MODULE HermesRuns -----------------------------
(***************************************************************************)
(* HermesRuntime: handing an inbox item to the Hermes Runs API.  A client  *)
(* checks health and capabilities before it is built; an inject makes sure *)
(* the session exists and submits a run under an idempotency key derived   *)
(* from the item.  Answers are lost, the vendor fails before or after it   *)
(* did what was asked, and a request whose client has given up may still   *)
(* be served later.                                                        *)
(*                                                                         *)
(* The vendor is external: it keeps what the capabilities promise, one run *)
(* per key as long as it retains the key, and says so truthfully.          *)
(***************************************************************************)
EXTENDS Integers

CONSTANTS
    Keys,       \* inbox items, by their idempotency keys
    Sessions,   \* route targets that pass validate_session_id
    NoRun,      \* no run, no answer
    Clients,    \* clients of one principal
    MaxLate     \* bound: requests ever given up before the vendor served them

\* How the vendor answers, as far as the client tells it apart.
Answers == {"done", "accepted", "garbled", "unavailable", "rejected"}

ASSUME RunsAssumption == NoRun \notin Sessions \cup Answers /\ MaxLate \in Nat

VARIABLES
    capable,    \* the vendor offers durable idempotency long enough
    sessions,   \* sessions the vendor has
    admitted,   \* the session of the run each key stands for
    made,       \* runs made for each key while it is retained
    late,       \* requests in flight whose client has given up
    given,      \* how many there were
    doing,      \* where each client is
    asking,     \* <<item, session>> of its inject
    answer,     \* the vendor's answer to its request
    finished,   \* history: <<item, session>> of runs whose key expired
    receipts    \* history: <<item, session>> that inject returned a run for

vendor == <<capable, sessions, admitted, made>>
runsVars == <<vendor, late, given, doing, asking, answer, finished, receipts>>

\* The key of the item and the body of a submission.
Requests == {<<i, s>> : i \in Keys, s \in Sessions}

Doing(w, label) == doing' = [doing EXCEPT ![w] = label]
Answer(w, a) == answer' = [answer EXCEPT ![w] = a]

RunsInit ==
    /\ capable \in BOOLEAN
    /\ sessions = {}
    /\ admitted = [i \in Keys |-> NoRun]
    /\ made = [i \in Keys |-> 0]
    /\ late = {} /\ given = 0
    /\ doing = [w \in Clients |-> "down"]
    /\ asking \in [Clients -> Requests]
    /\ answer = [w \in Clients |-> NoRun]
    /\ finished = {} /\ receipts = {}

-----------------------------------------------------------------------------
(* The vendor.                                                             *)

\* POST /api/sessions: created, or there already.
MakeSession(r) ==
    /\ sessions' = sessions \cup {r[2]}
    /\ UNCHANGED <<capable, admitted, made>>

\* POST /v1/runs under the key of item r[1].
Acceptable(r) == r[2] \in sessions /\ (capable => admitted[r[1]] \in {NoRun, r[2]})

MakeRun(r) ==
    /\ IF Acceptable(r) /\ (capable => admitted[r[1]] = NoRun)
       THEN /\ admitted' = [admitted EXCEPT ![r[1]] = r[2]]
            /\ made' = [made EXCEPT ![r[1]] = IF @ < 2 THEN @ + 1 ELSE @]
       ELSE UNCHANGED <<admitted, made>>
    /\ UNCHANGED <<capable, sessions>>

\* The request of a waiting client is served; the vendor may also fail
\* before it did anything, or after.
ServeSession(w) ==
    /\ doing[w] = "session" /\ answer[w] = NoRun
    /\ \/ MakeSession(asking[w]) /\ \E a \in {"done", "unavailable"} : Answer(w, a)
       \/ UNCHANGED vendor /\ \E a \in {"unavailable", "rejected"} : Answer(w, a)
    /\ UNCHANGED <<late, given, doing, asking, finished, receipts>>

ServeRun(w) ==
    /\ doing[w] = "run" /\ answer[w] = NoRun
    /\ \/ /\ MakeRun(asking[w])
          /\ \E a \in IF Acceptable(asking[w]) THEN {"accepted", "garbled", "unavailable"}
                      ELSE {"rejected"} : Answer(w, a)
       \/ UNCHANGED vendor /\ \E a \in {"unavailable", "rejected"} : Answer(w, a)
    /\ UNCHANGED <<late, given, doing, asking, finished, receipts>>

\* A request nobody waits for any more is served, or dropped.
ServeLate(q) ==
    /\ late' = late \ {q}
    /\ \/ q.kind = "session" /\ MakeSession(q.what)
       \/ q.kind = "run" /\ MakeRun(q.what)
       \/ UNCHANGED vendor
    /\ UNCHANGED <<given, doing, asking, answer, finished, receipts>>

\* The run is over and its key no longer retained.
Expire(i) ==
    /\ admitted[i] # NoRun
    /\ finished' = finished \cup {<<i, admitted[i]>>}
    /\ admitted' = [admitted EXCEPT ![i] = NoRun]
    /\ made' = [made EXCEPT ![i] = 0]
    /\ UNCHANGED <<capable, sessions, late, given, doing, asking, answer, receipts>>

-----------------------------------------------------------------------------
(* The client.                                                             *)

\* HermesRuntime::new: a bad base URL or key is refused before any request.
New(w) ==
    /\ doing[w] = "down"
    /\ Doing(w, "health")
    /\ UNCHANGED <<vendor, late, given, asking, answer, finished, receipts>>

\* preflight: GET /health.
Health(w) ==
    /\ doing[w] = "health"
    /\ \E label \in {"capabilities", "down"} : Doing(w, label)
    /\ UNCHANGED <<vendor, late, given, asking, answer, finished, receipts>>

BugCapabilities(w) ==
    /\ doing[w] = "capabilities"
    /\ \E label \in {"idle", "down"} : Doing(w, label)
    /\ UNCHANGED <<vendor, late, given, asking, answer, finished, receipts>>

\* preflight: without durable idempotency the runtime is not built.
Capabilities(w) ==
    /\ doing[w] = "capabilities"
    /\ \/ capable /\ Doing(w, "idle")
       \/ Doing(w, "down")
    /\ UNCHANGED <<vendor, late, given, asking, answer, finished, receipts>>

\* inject: a disabled route, a bad session id or key returns at once; any
\* other call asks for the session first.
InjectRun(w) ==
    /\ doing[w] = "idle"
    /\ \E i \in Keys, s \in Sessions : asking' = [asking EXCEPT ![w] = <<i, s>>]
    /\ Doing(w, "session")
    /\ UNCHANGED <<vendor, late, given, answer, finished, receipts>>

\* ensure_session: 201 and 409 go on, every other status is an error.
EnsureSession(w) ==
    /\ doing[w] = "session" /\ answer[w] # NoRun
    /\ Doing(w, IF answer[w] = "done" THEN "run" ELSE "idle")
    /\ Answer(w, NoRun)
    /\ UNCHANGED <<vendor, late, given, asking, finished, receipts>>

BugReceipt(w) ==
    /\ doing[w] = "run" /\ answer[w] # NoRun
    /\ receipts' = IF answer[w] # "rejected" THEN receipts \cup {asking[w]} ELSE receipts
    /\ Doing(w, "idle")
    /\ Answer(w, NoRun)
    /\ UNCHANGED <<vendor, late, given, asking, finished>>

\* 202, a body within its limit and a visible run id in it.
HasRunId(a) == a = "accepted"

\* The run id is the receipt; everything else is an error.
Receipt(w) ==
    /\ doing[w] = "run" /\ answer[w] # NoRun
    /\ receipts' = IF HasRunId(answer[w]) THEN receipts \cup {asking[w]} ELSE receipts
    /\ Doing(w, "idle")
    /\ Answer(w, NoRun)
    /\ UNCHANGED <<vendor, late, given, asking, finished>>

\* The client gives up, at the timeout or because it is killed; a request
\* that the vendor has not served stays in flight.
Leave(w, label) ==
    /\ doing[w] \in {"session", "run"}
    /\ Doing(w, label)
    /\ Answer(w, NoRun)
    /\ IF answer[w] = NoRun
       THEN /\ given < MaxLate
            /\ given' = given + 1
            /\ late' = late \cup {[kind |-> doing[w], what |-> asking[w]]}
       ELSE UNCHANGED <<late, given>>
    /\ UNCHANGED <<vendor, asking, finished, receipts>>

TimeOut(w) == Leave(w, "idle")
KillRunsClient(w) == Leave(w, "down")

RunsNext ==
    \/ \E w \in Clients :
         \/ New(w) \/ Health(w) \/ Capabilities(w) \/ InjectRun(w)
         \/ EnsureSession(w) \/ Receipt(w) \/ TimeOut(w) \/ KillRunsClient(w)
         \/ ServeSession(w) \/ ServeRun(w)
    \/ \E q \in late : ServeLate(q)
    \/ \E i \in Keys : Expire(i)

RunsSpec == RunsInit /\ [][RunsNext]_runsVars

-----------------------------------------------------------------------------
(* Properties.                                                             *)

\* Every variable keeps to the values the client and the vendor give it.
RunsTypeOK ==
    /\ capable \in BOOLEAN
    /\ sessions \in SUBSET Sessions
    /\ admitted \in [Keys -> Sessions \cup {NoRun}]
    /\ made \in [Keys -> 0 .. 2]
    /\ late \in SUBSET [kind : {"session", "run"}, what : Requests]
    /\ given \in 0 .. MaxLate
    /\ doing \in [Clients -> {"down", "health", "capabilities", "idle", "session", "run"}]
    /\ asking \in [Clients -> Requests]
    /\ answer \in [Clients -> Answers \cup {NoRun}]
    /\ finished \in SUBSET Requests
    /\ receipts \in SUBSET Requests

\* Retries after lost answers, kills and changed routes never start a
\* second run of an item while its key is retained: the preflight keeps
\* away from a vendor that would.
OneRunPerItem == \A i \in Keys : made[i] <= 1

\* A run is only submitted to a session the vendor has.
SessionBeforeRun == \A w \in Clients : doing[w] = "run" => asking[w][2] \in sessions

RunsHandoff == INSTANCE Handoff
                 WITH Items <- Keys, None <- NoRun, Payloads <- Sessions,
                      offered <- admitted, durable <- admitted,
                      taken <- finished, confirmed <- receipts

\* The Runs API client refines the contract of inject.
RunsImplementHandoff == RunsHandoff!Spec
=============================================================================
