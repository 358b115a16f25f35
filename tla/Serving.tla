------------------------------ MODULE Serving ------------------------------
(***************************************************************************)
(* Requests of one daemon (crates/journald/src: http.rs, executor.rs and   *)
(* Server::serve): handlers run their database work as blocking tasks of   *)
(* a bounded executor, inbox requests are held until mail arrives          *)
(* (inbox_long_poll and InboxArrivals), and a shutdown drains the handlers *)
(* and then normalises the database. A handler whose client disconnects is *)
(* dropped at its await; a task it started goes on without it.             *)
(***************************************************************************)
EXTENDS Naturals, FiniteSets

CONSTANTS
  Handlers,         \* requests in flight at a time
  Principals,       \* recipients of mail
  Slots,            \* permits of the executor, each held by a task
  Nobody,           \* no handler
  MaxMail,          \* bound: unacknowledged items of a principal
  MaxDisconnects    \* bound: clients that disconnect

ASSUME ConstantsAssumption ==
  /\ Nobody \notin Handlers
  /\ Slots # {}
  /\ MaxMail \in Nat /\ MaxDisconnects \in Nat

VARIABLES
  mail,          \* unacknowledged items of each principal
  req,           \* the request of each handler
  entry,         \* InboxArrivals: principals with a channel in the map
  task,          \* of each permit: the operation that holds it
  phase,         \* of Server::serve
  silent,        \* principals with mail of an append that nobody will announce
  disconnects

vars == <<mail, req, entry, task, phase, silent, disconnects>>

Kinds == {"poll", "append", "ack"}
Operations == {"none", "auth", "fetch", "last", "append", "ack", "normalize"}

(* A request: where its handler is and the operation it is at; the caller, *)
(* or the recipients of an append; whether it waits (wait_seconds, and no  *)
(* cursor), its last page was not empty (of an append: it succeeded), and  *)
(* its deadline has passed; whether its receiver has a generation it has   *)
(* not seen, and belongs to the channel in the map.                        *)
Requests ==
  [pc : {"free", "call", "running", "returned", "waiting"}, kind : Kinds, op : Operations,
   who : SUBSET Principals, waits : BOOLEAN, found : BOOLEAN, expired : BOOLEAN,
   changed : BOOLEAN, linked : BOOLEAN]

NoRequest ==
  [pc |-> "free", kind |-> "ack", op |-> "none", who |-> {}, waits |-> FALSE, found |-> FALSE,
   expired |-> FALSE, changed |-> FALSE, linked |-> FALSE]

NoTask == [op |-> "none", owner |-> Nobody, who |-> {}]

Permits == {s \in Slots : task[s] = NoTask}

(* Permits are alike, and so are handlers: the first free one is taken. *)
FreePermit == CHOOSE s \in Permits : TRUE
FreeHandler == CHOOSE h \in Handlers : req[h].pc = "free"

-----------------------------------------------------------------------------
(* InboxArrivals *)

(* A poll holds a receiver from its first fetch until it returns. *)
Subscribed(h) == req[h].kind = "poll" /\ req[h].op \in {"fetch", "last"}

(* Entries whose channel has a receiver. *)
Retained == {p \in entry : \E h \in Handlers : Subscribed(h) /\ req[h].who = {p}}

(* Receivers of a channel that leaves the map are cut off. *)
Pruned(h, kept) == [req[h] EXCEPT !.linked = @ /\ req[h].who \subseteq kept]

(* The channel is found, or made; its present generation counts as seen. *)
Subscribe(h) ==
  /\ entry' = Retained \cup req[h].who
  /\ req' = [g \in Handlers |->
       IF g = h THEN [req[h] EXCEPT !.linked = TRUE, !.pc = "call", !.op = "fetch"]
       ELSE Pruned(g, Retained)]

Hears(h, recipients) == Subscribed(h) /\ req[h].linked /\ req[h].who \subseteq recipients \cap entry

(* Every receiver of a recipient's channel has a new generation. *)
Notify(h) ==
  /\ entry' = Retained
  /\ silent' = silent \ req[h].who
  /\ req' = [g \in Handlers |->
       IF g = h THEN NoRequest
       ELSE [Pruned(g, Retained) EXCEPT !.changed = @ \/ Hears(g, req[h].who)]]

-----------------------------------------------------------------------------
(* Handlers *)

Respond(h) == req' = [req EXCEPT ![h] = NoRequest]

Goto(h, operation) == req' = [req EXCEPT ![h].pc = "call", ![h].op = operation]

(* A request is accepted; it starts with its authentication. *)
Accept(h) ==
  /\ phase = "serving"
  /\ req[h].pc = "free" /\ h = FreeHandler
  /\ \E k \in Kinds, W \in SUBSET Principals, w \in BOOLEAN :
       /\ W # {}
       /\ k # "append" => \E p \in Principals : W = {p}
       /\ k # "poll" => ~w
       /\ req' = [req EXCEPT ![h] = [NoRequest EXCEPT !.pc = "call", !.kind = k, !.op = "auth", !.who = W, !.waits = w]]
  /\ UNCHANGED <<mail, entry, task, phase, silent, disconnects>>

(* execute: a permit is taken at once, or the request is refused. *)
Execute(h) ==
  /\ req[h].pc = "call"
  /\ \/ Permits = {} /\ Respond(h) /\ UNCHANGED task
     \/ /\ Permits # {}
        /\ task' = [task EXCEPT ![FreePermit] = [op |-> req[h].op, owner |-> h, who |-> req[h].who]]
        /\ req' = [req EXCEPT ![h].pc = "running"]
  /\ UNCHANGED <<mail, entry, phase, silent, disconnects>>

(* What a task does to the journal. An append that is a replay adds nothing. *)
Effect(t) ==
  \/ t.op \notin {"append", "ack"} /\ UNCHANGED mail
  \/ t.op = "append" /\ UNCHANGED mail
  \/ /\ t.op = "append"
     /\ \A p \in t.who : mail[p] < MaxMail
     /\ mail' = [p \in Principals |-> IF p \in t.who THEN mail[p] + 1 ELSE mail[p]]
  \/ /\ t.op = "ack"
     /\ mail' = [p \in Principals |-> IF p \in t.who /\ mail[p] > 0 THEN mail[p] - 1 ELSE mail[p]]

HasMail(who) == \E p \in who : mail[p] > 0

Found(t, ok) == IF t.op = "append" THEN ok ELSE t.op \in {"fetch", "last"} /\ HasMail(t.who)

(* A task ends: its permit is free, and its handler, if any, has the       *)
(* result. An append may fail, after its commit too (the audit's outcome   *)
(* cannot be recorded); how the others fail makes no difference.           *)
Run(s) ==
  LET t == task[s] IN
  /\ t.op \notin {"none", "normalize"}
  /\ Effect(t)
  /\ task' = [task EXCEPT ![s] = NoTask]
  /\ \E ok \in IF t.op = "append" THEN BOOLEAN ELSE {TRUE} :
       /\ silent' = {p \in Principals :
            mail'[p] > 0 /\ (p \in silent \/ (mail'[p] > mail[p] /\ (t.owner = Nobody \/ ~ok)))}
       /\ IF t.owner = Nobody THEN UNCHANGED req
          ELSE req' = [req EXCEPT ![t.owner].pc = "returned", ![t.owner].found = Found(t, ok)]
  /\ UNCHANGED <<entry, phase, disconnects>>

BugHold(h) == req' = [req EXCEPT ![h].pc = "waiting", ![h].changed = FALSE]

(* An empty page is held; what arrived since the receiver was made counts. *)
Hold(h) == req' = [req EXCEPT ![h].pc = "waiting"]

(* The handler goes on with the result of its task, or answers its error. *)
Continue(h) ==
  LET r == req[h]
      done == r.found \/ ~r.waits \/ r.expired
  IN
  /\ r.pc = "returned"
  /\ \/ r.op = "auth" /\ r.kind = "poll" /\ Subscribe(h) /\ UNCHANGED silent
     \/ r.op = "auth" /\ r.kind # "poll" /\ Goto(h, r.kind) /\ UNCHANGED <<entry, silent>>
     \/ r.op = "fetch" /\ done /\ Respond(h) /\ UNCHANGED <<entry, silent>>
     \/ r.op = "fetch" /\ ~done /\ Hold(h) /\ UNCHANGED <<entry, silent>>
     \/ r.op = "append" /\ r.found /\ Notify(h)
     \/ r.op = "append" /\ ~r.found /\ Respond(h) /\ UNCHANGED <<entry, silent>>
     \/ r.op \in {"auth", "fetch", "ack", "last"} /\ Respond(h) /\ UNCHANGED <<entry, silent>>
  /\ UNCHANGED <<mail, task, phase, disconnects>>

(* changed(): a new generation, or a channel whose sender is gone. *)
Wake(h) ==
  /\ req[h].pc = "waiting"
  /\ req[h].changed \/ ~req[h].linked
  /\ req' = [req EXCEPT ![h].pc = "call", ![h].op = "fetch", ![h].changed = FALSE]
  /\ UNCHANGED <<mail, entry, task, phase, silent, disconnects>>

(* The handlers are being drained, for a clean stop or after a failure. *)
Stopping == {"draining", "closing"}

BugDrainWake(h) ==
  /\ req[h].pc = "waiting" /\ req[h].expired
  /\ phase \in Stopping
  /\ Respond(h)
  /\ UNCHANGED <<mail, entry, task, phase, silent, disconnects>>

(* A held poll returns its empty page when the server shuts down. *)
DrainWake(h) ==
  /\ req[h].pc = "waiting"
  /\ phase \in Stopping
  /\ Respond(h)
  /\ UNCHANGED <<mail, entry, task, phase, silent, disconnects>>

(* The deadline of a poll passes. *)
Expire(h) ==
  /\ req[h].waits /\ Subscribed(h) /\ ~req[h].expired
  /\ req' = [req EXCEPT ![h].expired = TRUE]
  /\ UNCHANGED <<mail, entry, task, phase, silent, disconnects>>

(* If it is held by then it looks one last time. *)
LastFetch(h) ==
  /\ req[h].pc = "waiting" /\ req[h].expired
  /\ Goto(h, "last")
  /\ UNCHANGED <<mail, entry, task, phase, silent, disconnects>>

(* Handlers are dropped, and their tasks have no owner. *)
Abandon(gone) ==
  /\ req' = [h \in Handlers |-> IF h \in gone THEN NoRequest ELSE req[h]]
  /\ task' = [s \in Slots |-> IF task[s].owner \in gone THEN [task[s] EXCEPT !.owner = Nobody] ELSE task[s]]
  /\ silent' = silent \cup {p \in Principals : mail[p] > 0 /\ \E h \in gone :
                  req[h].op = "append" /\ req[h].pc = "returned" /\ req[h].found /\ p \in req[h].who}

Disconnect(h) ==
  /\ disconnects < MaxDisconnects
  /\ req[h].pc # "free"
  /\ disconnects' = disconnects + 1
  /\ Abandon({h})
  /\ UNCHANGED <<mail, entry, phase>>

-----------------------------------------------------------------------------
(* Server::serve *)

Shutdown ==
  /\ phase = "serving"
  /\ phase' = "draining"
  /\ UNCHANGED <<mail, req, entry, task, silent, disconnects>>

(* A listener stops, of itself or with an error: the others are drained,   *)
(* and nothing is normalised.                                              *)
ListenerStopped ==
  /\ phase \in {"serving", "draining"}
  /\ phase' = "closing"
  /\ UNCHANGED <<mail, req, entry, task, silent, disconnects>>

BugDrained == \A h \in Handlers : req[h].pc \in {"free", "running"}

(* Every connection is done. *)
Drained == \A h \in Handlers : req[h].pc = "free"

Normalize ==
  /\ phase = "draining"
  /\ Drained
  /\ \/ Permits = {} /\ phase' = "failed" /\ UNCHANGED task
     \/ /\ Permits # {}
        /\ task' = [task EXCEPT ![FreePermit] = [NoTask EXCEPT !.op = "normalize"]]
        /\ phase' = "normalizing"
  /\ UNCHANGED <<mail, req, entry, silent, disconnects>>

(* Another connection may make it fail. *)
Normalized(s) ==
  /\ task[s].op = "normalize"
  /\ task' = [task EXCEPT ![s] = NoTask]
  /\ phase' \in {"stopped"} \cup {"failed" : r \in {x \in Slots \ {s} : task[x] # NoTask}}
  /\ UNCHANGED <<mail, req, entry, silent, disconnects>>

Close ==
  /\ phase = "closing"
  /\ Drained
  /\ phase' = "failed"
  /\ UNCHANGED <<mail, req, entry, task, silent, disconnects>>

(* The drain takes too long: the runtime is dropped with its handlers. *)
ForceShutdown ==
  /\ phase \in Stopping
  /\ ~Drained
  /\ phase' = "failed"
  /\ Abandon({h \in Handlers : req[h].pc # "free"})
  /\ UNCHANGED <<mail, entry, disconnects>>

Init ==
  /\ mail = [p \in Principals |-> 0]
  /\ req = [h \in Handlers |-> NoRequest]
  /\ entry = {}
  /\ task = [s \in Slots |-> NoTask]
  /\ phase = "serving"
  /\ silent = {}
  /\ disconnects = 0

Step(h) == Execute(h) \/ Continue(h) \/ Wake(h) \/ DrainWake(h) \/ LastFetch(h)

Next ==
  \/ \E h \in Handlers : Accept(h) \/ Step(h) \/ Expire(h) \/ Disconnect(h)
  \/ \E s \in Slots : Run(s) \/ Normalized(s)
  \/ Shutdown \/ ListenerStopped \/ Normalize \/ Close \/ ForceShutdown

Spec == Init /\ [][Next]_vars

(* Handlers and tasks go on; no deadline, client or timeout helps them. *)
Fairness ==
  /\ \A h \in Handlers : WF_vars(Step(h))
  /\ \A s \in Slots : WF_vars(Run(s) \/ Normalized(s))
  /\ WF_vars(Normalize \/ Close)

FairSpec == Spec /\ Fairness

-----------------------------------------------------------------------------
(* Properties *)

(* Every variable has its type. *)
TypeOK ==
  /\ mail \in [Principals -> 0..MaxMail]
  /\ req \in [Handlers -> Requests]
  /\ entry \subseteq Principals
  /\ task \in [Slots -> [op : Operations, owner : Handlers \cup {Nobody}, who : SUBSET Principals]]
  /\ phase \in {"serving", "draining", "closing", "normalizing", "stopped", "failed"}
  /\ silent \subseteq Principals
  /\ disconnects \in 0..MaxDisconnects

(* An empty page "holds the connection until an inbox item is committed":   *)
(* a held poll whose principal has mail has been woken, or the append that  *)
(* brought it is about to do so. The exceptions are mail of an append whose *)
(* client disconnected after its commit and before its announcement, and of *)
(* one that was committed and then reported as failed.                      *)
(* While polls come and go, the entry of one that is still there is never   *)
(* pruned from the map, or replaced by another channel.                     *)
NoMissedWakeup ==
  /\ TypeOK
  /\ \A h \in Handlers : Subscribed(h) => req[h].linked /\ req[h].who \subseteq entry
  /\ \A h \in Handlers : req[h].pc = "waiting" /\ HasMail(req[h].who) =>
       \/ req[h].changed
       \/ \E g \in Handlers : /\ req[g].op = "append" /\ req[g].pc = "returned" /\ req[g].found
                              /\ req[h].who \subseteq req[g].who
       \/ req[h].who \subseteq silent

(* "axum's graceful joins below close every request first": when the        *)
(* database is normalised nothing else is at work on it but the tasks of    *)
(* clients that disconnected, one for each of them at most.                 *)
NormalizesAlone ==
  phase = "normalizing" =>
    Cardinality({s \in Slots : task[s].op \notin {"none", "normalize"}}) <= disconnects

(* "except on shutdown, which returns the empty page at once so graceful    *)
(* drain is not held for the full bound": the drain ends even if no         *)
(* deadline ever passes and it is not cut short.                            *)
DrainIsNotHeld == (phase \in Stopping) ~> (phase \notin Stopping)
=============================================================================
