--------------------------- MODULE ServingProofs ---------------------------
(***************************************************************************)
(* Proofs about Serving, for any number of handlers, principals, permits,  *)
(* items and disconnects.                                                  *)
(***************************************************************************)
EXTENDS Serving, FiniteSetTheorems, TLAPS

(* The time a leaf may take on a busy machine; a leaf with arithmetic has *)
(* a second attempt.                                                      *)
USE ZenonT(60)

-----------------------------------------------------------------------------
(* The inductive invariant *)

(* A poll has one principal, and is held after a fetch. *)
RequestsOK ==
  \A h \in Handlers :
    /\ req[h].pc = "free" => req[h] = NoRequest
    /\ req[h].pc # "free" /\ req[h].kind # "append" => \E p \in Principals : req[h].who = {p}
    /\ req[h].pc = "waiting" => req[h].op = "fetch"
    /\ req[h].op \in {"fetch", "last"} => req[h].kind = "poll"

(* A task that has a handler is the one its handler waits for. *)
TasksOK ==
  /\ \A s \in Slots : task[s].owner # Nobody =>
       /\ req[task[s].owner].pc = "running"
       /\ req[task[s].owner].op = task[s].op /\ req[task[s].owner].who = task[s].who
  /\ \A r, s \in Slots : task[r].owner = task[s].owner /\ task[r].owner # Nobody => r = s

Base == TypeOK /\ RequestsOK /\ TasksOK

(* The receiver of a poll belongs to the channel in the map. *)
Linked == \A h \in Handlers : Subscribed(h) => req[h].linked /\ req[h].who \subseteq entry

(* A poll has seen an empty page, and is held or about to be. *)
SawNothing(h) ==
  req[h].pc = "waiting" \/ (req[h].pc = "returned" /\ req[h].op = "fetch" /\ ~req[h].found)

Announces(g) == req[g].op = "append" /\ req[g].pc = "returned" /\ req[g].found

Wakeups ==
  \A h \in Handlers : SawNothing(h) /\ HasMail(req[h].who) =>
    \/ req[h].changed
    \/ \E g \in Handlers : Announces(g) /\ req[h].who \subseteq req[g].who
    \/ req[h].who \subseteq silent

(* Tasks whose handler was dropped. *)
Orphans == {s \in Slots : task[s].op \notin {"none", "normalize"} /\ task[s].owner = Nobody}

Leftovers ==
  /\ phase = "normalizing" => Drained
  /\ phase \notin {"stopped", "failed"} => IsFiniteSet(Orphans) /\ Cardinality(Orphans) <= disconnects

Invariant == Base /\ Linked /\ Wakeups /\ Leftovers

-----------------------------------------------------------------------------
(* Types and requests *)

LEMMA NoRequestType == NoRequest \in Requests
BY DEF NoRequest, Requests, Kinds, Operations

LEMMA FreePermitIsFree ==
  ASSUME Permits # {}
  PROVE  FreePermit \in Slots /\ task[FreePermit] = NoTask
BY DEF FreePermit, Permits

LEMMA EffectType ==
  ASSUME NEW t, TypeOK, Effect(t)
  PROVE  mail' \in [Principals -> 0..MaxMail]
<1>1. CASE UNCHANGED mail
  BY <1>1 DEF TypeOK
<1>2. CASE /\ \A p \in t.who : mail[p] < MaxMail
           /\ mail' = [p \in Principals |-> IF p \in t.who THEN mail[p] + 1 ELSE mail[p]]
  BY <1>2, ConstantsAssumption, SMTT(30), SMTT(45) DEF TypeOK
<1>3. CASE mail' = [p \in Principals |-> IF p \in t.who /\ mail[p] > 0 THEN mail[p] - 1 ELSE mail[p]]
  BY <1>3, ConstantsAssumption, SMTT(30), SMTT(45) DEF TypeOK
<1> QED
  BY <1>1, <1>2, <1>3 DEF Effect

(* A step of handler h that leaves the tasks alone, and of which its own   *)
(* task, if it waits for one, sees nothing.                                *)
LEMMA HandlerStep ==
  ASSUME NEW h \in Handlers, Base, req' \in [Handlers -> Requests],
         entry' \subseteq Principals, silent' \subseteq Principals,
         UNCHANGED <<mail, task, phase, disconnects>>,
         \/ req[h].pc # "running"
         \/ req'[h].pc = req[h].pc /\ req'[h].op = req[h].op /\ req'[h].who = req[h].who,
         RequestsOK',
         \A g \in Handlers \ {h} : /\ req'[g].pc = req[g].pc /\ req'[g].op = req[g].op
                                   /\ req'[g].who = req[g].who
  PROVE  Base'
<1>1. TypeOK'
  BY DEF Base, TypeOK
<1>2. TasksOK'
  <2>1. ASSUME NEW s \in Slots, task[s].owner # Nobody
        PROVE  LET g == task[s].owner IN
               req'[g].pc = req[g].pc /\ req'[g].op = req[g].op /\ req'[g].who = req[g].who
    BY <2>1, SMTT(30), SMTT(45) DEF Base, TypeOK, TasksOK
  <2> QED
    BY <2>1 DEF Base, TasksOK
<1> QED
  BY <1>1, <1>2 DEF Base

(* What others do to a request: its receiver may be cut off or hear. *)
LEMMA OthersKeep ==
  ASSUME NEW h \in Handlers, Base, req' \in [Handlers -> Requests],
         \A g \in Handlers \ {h} :
           /\ req'[g].pc = req[g].pc /\ req'[g].op = req[g].op /\ req'[g].who = req[g].who
           /\ req'[g].kind = req[g].kind
           /\ req[g].pc = "free" => req'[g] = req[g],
         /\ req'[h].pc = "free" => req'[h] = NoRequest
         /\ req'[h].pc # "free" /\ req'[h].kind # "append" => \E p \in Principals : req'[h].who = {p}
         /\ req'[h].pc = "waiting" => req'[h].op = "fetch"
         /\ req'[h].op \in {"fetch", "last"} => req'[h].kind = "poll"
  PROVE  RequestsOK'
<1> SUFFICES ASSUME NEW g \in Handlers
             PROVE  /\ req'[g].pc = "free" => req'[g] = NoRequest
                    /\ req'[g].pc # "free" /\ req'[g].kind # "append" => \E p \in Principals : req'[g].who = {p}
                    /\ req'[g].pc = "waiting" => req'[g].op = "fetch"
                    /\ req'[g].op \in {"fetch", "last"} => req'[g].kind = "poll"
  BY DEF RequestsOK
<1>1. CASE g = h
  BY <1>1
<1>2. CASE g # h
  BY <1>2, SMTT(30), SMTT(45) DEF Base, RequestsOK
<1> QED
  BY <1>1, <1>2

(* The same when only the request of h changes. *)
LEMMA OneChanges ==
  ASSUME NEW h \in Handlers, NEW r \in Requests, Base, req' = [req EXCEPT ![h] = r],
         UNCHANGED <<mail, entry, task, phase, silent, disconnects>>,
         req[h].pc # "running" \/ (r.pc = req[h].pc /\ r.op = req[h].op /\ r.who = req[h].who),
         r.pc = "free" => r = NoRequest,
         r.pc # "free" /\ r.kind # "append" => \E p \in Principals : r.who = {p},
         r.pc = "waiting" => r.op = "fetch",
         r.op \in {"fetch", "last"} => r.kind = "poll"
  PROVE  Base'
<1>1. req' \in [Handlers -> Requests] /\ req'[h] = r /\ \A g \in Handlers \ {h} : req'[g] = req[g]
  BY DEF Base, TypeOK
<1>2. RequestsOK'
  BY <1>1, OthersKeep
<1>3. entry' \subseteq Principals /\ silent' \subseteq Principals
  BY DEF Base, TypeOK
<1> QED
  BY <1>1, <1>2, <1>3, HandlerStep

LEMMA RequestFields ==
  ASSUME NEW r \in Requests
  PROVE  /\ \A x \in {"free", "call", "running", "returned", "waiting"} :
              [r EXCEPT !.pc = x] \in Requests
         /\ \A x \in {"free", "call", "running", "returned", "waiting"}, o \in Operations :
              [r EXCEPT !.pc = x, !.op = o] \in Requests
         /\ \A x \in {"free", "call", "running", "returned", "waiting"}, b \in BOOLEAN :
              [r EXCEPT !.pc = x, !.found = b] \in Requests
         /\ [r EXCEPT !.expired = TRUE] \in Requests
         /\ \A b \in BOOLEAN : [r EXCEPT !.linked = b] \in Requests
         /\ \A b, c \in BOOLEAN : [r EXCEPT !.linked = b, !.changed = c] \in Requests
BY DEF Requests

LEMMA RespondKeepsBase ==
  ASSUME NEW h \in Handlers, Base, Respond(h), req[h].pc # "running",
         UNCHANGED <<mail, entry, task, phase, silent, disconnects>>
  PROVE  Base'
<1>1. NoRequest.pc = "free" /\ NoRequest.op = "none"
  BY DEF NoRequest
<1> QED
  BY <1>1, OneChanges, NoRequestType DEF Respond

LEMMA AcceptKeepsBase ==
  ASSUME NEW h \in Handlers, Base, Accept(h)
  PROVE  Base'
<1> PICK k \in Kinds, W \in SUBSET Principals, w \in BOOLEAN :
      /\ k # "append" => \E p \in Principals : W = {p}
      /\ req' = [req EXCEPT ![h] = [NoRequest EXCEPT !.pc = "call", !.kind = k, !.op = "auth", !.who = W, !.waits = w]]
  BY DEF Accept
<1> DEFINE r == [NoRequest EXCEPT !.pc = "call", !.kind = k, !.op = "auth", !.who = W, !.waits = w]
<1>1. r \in Requests /\ r.pc = "call" /\ r.kind = k /\ r.op = "auth" /\ r.who = W
  BY DEF NoRequest, Requests, Operations
<1>2. req' = [req EXCEPT ![h] = r]
  OBVIOUS
<1> HIDE DEF r
<1>3. UNCHANGED <<mail, entry, task, phase, silent, disconnects>> /\ req[h].pc # "running"
  BY DEF Accept
<1>4. r.kind # "append" => \E p \in Principals : r.who = {p}
  BY <1>1
<1> QED
  BY <1>1, <1>2, <1>3, <1>4, OneChanges

LEMMA ExecuteKeepsBase ==
  ASSUME NEW h \in Handlers, Base, Execute(h)
  PROVE  Base'
<1>1. CASE Respond(h) /\ UNCHANGED task
  BY <1>1, RespondKeepsBase DEF Execute
<1>2. CASE /\ Permits # {}
           /\ task' = [task EXCEPT ![FreePermit] = [op |-> req[h].op, owner |-> h, who |-> req[h].who]]
           /\ req' = [req EXCEPT ![h].pc = "running"]
  <2>1. FreePermit \in Slots
    BY <1>2, FreePermitIsFree
  <2>2. /\ req' \in [Handlers -> Requests] /\ req'[h] = [req[h] EXCEPT !.pc = "running"]
        /\ \A g \in Handlers \ {h} : req'[g] = req[g]
    BY <1>2, RequestFields DEF Base, TypeOK
  <2>3. req'[h].pc = "running" /\ req'[h].op = req[h].op /\ req'[h].who = req[h].who /\ req'[h].kind = req[h].kind
    BY <2>2 DEF Base, TypeOK, Requests
  <2>a. /\ req[h].pc # "free"
        /\ req[h].kind # "append" => \E p \in Principals : req[h].who = {p}
        /\ req[h].op \in {"fetch", "last"} => req[h].kind = "poll"
    BY DEF Base, RequestsOK, Execute
  <2>4. RequestsOK'
    BY <2>2, <2>3, <2>a, OthersKeep
  <2>5. TypeOK'
    BY <1>2, <2>1, <2>2 DEF Base, TypeOK, Execute, Requests
  <2>6. /\ task'[FreePermit] = [op |-> req[h].op, owner |-> h, who |-> req[h].who]
        /\ \A s \in Slots \ {FreePermit} : task'[s] = task[s]
    BY <1>2, <2>1 DEF Base, TypeOK
  <2>7. ASSUME NEW s \in Slots, task[s].owner # Nobody
        PROVE  task[s].owner \in Handlers \ {h}
    BY <2>7 DEF Base, TypeOK, TasksOK, Execute
  <2>8. ASSUME NEW s \in Slots, task'[s].owner # Nobody
        PROVE  /\ req'[task'[s].owner].pc = "running"
               /\ req'[task'[s].owner].op = task'[s].op /\ req'[task'[s].owner].who = task'[s].who
    <3>1. CASE s = FreePermit
      BY <3>1, <2>3, <2>6, SMTT(30), SMTT(45)
    <3>2. CASE s # FreePermit
      BY <3>2, <2>2, <2>6, <2>7, <2>8, SMTT(30), SMTT(45) DEF Base, TasksOK
    <3> QED
      BY <3>1, <3>2
  <2>9. ASSUME NEW r \in Slots, NEW s \in Slots, task'[r].owner = task'[s].owner, task'[r].owner # Nobody
        PROVE  r = s
    BY <2>6, <2>7, <2>9, SMTT(30), SMTT(45) DEF Base, TasksOK
  <2>10. TasksOK'
    BY <2>8, <2>9 DEF TasksOK
  <2> QED
    BY <2>4, <2>5, <2>10 DEF Base
<1> QED
  BY <1>1, <1>2 DEF Execute

(* The handler of a task that ends has a result. *)
LEMMA RunReturns ==
  ASSUME NEW s \in Slots, Run(s), task[s].owner # Nobody
  PROVE  \E b \in BOOLEAN : req' = [req EXCEPT ![task[s].owner].pc = "returned", ![task[s].owner].found = b]
<1>1. PICK ok \in BOOLEAN : req' = [req EXCEPT ![task[s].owner].pc = "returned", ![task[s].owner].found = Found(task[s], ok)]
  BY DEF Run
<1>2. Found(task[s], ok) \in BOOLEAN
  BY DEF Found
<1> QED
  BY <1>1, <1>2

LEMMA RunKeepsBase ==
  ASSUME NEW s \in Slots, Base, Run(s)
  PROVE  Base'
<1> DEFINE t == task[s]
<1>1. mail' \in [Principals -> 0..MaxMail]
  BY EffectType DEF Base, Run
<1>2. /\ task' \in [Slots -> [op : Operations, owner : Handlers \cup {Nobody}, who : SUBSET Principals]]
      /\ task'[s] = NoTask /\ \A r \in Slots \ {s} : task'[r] = task[r]
  BY DEF Base, TypeOK, Run, NoTask, Operations
<1>3. NoTask.owner = Nobody
  BY DEF NoTask
<1>4. silent' \subseteq Principals /\ UNCHANGED <<entry, phase, disconnects>>
  BY DEF Run
<1>5. CASE t.owner = Nobody
  <2>1. UNCHANGED req
    BY <1>5 DEF Run
  <2>2. RequestsOK'
    BY <2>1 DEF Base, RequestsOK
  <2>3. TypeOK'
    BY <2>1, <1>1, <1>2, <1>4 DEF Base, TypeOK
  <2>4. TasksOK'
    BY <2>1, <1>2, <1>3, SMTT(30), SMTT(45) DEF Base, TasksOK
  <2> QED
    BY <2>2, <2>3, <2>4 DEF Base
<1>6. CASE t.owner # Nobody
  <2> DEFINE h == t.owner
  <2>1. h \in Handlers /\ req[h] \in Requests
    BY <1>6 DEF Base, TypeOK
  <2>2. PICK b \in BOOLEAN : req' = [req EXCEPT ![h].pc = "returned", ![h].found = b]
    BY <1>6, RunReturns
  <2>3. req' = [req EXCEPT ![h] = [req[h] EXCEPT !.pc = "returned", !.found = b]]
    BY <2>1, <2>2 DEF Base, TypeOK, Requests
  <2> HIDE DEF h
  <2>4. /\ req' \in [Handlers -> Requests] /\ req'[h] = [req[h] EXCEPT !.pc = "returned", !.found = b]
        /\ \A g \in Handlers \ {h} : req'[g] = req[g]
    BY <2>1, <2>3, RequestFields DEF Base, TypeOK
  <2>5. req'[h].pc = "returned" /\ req'[h].op = req[h].op /\ req'[h].who = req[h].who /\ req'[h].kind = req[h].kind
    BY <2>1, <2>4 DEF Requests
  <2>6. /\ req[h].pc = "running"
        /\ req[h].kind # "append" => \E p \in Principals : req[h].who = {p}
        /\ req[h].op \in {"fetch", "last"} => req[h].kind = "poll"
    BY <2>1, <1>6 DEF h, Base, RequestsOK, TasksOK
  <2>7. RequestsOK'
    <3>1. /\ req'[h].pc = "free" => req'[h] = NoRequest
          /\ req'[h].pc # "free" /\ req'[h].kind # "append" => \E p \in Principals : req'[h].who = {p}
          /\ req'[h].pc = "waiting" => req'[h].op = "fetch"
          /\ req'[h].op \in {"fetch", "last"} => req'[h].kind = "poll"
      BY <2>5, <2>6
    <3>2. \A g \in Handlers \ {h} :
            /\ req'[g].pc = req[g].pc /\ req'[g].op = req[g].op /\ req'[g].who = req[g].who
            /\ req'[g].kind = req[g].kind
            /\ req[g].pc = "free" => req'[g] = req[g]
      BY <2>4
    <3> QED
      BY <2>1, <2>4, <3>1, <3>2, OthersKeep
  <2>8. TypeOK'
    BY <2>4, <1>1, <1>2, <1>4 DEF Base, TypeOK
  <2>9. ASSUME NEW r \in Slots, task'[r].owner # Nobody
        PROVE  task'[r] = task[r] /\ task[r].owner \in Handlers \ {h}
    BY <2>9, <1>2, <1>3, <1>6 DEF h, Base, TypeOK, TasksOK
  <2>10. TasksOK'
    <3>1. ASSUME NEW r \in Slots, task'[r].owner # Nobody
          PROVE  /\ req'[task'[r].owner].pc = "running"
                 /\ req'[task'[r].owner].op = task'[r].op /\ req'[task'[r].owner].who = task'[r].who
      BY <3>1, <2>4, <2>9, SMTT(30), SMTT(45) DEF Base, TasksOK
    <3>2. ASSUME NEW q \in Slots, NEW r \in Slots, task'[q].owner = task'[r].owner, task'[q].owner # Nobody
          PROVE  q = r
      BY <3>2, <2>9, SMTT(30), SMTT(45) DEF Base, TasksOK
    <3> QED
      BY <3>1, <3>2 DEF TasksOK
  <2> QED
    BY <2>7, <2>8, <2>10 DEF Base
<1> QED
  BY <1>5, <1>6

(* A receiver that is cut off, or hears, changes nothing else. *)
LEMMA PrunedRequest ==
  ASSUME NEW g \in Handlers, NEW kept, Base
  PROVE  /\ Pruned(g, kept) \in Requests
         /\ Pruned(g, kept).pc = req[g].pc
         /\ Pruned(g, kept).op = req[g].op
         /\ Pruned(g, kept).who = req[g].who
         /\ Pruned(g, kept).kind = req[g].kind
         /\ Pruned(g, kept).found = req[g].found
         /\ Pruned(g, kept).changed = req[g].changed
         /\ Pruned(g, kept).linked <=> req[g].linked /\ req[g].who \subseteq kept
         /\ req[g].pc = "free" => Pruned(g, kept) = req[g]
<1>1. req[g] \in Requests
  BY DEF Base, TypeOK
<1>2. Pruned(g, kept) = [req[g] EXCEPT !.linked = req[g].linked /\ req[g].who \subseteq kept]
  BY <1>1 DEF Pruned, Requests
<1>3. req[g].pc = "free" => req[g].linked = FALSE
  BY SMTT(30), SMTT(45) DEF Base, RequestsOK, NoRequest
<1>4. req[g].pc = "free" => Pruned(g, kept) = [req[g] EXCEPT !.linked = FALSE]
  <2>1. req[g].pc = "free" => (req[g].linked /\ req[g].who \subseteq kept) = FALSE
    BY <1>3
  <2> QED
    BY <2>1, <1>2
<1>5. req[g].pc = "free" => [req[g] EXCEPT !.linked = FALSE] = req[g]
  BY <1>1, <1>3 DEF Requests
<1> QED
  BY <1>1, <1>2, <1>4, <1>5 DEF Requests

LEMMA SubscribeKeepsBase ==
  ASSUME NEW h \in Handlers, Base, Subscribe(h), req[h].pc = "returned", req[h].kind = "poll",
         UNCHANGED <<mail, task, phase, silent, disconnects>>
  PROVE  Base'
<1>1. /\ req'[h] = [req[h] EXCEPT !.linked = TRUE, !.pc = "call", !.op = "fetch"]
      /\ \A g \in Handlers \ {h} : req'[g] = Pruned(g, Retained)
  BY DEF Subscribe
<1>2. req[h] \in Requests
  BY DEF Base, TypeOK
<1>3. /\ req'[h] \in Requests /\ req'[h].pc = "call" /\ req'[h].op = "fetch" /\ req'[h].kind = "poll"
      /\ req'[h].who = req[h].who
  BY <1>1, <1>2 DEF Requests, Operations
<1>4. req' \in [Handlers -> Requests]
  <2>1. \A g \in Handlers : req'[g] \in Requests
    BY <1>1, <1>3, PrunedRequest, SMTT(30), SMTT(45)
  <2>2. req' = [g \in Handlers |-> req'[g]]
    BY DEF Subscribe
  <2> QED
    BY <2>1, <2>2
<1>5. \A g \in Handlers \ {h} :
        /\ req'[g].pc = req[g].pc /\ req'[g].op = req[g].op /\ req'[g].who = req[g].who
        /\ req'[g].kind = req[g].kind
  BY <1>1, PrunedRequest, SMTT(30), SMTT(45)
<1>6. \A g \in Handlers \ {h} : req[g].pc = "free" => req'[g] = req[g]
  BY <1>1, PrunedRequest, SMTT(30), SMTT(45)
<1>7. \E p \in Principals : req[h].who = {p}
  BY DEF Base, RequestsOK
<1>8. RequestsOK'
  BY <1>3, <1>4, <1>5, <1>6, <1>7, OthersKeep
<1>9. entry' \subseteq Principals /\ silent' \subseteq Principals
  BY <1>2 DEF Base, TypeOK, Subscribe, Retained, Requests
<1> QED
  BY <1>4, <1>5, <1>8, <1>9, HandlerStep

LEMMA NotifiedRequest ==
  ASSUME NEW h \in Handlers, NEW g \in Handlers \ {h}, Base, Notify(h)
  PROVE  /\ req'[g] \in Requests
         /\ req'[g].pc = req[g].pc /\ req'[g].op = req[g].op /\ req'[g].who = req[g].who
         /\ req'[g].kind = req[g].kind /\ req'[g].found = req[g].found
         /\ req'[g].linked <=> req[g].linked /\ req[g].who \subseteq Retained
         /\ req'[g].changed <=> req[g].changed \/ Hears(g, req[h].who)
         /\ req[g].pc = "free" => req'[g] = req[g]
<1> DEFINE q == Pruned(g, Retained)
           b == req[g].changed \/ Hears(g, req[h].who)
<1>1. /\ q \in Requests /\ q.pc = req[g].pc /\ q.op = req[g].op /\ q.who = req[g].who
      /\ q.kind = req[g].kind /\ q.found = req[g].found /\ q.changed = req[g].changed
      /\ q.linked <=> req[g].linked /\ req[g].who \subseteq Retained
      /\ req[g].pc = "free" => q = req[g]
  BY PrunedRequest, SMTT(30), SMTT(45)
<1>2. req'[g] = [q EXCEPT !.changed = @ \/ Hears(g, req[h].who)]
  BY DEF Notify
<1> HIDE DEF q
<1>3. req'[g] = [q EXCEPT !.changed = b]
  BY <1>1, <1>2 DEF Requests
<1>4. b \in BOOLEAN
  BY DEF Base, TypeOK, Requests, Hears, Subscribed
<1>5. ASSUME req[g].pc = "free"
      PROVE  req'[g] = req[g]
  <2>1. req[g] = NoRequest
    BY <1>5 DEF Base, RequestsOK
  <2>2. b = FALSE
    BY <2>1, <1>4, SMTT(30), SMTT(45) DEF NoRequest, Hears, Subscribed
  <2>3. [NoRequest EXCEPT !.changed = FALSE] = NoRequest
    <3>1. NoRequest.changed = FALSE
      BY DEF NoRequest
    <3> QED
      BY <3>1, NoRequestType DEF Requests
  <2> QED
    BY <2>1, <2>2, <2>3, <1>1, <1>3, <1>5
<1> QED
  <2> HIDE DEF b
  <2>1. /\ req'[g] \in Requests
        /\ req'[g].pc = q.pc /\ req'[g].op = q.op /\ req'[g].who = q.who
        /\ req'[g].kind = q.kind /\ req'[g].found = q.found
        /\ req'[g].linked = q.linked /\ req'[g].changed = b
    BY <1>1, <1>3, <1>4 DEF Requests
  <2> QED
    BY <2>1, <1>1, <1>5 DEF b

LEMMA NotifyKeepsBase ==
  ASSUME NEW h \in Handlers, Base, Notify(h), req[h].pc = "returned",
         UNCHANGED <<mail, task, phase, disconnects>>
  PROVE  Base'
<1>1. req'[h] = NoRequest
  BY DEF Notify
<1>2. NoRequest.pc = "free" /\ NoRequest.op = "none"
  BY DEF NoRequest
<1>3. req' \in [Handlers -> Requests]
  <2>1. \A g \in Handlers : req'[g] \in Requests
    BY <1>1, NotifiedRequest, NoRequestType
  <2>2. req' = [g \in Handlers |-> req'[g]]
    BY DEF Notify
  <2> QED
    BY <2>1, <2>2
<1>4. \A g \in Handlers \ {h} :
        /\ req'[g].pc = req[g].pc /\ req'[g].op = req[g].op /\ req'[g].who = req[g].who
        /\ req'[g].kind = req[g].kind
        /\ req[g].pc = "free" => req'[g] = req[g]
  BY NotifiedRequest
<1>5. RequestsOK'
  BY <1>1, <1>2, <1>3, <1>4, OthersKeep
<1>6. entry' \subseteq Principals /\ silent' \subseteq Principals
  BY DEF Base, TypeOK, Notify, Retained
<1> QED
  BY <1>3, <1>4, <1>5, <1>6, HandlerStep

(* A handler goes from its place to another. *)
LEMMA GotoKeepsBase ==
  ASSUME NEW h \in Handlers, NEW o \in Operations, NEW x \in {"call", "waiting"}, NEW b \in BOOLEAN, Base,
         req' = [req EXCEPT ![h] = [req[h] EXCEPT !.pc = x, !.op = o, !.changed = b]],
         req[h].pc \in {"returned", "waiting"},
         x = "waiting" => o = "fetch",
         o \in {"fetch", "last"} => req[h].kind = "poll",
         UNCHANGED <<mail, entry, task, phase, silent, disconnects>>
  PROVE  Base'
<1> DEFINE r == [req[h] EXCEPT !.pc = x, !.op = o, !.changed = b]
<1>1. req[h] \in Requests
  BY DEF Base, TypeOK
<1>2. r \in Requests /\ r.pc = x /\ r.op = o /\ r.who = req[h].who /\ r.kind = req[h].kind
  BY <1>1 DEF Requests
<1>3. req' = [req EXCEPT ![h] = r]
  OBVIOUS
<1> HIDE DEF r
<1>4. r.kind # "append" => \E p \in Principals : r.who = {p}
  BY <1>2 DEF Base, RequestsOK
<1> QED
  BY <1>2, <1>3, <1>4, OneChanges

LEMMA ContinueKeepsBase ==
  ASSUME NEW h \in Handlers, Base, Continue(h)
  PROVE  Base'
<1>1. /\ req[h] \in Requests /\ req[h].pc = "returned" /\ UNCHANGED <<mail, task, phase, disconnects>>
      /\ req[h].op = "fetch" => req[h].kind = "poll"
  BY DEF Base, TypeOK, RequestsOK, Continue
<1>2. CASE req[h].kind = "poll" /\ Subscribe(h) /\ UNCHANGED silent
  BY <1>1, <1>2, SubscribeKeepsBase
<1>3. CASE req[h].kind # "poll" /\ Goto(h, req[h].kind) /\ UNCHANGED <<entry, silent>>
  <2>1. req' = [req EXCEPT ![h] = [req[h] EXCEPT !.pc = "call", !.op = req[h].kind, !.changed = req[h].changed]]
    BY <1>1, <1>3 DEF Goto, Base, TypeOK, Requests
  <2>2. req[h].kind \in Operations /\ req[h].changed \in BOOLEAN /\ req[h].kind \notin {"fetch", "last"}
    BY <1>1, <1>3 DEF Requests, Operations, Kinds
  <2> QED
    BY <1>1, <1>3, <2>1, <2>2, GotoKeepsBase
<1>4. CASE Respond(h) /\ UNCHANGED <<entry, silent>>
  BY <1>1, <1>4, RespondKeepsBase
<1>5. CASE req[h].op = "fetch" /\ Hold(h) /\ UNCHANGED <<entry, silent>>
  <2>1. req' = [req EXCEPT ![h] = [req[h] EXCEPT !.pc = "waiting", !.op = "fetch", !.changed = req[h].changed]]
    BY <1>1, <1>5 DEF Hold, Base, TypeOK, Requests
  <2>2. "fetch" \in Operations /\ req[h].changed \in BOOLEAN
    BY <1>1 DEF Requests, Operations
  <2> QED
    BY <1>1, <1>5, <2>1, <2>2, GotoKeepsBase
<1>6. CASE Notify(h)
  BY <1>1, <1>6, NotifyKeepsBase
<1> QED
  BY <1>2, <1>3, <1>4, <1>5, <1>6 DEF Continue

LEMMA WakeKeepsBase ==
  ASSUME NEW h \in Handlers, Base, Wake(h)
  PROVE  Base'
<1>1. req[h] \in Requests /\ req[h].pc = "waiting" /\ req[h].kind = "poll"
  BY DEF Base, TypeOK, RequestsOK, Wake
<1>2. req' = [req EXCEPT ![h] = [req[h] EXCEPT !.pc = "call", !.op = "fetch", !.changed = FALSE]]
  BY <1>1 DEF Wake, Base, TypeOK, Requests
<1>3. "fetch" \in Operations
  BY DEF Operations
<1> QED
  BY <1>1, <1>2, <1>3, GotoKeepsBase DEF Wake

LEMMA LastFetchKeepsBase ==
  ASSUME NEW h \in Handlers, Base, LastFetch(h)
  PROVE  Base'
<1>1. req[h] \in Requests /\ req[h].pc = "waiting" /\ req[h].kind = "poll"
  BY DEF Base, TypeOK, RequestsOK, LastFetch
<1>2. req' = [req EXCEPT ![h] = [req[h] EXCEPT !.pc = "call", !.op = "last", !.changed = req[h].changed]]
  BY <1>1 DEF LastFetch, Goto, Base, TypeOK, Requests
<1>3. "last" \in Operations /\ req[h].changed \in BOOLEAN
  BY <1>1 DEF Requests, Operations
<1> QED
  BY <1>1, <1>2, <1>3, GotoKeepsBase DEF LastFetch

LEMMA ExpireKeepsBase ==
  ASSUME NEW h \in Handlers, Base, Expire(h)
  PROVE  Base'
<1> DEFINE r == [req[h] EXCEPT !.expired = TRUE]
<1>1. req[h] \in Requests /\ req[h].kind = "poll" /\ req[h].op \in {"fetch", "last"}
  BY DEF Base, TypeOK, Expire, Subscribed
<1>2. /\ r \in Requests /\ r.pc = req[h].pc /\ r.op = req[h].op /\ r.who = req[h].who
      /\ r.kind = req[h].kind
  BY <1>1 DEF Requests
<1>3. req' = [req EXCEPT ![h] = r]
  BY <1>1 DEF Expire, Base, TypeOK, Requests
<1> HIDE DEF r
<1>4. r.pc # "free" /\ \E p \in Principals : r.who = {p}
  <2>1. req[h].pc # "free"
    BY <1>1, SMTT(30), SMTT(45) DEF Base, RequestsOK, NoRequest
  <2> QED
    BY <1>1, <1>2, <2>1 DEF Base, RequestsOK
<1>5. r.pc = "waiting" => r.op = "fetch"
  BY <1>2 DEF Base, RequestsOK
<1> QED
  BY <1>1, <1>2, <1>3, <1>4, <1>5, OneChanges DEF Expire

LEMMA AbandonKeepsBase ==
  ASSUME NEW gone \in SUBSET Handlers, Base, Abandon(gone), UNCHANGED <<mail, entry>>,
         phase' \in {"serving", "draining", "closing", "normalizing", "stopped", "failed"},
         disconnects' \in 0..MaxDisconnects
  PROVE  Base'
<1>1. req' \in [Handlers -> Requests] /\ RequestsOK'
  BY NoRequestType DEF Base, TypeOK, RequestsOK, Abandon, NoRequest
<1>2. ASSUME NEW s \in Slots
      PROVE  /\ task'[s] \in [op : Operations, owner : Handlers \cup {Nobody}, who : SUBSET Principals]
             /\ task'[s].op = task[s].op /\ task'[s].who = task[s].who
             /\ task'[s].owner = IF task[s].owner \in gone THEN Nobody ELSE task[s].owner
  <2>1. task[s] \in [op : Operations, owner : Handlers \cup {Nobody}, who : SUBSET Principals]
    BY DEF Base, TypeOK
  <2>2. task'[s] = IF task[s].owner \in gone THEN [task[s] EXCEPT !.owner = Nobody] ELSE task[s]
    BY DEF Abandon
  <2> QED
    BY <2>1, <2>2
<1>3. task' \in [Slots -> [op : Operations, owner : Handlers \cup {Nobody}, who : SUBSET Principals]]
  <2>1. task' = [s \in Slots |-> task'[s]]
    BY DEF Abandon
  <2> QED
    BY <2>1, <1>2
<1>4. TypeOK'
  BY <1>1, <1>3 DEF Base, TypeOK, Abandon
<1>5. TasksOK'
  <2>1. ASSUME NEW s \in Slots, task'[s].owner # Nobody
        PROVE  /\ task'[s].owner = task[s].owner /\ task[s].owner \in Handlers
               /\ req'[task[s].owner] = req[task[s].owner]
    BY <2>1, <1>2 DEF Abandon, Base, TypeOK
  <2> QED
    BY <2>1, <1>2, SMTT(30), SMTT(45) DEF Base, TasksOK
<1> QED
  BY <1>1, <1>4, <1>5 DEF Base

LEMMA StepKeepsBase ==
  ASSUME Base, [Next]_vars
  PROVE  Base'
<1>1. ASSUME NEW h \in Handlers, Step(h)
      PROVE  Base'
  <2>1. CASE DrainWake(h)
    BY <2>1, RespondKeepsBase DEF DrainWake
  <2> QED
    BY <1>1, <2>1, ExecuteKeepsBase, ContinueKeepsBase, WakeKeepsBase, LastFetchKeepsBase DEF Step
<1>2. ASSUME NEW h \in Handlers, Disconnect(h)
      PROVE  Base'
  <2>1. {h} \in SUBSET Handlers /\ disconnects' \in 0..MaxDisconnects
    BY <1>2, ConstantsAssumption, SMTT(30), SMTT(45) DEF Disconnect, Base, TypeOK
  <2>2. phase' \in {"serving", "draining", "closing", "normalizing", "stopped", "failed"}
    BY <1>2 DEF Disconnect, Base, TypeOK
  <2> QED
    BY <1>2, <2>1, <2>2, AbandonKeepsBase DEF Disconnect
<1>3. CASE ForceShutdown
  <2>1. /\ {h \in Handlers : req[h].pc # "free"} \in SUBSET Handlers
        /\ phase' = "failed" /\ disconnects' \in 0..MaxDisconnects
    BY <1>3 DEF ForceShutdown, Base, TypeOK
  <2> QED
    BY <1>3, <2>1, AbandonKeepsBase DEF ForceShutdown
<1>4. ASSUME UNCHANGED <<mail, req, entry, silent, disconnects>>,
             phase' \in {"serving", "draining", "closing", "normalizing", "stopped", "failed"},
             NEW s \in Slots, NEW t, task' = [task EXCEPT ![s] = t],
             t \in [op : Operations, owner : {Nobody}, who : SUBSET Principals]
      PROVE  Base'
  <2>1. TypeOK' /\ RequestsOK'
    BY <1>4 DEF Base, TypeOK, RequestsOK
  <2>2. task'[s].owner = Nobody /\ \A r \in Slots \ {s} : task'[r] = task[r]
    BY <1>4 DEF Base, TypeOK
  <2>3. TasksOK'
    BY <1>4, <2>2, SMTT(30), SMTT(45) DEF Base, TasksOK
  <2> QED
    BY <2>1, <2>3 DEF Base
<1>5. ASSUME UNCHANGED <<mail, req, entry, task, silent, disconnects>>,
             phase' \in {"serving", "draining", "closing", "normalizing", "stopped", "failed"}
      PROVE  Base'
  BY <1>5 DEF Base, TypeOK, RequestsOK, TasksOK
<1>6. CASE Normalize
  <2>1. CASE UNCHANGED task /\ phase' = "failed"
    BY <1>6, <2>1, <1>5 DEF Normalize
  <2>2. CASE /\ Permits # {} /\ phase' = "normalizing"
             /\ task' = [task EXCEPT ![FreePermit] = [NoTask EXCEPT !.op = "normalize"]]
    <3>1. [NoTask EXCEPT !.op = "normalize"] \in [op : Operations, owner : {Nobody}, who : SUBSET Principals]
      BY DEF NoTask, Operations
    <3> QED
      BY <1>6, <2>2, <3>1, <1>4, FreePermitIsFree DEF Normalize
  <2> QED
    BY <1>6, <2>1, <2>2 DEF Normalize
<1>7. ASSUME NEW s \in Slots, Normalized(s)
      PROVE  Base'
  <2>1. NoTask \in [op : Operations, owner : {Nobody}, who : SUBSET Principals]
    BY DEF NoTask, Operations
  <2>2. phase' \in {"serving", "draining", "closing", "normalizing", "stopped", "failed"}
    BY <1>7 DEF Normalized
  <2> QED
    BY <1>7, <2>1, <2>2, <1>4 DEF Normalized
<1>8. CASE Shutdown \/ ListenerStopped \/ Close
  BY <1>8, <1>5 DEF Shutdown, ListenerStopped, Close
<1>9. CASE UNCHANGED vars
  BY <1>9 DEF vars, Base, TypeOK, RequestsOK, TasksOK
<1> QED
  BY <1>1, <1>2, <1>3, <1>6, <1>7, <1>8, <1>9, AcceptKeepsBase, ExpireKeepsBase, RunKeepsBase DEF Next

-----------------------------------------------------------------------------
(* Receivers and wakeups *)

(* One request changes: it hears no less, and announced nothing. *)
LEMMA OneKeepsWakeups ==
  ASSUME NEW h \in Handlers, NEW r \in Requests, Base, Linked, Wakeups,
         req' = [req EXCEPT ![h] = r], UNCHANGED <<mail, entry, silent>>,
         ~Announces(h),
         r.kind = "poll" /\ r.op \in {"fetch", "last"} => r.linked /\ r.who \subseteq entry,
         r.pc = "waiting" \/ (r.pc = "returned" /\ r.op = "fetch" /\ ~r.found)
           => SawNothing(h) /\ r.who = req[h].who /\ r.changed = req[h].changed
  PROVE  Linked' /\ Wakeups'
<1>1. req'[h] = r /\ \A g \in Handlers \ {h} : req'[g] = req[g]
  BY DEF Base, TypeOK
<1>2. Linked'
  BY <1>1 DEF Linked, Subscribed
<1>3. Wakeups'
  <2> SUFFICES ASSUME NEW g \in Handlers, SawNothing(g)', HasMail(req[g].who)'
               PROVE  (\/ req[g].changed
                       \/ \E f \in Handlers : Announces(f) /\ req[g].who \subseteq req[f].who
                       \/ req[g].who \subseteq silent)'
    BY DEF Wakeups
  <2>1. SawNothing(g) /\ req'[g].who = req[g].who /\ req'[g].changed = req[g].changed
    BY <1>1 DEF SawNothing
  <2>2. HasMail(req[g].who)
    BY <2>1 DEF HasMail
  <2>3. ASSUME NEW f \in Handlers, Announces(f), req[g].who \subseteq req[f].who
        PROVE  Announces(f)' /\ req'[g].who \subseteq req'[f].who
    BY <1>1, <2>1, <2>3 DEF Announces
  <2> QED
    BY <2>1, <2>2, <2>3 DEF Wakeups
<1> QED
  BY <1>2, <1>3

LEMMA HandlerKeepsWakeups ==
  ASSUME NEW h \in Handlers, Base, Linked, Wakeups, UNCHANGED <<mail, entry, silent>>,
         \/ Accept(h)
         \/ Respond(h) /\ ~Announces(h)
         \/ Execute(h)
         \/ Continue(h) /\ Goto(h, req[h].kind) /\ req[h].op = "auth" /\ req[h].kind # "poll"
         \/ Continue(h) /\ Hold(h) /\ req[h].op = "fetch" /\ ~req[h].found
         \/ Wake(h)
         \/ Expire(h)
         \/ LastFetch(h)
  PROVE  Linked' /\ Wakeups'
<1>1. req[h] \in Requests /\ req \in [Handlers -> Requests]
  BY DEF Base, TypeOK
<1>2. /\ NoRequest \in Requests /\ NoRequest.pc = "free" /\ NoRequest.op = "none"
  BY NoRequestType DEF NoRequest
<1>3. CASE Respond(h) /\ ~Announces(h)
  BY <1>2, <1>3, OneKeepsWakeups DEF Respond
<1>4. ASSUME NEW r \in Requests, req' = [req EXCEPT ![h] = r], ~Announces(h),
             r.linked = req[h].linked, r.who = req[h].who, r.kind = req[h].kind,
             r.op \in {"fetch", "last"} => Subscribed(h),
             r.pc \in {"waiting", "returned"} => SawNothing(h) /\ r.changed = req[h].changed
      PROVE  Linked' /\ Wakeups'
  BY <1>4, OneKeepsWakeups DEF Linked
<1>5. CASE Accept(h)
  <2> PICK k \in Kinds, W \in SUBSET Principals, w \in BOOLEAN :
        req' = [req EXCEPT ![h] = [NoRequest EXCEPT !.pc = "call", !.kind = k, !.op = "auth", !.who = W, !.waits = w]]
    BY <1>5 DEF Accept
  <2> DEFINE r == [NoRequest EXCEPT !.pc = "call", !.kind = k, !.op = "auth", !.who = W, !.waits = w]
  <2>1. r \in Requests /\ r.pc = "call" /\ r.op = "auth"
    BY DEF NoRequest, Requests, Operations
  <2>2. req' = [req EXCEPT ![h] = r]
    OBVIOUS
  <2> HIDE DEF r
  <2>3. ~Announces(h)
    BY <1>5 DEF Accept, Announces
  <2> QED
    BY <2>1, <2>2, <2>3, OneKeepsWakeups
<1>6. CASE Execute(h)
  <2>1. ~Announces(h)
    BY <1>6 DEF Execute, Announces
  <2>2. CASE Respond(h)
    BY <2>1, <2>2, <1>3
  <2>3. CASE req' = [req EXCEPT ![h].pc = "running"]
    <3> DEFINE r == [req[h] EXCEPT !.pc = "running"]
    <3>1. /\ r \in Requests /\ r.pc = "running" /\ r.linked = req[h].linked /\ r.who = req[h].who
          /\ r.kind = req[h].kind /\ r.op = req[h].op
      BY <1>1 DEF Requests
    <3>2. req' = [req EXCEPT ![h] = r]
      BY <1>1, <2>3 DEF Requests
    <3> HIDE DEF r
    <3>3. r.op \in {"fetch", "last"} => Subscribed(h)
      BY <3>1 DEF Base, RequestsOK, Subscribed
    <3> QED
      BY <3>1, <3>2, <3>3, <2>1, <1>4
  <2> QED
    BY <1>6, <2>2, <2>3 DEF Execute
<1>7. CASE Continue(h) /\ Goto(h, req[h].kind) /\ req[h].op = "auth" /\ req[h].kind # "poll"
  <2> DEFINE r == [req[h] EXCEPT !.pc = "call", !.op = req[h].kind]
  <2>1. /\ r \in Requests /\ r.pc = "call" /\ r.linked = req[h].linked /\ r.who = req[h].who
        /\ r.kind = req[h].kind /\ r.op = req[h].kind /\ req[h].kind \notin {"fetch", "last"}
    BY <1>1, <1>7 DEF Requests, Kinds, Operations
  <2>2. req' = [req EXCEPT ![h] = r]
    BY <1>1, <1>7 DEF Requests, Goto
  <2> HIDE DEF r
  <2>3. ~Announces(h)
    BY <1>7 DEF Announces
  <2> QED
    BY <2>1, <2>2, <2>3, <1>4
<1>8. CASE Continue(h) /\ Hold(h) /\ req[h].op = "fetch" /\ ~req[h].found
  <2> DEFINE r == [req[h] EXCEPT !.pc = "waiting"]
  <2>1. /\ r \in Requests /\ r.linked = req[h].linked /\ r.who = req[h].who
        /\ r.kind = req[h].kind /\ r.op = "fetch" /\ r.changed = req[h].changed
    BY <1>1, <1>8 DEF Requests
  <2>2. req' = [req EXCEPT ![h] = r]
    BY <1>1, <1>8 DEF Requests, Hold
  <2> HIDE DEF r
  <2>3. ~Announces(h) /\ SawNothing(h) /\ Subscribed(h)
    BY <1>8 DEF Announces, SawNothing, Continue, Subscribed, Base, RequestsOK
  <2> QED
    BY <2>1, <2>2, <2>3, <1>4
<1>9. CASE Wake(h)
  <2> DEFINE r == [req[h] EXCEPT !.pc = "call", !.op = "fetch", !.changed = FALSE]
  <2>1. /\ r \in Requests /\ r.pc = "call" /\ r.linked = req[h].linked /\ r.who = req[h].who
        /\ r.kind = req[h].kind
    BY <1>1 DEF Requests, Operations
  <2>2. req' = [req EXCEPT ![h] = r]
    BY <1>1, <1>9 DEF Requests, Wake
  <2> HIDE DEF r
  <2>3. ~Announces(h) /\ Subscribed(h)
    BY <1>9 DEF Announces, Wake, Subscribed, Base, RequestsOK
  <2> QED
    BY <2>1, <2>2, <2>3, <1>4
<1>10. CASE Expire(h)
  <2> DEFINE r == [req[h] EXCEPT !.expired = TRUE]
  <2>1. /\ r \in Requests /\ r.linked = req[h].linked /\ r.who = req[h].who /\ r.pc = req[h].pc
        /\ r.kind = req[h].kind /\ r.op = req[h].op /\ r.found = req[h].found /\ r.changed = req[h].changed
    BY <1>1 DEF Requests
  <2>2. req' = [req EXCEPT ![h] = r]
    BY <1>1, <1>10 DEF Requests, Expire
  <2> HIDE DEF r
  <2>3. ~Announces(h) /\ Subscribed(h) /\ req[h].linked /\ req[h].who \subseteq entry
    BY <1>10 DEF Announces, Expire, Subscribed, Linked
  <2>4. r.pc = "waiting" \/ (r.pc = "returned" /\ r.op = "fetch" /\ ~r.found) => SawNothing(h)
    BY <2>1 DEF SawNothing
  <2> QED
    BY <2>1, <2>2, <2>3, <2>4, OneKeepsWakeups
<1>11. CASE LastFetch(h)
  <2> DEFINE r == [req[h] EXCEPT !.pc = "call", !.op = "last"]
  <2>1. /\ r \in Requests /\ r.pc = "call" /\ r.linked = req[h].linked /\ r.who = req[h].who
        /\ r.kind = req[h].kind
    BY <1>1 DEF Requests, Operations
  <2>2. req' = [req EXCEPT ![h] = r]
    BY <1>1, <1>11 DEF Requests, LastFetch, Goto
  <2> HIDE DEF r
  <2>3. ~Announces(h) /\ Subscribed(h)
    BY <1>11 DEF Announces, LastFetch, Subscribed, Base, RequestsOK
  <2> QED
    BY <2>1, <2>2, <2>3, <1>4
<1> QED
  BY <1>3, <1>5, <1>6, <1>7, <1>8, <1>9, <1>10, <1>11

(* A poll that is there keeps its entry. *)
LEMMA PollIsRetained ==
  ASSUME NEW h \in Handlers, Base, Linked, Subscribed(h)
  PROVE  req[h].who \subseteq Retained
<1>1. req[h].pc # "free"
  BY SMTT(30), SMTT(45) DEF Subscribed, Base, RequestsOK, NoRequest
<1>2. PICK p \in Principals : req[h].who = {p}
  BY <1>1 DEF Subscribed, Base, RequestsOK
<1> QED
  BY <1>2 DEF Linked, Retained

LEMMA SubscribeKeepsWakeups ==
  ASSUME NEW h \in Handlers, Base, Linked, Wakeups, Subscribe(h),
         req[h].op = "auth", req[h].kind = "poll", UNCHANGED <<mail, silent>>
  PROVE  Linked' /\ Wakeups'
<1>1. req[h] \in Requests
  BY DEF Base, TypeOK
<1>2. req'[h].pc = "call" /\ req'[h].linked /\ req'[h].who = req[h].who
  BY <1>1 DEF Subscribe, Requests
<1>3. \A g \in Handlers \ {h} :
        /\ req'[g].pc = req[g].pc /\ req'[g].op = req[g].op /\ req'[g].who = req[g].who
        /\ req'[g].kind = req[g].kind /\ req'[g].found = req[g].found /\ req'[g].changed = req[g].changed
        /\ req'[g].linked <=> req[g].linked /\ req[g].who \subseteq Retained
  <2>1. \A g \in Handlers \ {h} : req'[g] = Pruned(g, Retained)
    BY DEF Subscribe
  <2> QED
    BY <2>1, PrunedRequest, SMTT(30), SMTT(45)
<1>4. entry' = Retained \cup req[h].who
  BY DEF Subscribe
<1>5. Linked'
  <2> SUFFICES ASSUME NEW g \in Handlers, Subscribed(g)'
               PROVE  req'[g].linked /\ req'[g].who \subseteq entry'
    BY DEF Linked
  <2>1. CASE g = h
    BY <2>1, <1>2, <1>4
  <2>2. CASE g # h
    <3>1. Subscribed(g)
      BY <2>2, <1>3 DEF Subscribed
    <3> QED
      BY <3>1, <2>2, <1>3, <1>4, PollIsRetained DEF Linked
  <2> QED
    BY <2>1, <2>2
<1>6. Wakeups'
  <2> SUFFICES ASSUME NEW g \in Handlers, SawNothing(g)', HasMail(req[g].who)'
               PROVE  (\/ req[g].changed
                       \/ \E f \in Handlers : Announces(f) /\ req[g].who \subseteq req[f].who
                       \/ req[g].who \subseteq silent)'
    BY DEF Wakeups
  <2>1. g # h /\ SawNothing(g)
    BY <1>2, <1>3 DEF SawNothing
  <2>2. req'[g].who = req[g].who /\ req'[g].changed = req[g].changed
    BY <2>1, <1>3
  <2>3. HasMail(req[g].who)
    BY <2>2 DEF HasMail
  <2>4. ASSUME NEW f \in Handlers, Announces(f), req[g].who \subseteq req[f].who
        PROVE  Announces(f)' /\ req'[g].who \subseteq req'[f].who
    BY <1>3, <2>2, <2>4 DEF Announces
  <2> QED
    BY <2>1, <2>2, <2>3, <2>4 DEF Wakeups
<1> QED
  BY <1>5, <1>6

LEMMA NotifyKeepsWakeups ==
  ASSUME NEW h \in Handlers, Base, Linked, Wakeups, Notify(h), UNCHANGED mail
  PROVE  Linked' /\ Wakeups'
<1>1. req'[h].pc = "free" /\ req'[h].op = "none"
  BY DEF Notify, NoRequest
<1>2. \A g \in Handlers \ {h} :
        /\ req'[g].pc = req[g].pc /\ req'[g].op = req[g].op /\ req'[g].who = req[g].who
        /\ req'[g].kind = req[g].kind /\ req'[g].found = req[g].found
        /\ req'[g].linked <=> req[g].linked /\ req[g].who \subseteq Retained
        /\ req'[g].changed <=> req[g].changed \/ Hears(g, req[h].who)
  BY NotifiedRequest
<1>3. Linked'
  <2> SUFFICES ASSUME NEW g \in Handlers, Subscribed(g)'
               PROVE  req'[g].linked /\ req'[g].who \subseteq entry'
    BY DEF Linked
  <2>1. g # h
    BY <1>1 DEF Subscribed
  <2>2. Subscribed(g)
    BY <2>1, <1>2 DEF Subscribed
  <2> QED
    BY <2>1, <2>2, <1>2, PollIsRetained DEF Linked, Notify
<1>4. Wakeups'
  <2> SUFFICES ASSUME NEW g \in Handlers, SawNothing(g)', HasMail(req[g].who)'
               PROVE  (\/ req[g].changed
                       \/ \E f \in Handlers : Announces(f) /\ req[g].who \subseteq req[f].who
                       \/ req[g].who \subseteq silent)'
    BY DEF Wakeups
  <2>1. g # h
    BY <1>1 DEF SawNothing
  <2>2. SawNothing(g) /\ req'[g].who = req[g].who
    BY <2>1, <1>2 DEF SawNothing
  <2>3. HasMail(req[g].who)
    BY <2>2 DEF HasMail
  <2>4. Subscribed(g) /\ req[g].pc # "free"
    BY <2>2 DEF SawNothing, Subscribed, Base, RequestsOK
  <2>5. PICK p \in Principals : req[g].who = {p}
    BY <2>4 DEF Base, RequestsOK, Subscribed
  <2>6. req[g].who \subseteq req[h].who => req'[g].changed
    BY <2>1, <2>4, <1>2 DEF Hears, Linked
  <2>7. CASE req[g].changed
    BY <2>1, <2>7, <1>2
  <2>8. ASSUME NEW f \in Handlers, Announces(f), req[g].who \subseteq req[f].who
        PROVE  req'[g].changed \/ (Announces(f)' /\ req'[g].who \subseteq req'[f].who)
    <3>1. CASE f = h
      BY <3>1, <2>6, <2>8
    <3>2. CASE f # h
      BY <3>2, <2>2, <2>8, <1>2 DEF Announces
    <3> QED
      BY <3>1, <3>2
  <2>9. CASE req[g].who \subseteq silent
    BY <2>2, <2>5, <2>6, <2>9 DEF Notify
  <2> QED
    BY <2>2, <2>3, <2>7, <2>8, <2>9 DEF Wakeups
<1> QED
  BY <1>3, <1>4

(* Mail that a task brings is announced by its handler, or silent. *)
LEMMA RunBrings ==
  ASSUME NEW s \in Slots, NEW p \in Principals, NEW ok \in BOOLEAN, Base, Run(s), mail'[p] > 0,
         silent' = {x \in Principals :
           mail'[x] > 0 /\ (x \in silent \/ (mail'[x] > mail[x] /\ (task[s].owner = Nobody \/ ~ok)))}
  PROVE  \/ mail[p] > 0 /\ (p \in silent => p \in silent')
         \/ p \in silent'
         \/ task[s].op = "append" /\ task[s].owner # Nobody /\ p \in task[s].who /\ ok
<1>1. mail[p] \in Nat /\ mail'[p] \in Nat
  BY EffectType, ConstantsAssumption, SMTT(30), SMTT(45) DEF Base, TypeOK, Run
<1>2. mail'[p] > mail[p] => task[s].op = "append" /\ p \in task[s].who
  <2>1. CASE task[s].op = "ack" /\
             mail' = [x \in Principals |-> IF x \in task[s].who /\ mail[x] > 0 THEN mail[x] - 1 ELSE mail[x]]
    BY <2>1, <1>1, SMTT(30), SMTT(45)
  <2>2. CASE task[s].op = "append" /\
             mail' = [x \in Principals |-> IF x \in task[s].who THEN mail[x] + 1 ELSE mail[x]]
    BY <2>2, <1>1, SMTT(30), SMTT(45)
  <2>3. CASE UNCHANGED mail
    BY <2>3, <1>1, SMTT(30), SMTT(45)
  <2> QED
    BY <2>1, <2>2, <2>3 DEF Run, Effect
<1> QED
  BY <1>1, <1>2, SMTT(30), SMTT(45)

LEMMA RunKeepsWakeups ==
  ASSUME NEW s \in Slots, Base, Linked, Wakeups, Run(s)
  PROVE  Linked' /\ Wakeups'
<1>0. PICK ok \in BOOLEAN :
        /\ silent' = {x \in Principals :
             mail'[x] > 0 /\ (x \in silent \/ (mail'[x] > mail[x] /\ (task[s].owner = Nobody \/ ~ok)))}
        /\ IF task[s].owner = Nobody THEN UNCHANGED req
           ELSE req' = [req EXCEPT ![task[s].owner].pc = "returned", ![task[s].owner].found = Found(task[s], ok)]
  BY DEF Run
<1> DEFINE o == task[s].owner
           b == Found(task[s], ok)
<1>1. o # Nobody => /\ o \in Handlers /\ req[o] \in Requests /\ req[o].pc = "running"
                    /\ req[o].op = task[s].op /\ req[o].who = task[s].who
  BY DEF Base, TypeOK, TasksOK
<1>2. o # Nobody => req' = [req EXCEPT ![o].pc = "returned", ![o].found = b]
  BY <1>0
<1>3. o = Nobody => req' = req
  BY <1>0
<1> HIDE DEF o, b
<1>4. o # Nobody => /\ req'[o].pc = "returned" /\ (req'[o].found <=> b)
                    /\ req'[o].op = req[o].op /\ req'[o].who = req[o].who /\ req'[o].kind = req[o].kind
                    /\ req'[o].linked = req[o].linked /\ req'[o].changed = req[o].changed
  <2>1. b \in BOOLEAN
    BY DEF b, Found
  <2> QED
    BY <2>1, <1>1, <1>2, SMTT(30), SMTT(45) DEF Base, TypeOK, Requests
<1>5. \A g \in Handlers \ {o} : req'[g] = req[g]
  BY <1>1, <1>2, <1>3 DEF Base, TypeOK
<1>6. \A g \in Handlers : /\ req'[g].op = req[g].op /\ req'[g].who = req[g].who /\ req'[g].kind = req[g].kind
                          /\ req'[g].linked = req[g].linked /\ req'[g].changed = req[g].changed
  BY <1>3, <1>4, <1>5
<1>7. Linked'
  BY <1>6 DEF Linked, Subscribed, Run
<1>8. Wakeups'
  <2> SUFFICES ASSUME NEW g \in Handlers, SawNothing(g)', HasMail(req[g].who)'
               PROVE  (\/ req[g].changed
                       \/ \E f \in Handlers : Announces(f) /\ req[g].who \subseteq req[f].who
                       \/ req[g].who \subseteq silent)'
    BY DEF Wakeups
  <2>1. /\ req'[g].op = "fetch" /\ req[g].op = "fetch" /\ req[g].kind = "poll"
        /\ req'[g].who = req[g].who /\ req'[g].changed = req[g].changed
    <3>1. Base'
      BY RunKeepsBase
    <3> QED
      BY <3>1, <1>6 DEF SawNothing, Base, RequestsOK
  <2>2. PICK p \in Principals : req[g].who = {p}
    <3>1. req[g].pc # "free"
      BY <2>1, SMTT(30), SMTT(45) DEF Base, RequestsOK, NoRequest
    <3> QED
      BY <2>1, <3>1 DEF Base, RequestsOK
  <2>3. mail'[p] > 0
    BY <2>1, <2>2 DEF HasMail
  <2>4. CASE p \in silent'
    BY <2>1, <2>2, <2>4
  <2>5. CASE task[s].op = "append" /\ task[s].owner # Nobody /\ p \in task[s].who /\ ok
    <3>1. PICK f \in Handlers : f = o
      BY <2>5, <1>1 DEF o
    <3>2. req'[f].op = "append" /\ req'[f].pc = "returned" /\ req'[g].who \subseteq req'[f].who
      BY <3>1, <2>1, <2>2, <2>5, <1>1, <1>4 DEF o
    <3>3. req'[f].found
      BY <3>1, <2>5, <1>4 DEF o, b, Found
    <3> QED
      BY <3>2, <3>3 DEF Announces
  <2>6. CASE mail[p] > 0 /\ (p \in silent => p \in silent')
    <3>1. SawNothing(g)
      <4>1. CASE g = o /\ o # Nobody
        <5>1. UNCHANGED mail
          BY <4>1, <2>1, <1>1 DEF Run, Effect, o
        <5>2. HasMail(task[s].who)
          BY <4>1, <1>1, <2>2, <2>6 DEF HasMail
        <5>3. req'[g].found
          BY <4>1, <5>2, <1>1, <1>4, <2>1 DEF b, Found
        <5> QED
          BY <5>3, <4>1, <1>4 DEF SawNothing
      <4>2. CASE req'[g] = req[g]
        BY <4>2 DEF SawNothing
      <4> QED
        BY <4>1, <4>2, <1>3, <1>5
    <3>2. HasMail(req[g].who)
      BY <2>2, <2>6 DEF HasMail
    <3>3. ASSUME NEW f \in Handlers, Announces(f), req[g].who \subseteq req[f].who
          PROVE  Announces(f)' /\ req'[g].who \subseteq req'[f].who
      <4>1. f # o \/ o = Nobody
        BY <3>3, <1>1 DEF Announces
      <4> QED
        BY <4>1, <3>3, <2>1, <1>3, <1>5 DEF Announces
    <3>4. req[g].who \subseteq silent => req'[g].who \subseteq silent'
      BY <2>1, <2>2, <2>6
    <3> QED
      BY <3>1, <3>2, <3>3, <3>4, <2>1 DEF Wakeups
  <2> QED
    BY <2>3, <2>4, <2>5, <2>6, <1>0, RunBrings
<1> QED
  BY <1>7, <1>8

LEMMA AbandonKeepsWakeups ==
  ASSUME NEW gone \in SUBSET Handlers, Base, Linked, Wakeups, Abandon(gone), UNCHANGED <<mail, entry>>
  PROVE  Linked' /\ Wakeups'
<1>1. /\ \A g \in gone : req'[g].pc = "free" /\ req'[g].op = "none"
      /\ \A g \in Handlers \ gone : req'[g] = req[g]
  BY DEF Abandon, NoRequest
<1>2. Linked'
  BY <1>1 DEF Linked, Subscribed
<1>3. Wakeups'
  <2> SUFFICES ASSUME NEW g \in Handlers, SawNothing(g)', HasMail(req[g].who)'
               PROVE  (\/ req[g].changed
                       \/ \E f \in Handlers : Announces(f) /\ req[g].who \subseteq req[f].who
                       \/ req[g].who \subseteq silent)'
    BY DEF Wakeups
  <2>1. g \notin gone /\ req'[g] = req[g]
    BY <1>1 DEF SawNothing
  <2>2. SawNothing(g) /\ HasMail(req[g].who)
    BY <2>1 DEF SawNothing, HasMail
  <2>3. PICK p \in Principals : req[g].who = {p}
    <3>1. req[g].pc # "free" /\ req[g].kind = "poll"
      BY <2>2 DEF SawNothing, Base, RequestsOK
    <3> QED
      BY <3>1 DEF Base, RequestsOK
  <2>4. mail[p] > 0
    BY <2>2, <2>3 DEF HasMail
  <2>5. ASSUME NEW f \in Handlers, Announces(f), req[g].who \subseteq req[f].who
        PROVE  req'[g].who \subseteq silent' \/ (Announces(f)' /\ req'[g].who \subseteq req'[f].who)
    <3>1. CASE f \in gone
      BY <3>1, <2>1, <2>3, <2>4, <2>5 DEF Abandon, Announces
    <3>2. CASE f \notin gone
      BY <3>2, <2>1, <2>5, <1>1 DEF Announces
    <3> QED
      BY <3>1, <3>2
  <2>6. silent \subseteq silent'
    BY DEF Abandon
  <2> QED
    BY <2>1, <2>2, <2>5, <2>6 DEF Wakeups
<1> QED
  BY <1>2, <1>3

LEMMA StepKeepsWakeups ==
  ASSUME Base, Linked, Wakeups, [Next]_vars
  PROVE  Linked' /\ Wakeups'
<1>1. CASE UNCHANGED <<mail, req, entry, silent>>
  BY <1>1 DEF Linked, Wakeups, Subscribed, SawNothing, HasMail, Announces
<1>2. ASSUME NEW h \in Handlers, Continue(h)
      PROVE  Linked' /\ Wakeups'
  <2>1. req[h].pc = "returned" /\ UNCHANGED mail
    BY <1>2 DEF Continue
  <2>2. CASE req[h].op = "auth" /\ req[h].kind = "poll" /\ Subscribe(h) /\ UNCHANGED silent
    BY <2>1, <2>2, SubscribeKeepsWakeups
  <2>3. CASE Notify(h)
    BY <2>1, <2>3, NotifyKeepsWakeups
  <2>4. CASE (req[h].op # "append" \/ ~req[h].found) /\ Respond(h) /\ UNCHANGED <<entry, silent>>
    BY <2>1, <2>4, HandlerKeepsWakeups DEF Announces
  <2>5. CASE req[h].op = "auth" /\ req[h].kind # "poll" /\ Goto(h, req[h].kind) /\ UNCHANGED <<entry, silent>>
    BY <1>2, <2>1, <2>5, HandlerKeepsWakeups
  <2>6. CASE req[h].op = "fetch" /\ ~req[h].found /\ Hold(h) /\ UNCHANGED <<entry, silent>>
    BY <1>2, <2>1, <2>6, HandlerKeepsWakeups
  <2> QED
    BY <1>2, <2>2, <2>3, <2>4, <2>5, <2>6 DEF Continue
<1>3. ASSUME NEW h \in Handlers, Accept(h) \/ Execute(h) \/ Wake(h) \/ Expire(h) \/ LastFetch(h)
      PROVE  Linked' /\ Wakeups'
  <2>1. UNCHANGED <<mail, entry, silent>>
    BY <1>3 DEF Accept, Execute, Wake, Expire, LastFetch
  <2> QED
    BY <1>3, <2>1, HandlerKeepsWakeups
<1>4. ASSUME NEW h \in Handlers, DrainWake(h)
      PROVE  Linked' /\ Wakeups'
  BY <1>4, HandlerKeepsWakeups DEF DrainWake, Announces
<1>5. ASSUME NEW h \in Handlers, Disconnect(h)
      PROVE  Linked' /\ Wakeups'
  <2>1. {h} \in SUBSET Handlers
    OBVIOUS
  <2> QED
    BY <1>5, <2>1, AbandonKeepsWakeups DEF Disconnect
<1>6. CASE ForceShutdown
  <2>1. {h \in Handlers : req[h].pc # "free"} \in SUBSET Handlers
    OBVIOUS
  <2> QED
    BY <1>6, <2>1, AbandonKeepsWakeups DEF ForceShutdown
<1>7. ASSUME NEW s \in Slots, Run(s)
      PROVE  Linked' /\ Wakeups'
  BY <1>7, RunKeepsWakeups
<1>8. ASSUME NEW s \in Slots, Normalized(s)
      PROVE  UNCHANGED <<mail, req, entry, silent>>
  BY <1>8 DEF Normalized
<1> QED
  BY <1>1, <1>2, <1>3, <1>4, <1>5, <1>6, <1>7, <1>8 DEF Next, Step, Shutdown, ListenerStopped, Normalize, Close, vars

-----------------------------------------------------------------------------
(* Tasks that go on without a handler *)

(* A step that leaves no more of them. *)
LEMMA FewerOrphans ==
  ASSUME Leftovers, Base, Orphans' \subseteq Orphans, disconnects' = disconnects,
         phase \in {"stopped", "failed"} => phase' \in {"stopped", "failed"},
         phase' = "normalizing" => Drained'
  PROVE  Leftovers'
<1>1. CASE phase' \in {"stopped", "failed"}
  BY <1>1 DEF Leftovers
<1>2. CASE phase' \notin {"stopped", "failed"}
  <2>1. IsFiniteSet(Orphans) /\ Cardinality(Orphans) <= disconnects
    BY <1>2 DEF Leftovers
  <2>2. PICK T \in SUBSET Orphans : T = Orphans'
    OBVIOUS
  <2>3. IsFiniteSet(T) /\ Cardinality(T) <= Cardinality(Orphans)
    BY <2>1, FS_Subset
  <2>4. Cardinality(T) \in Nat /\ Cardinality(Orphans) \in Nat /\ disconnects \in Nat
    BY <2>1, <2>3, FS_CardinalityType, SMTT(30), SMTT(45) DEF Base, TypeOK
  <2>5. IsFiniteSet(Orphans') /\ Cardinality(Orphans') <= disconnects'
    BY <2>1, <2>2, <2>3, <2>4, SMTT(30), SMTT(45)
  <2> QED
    BY <2>5 DEF Leftovers
<1> QED
  BY <1>1, <1>2

LEMMA DisconnectKeepsLeftovers ==
  ASSUME NEW h \in Handlers, Base, Leftovers, Disconnect(h)
  PROVE  Leftovers'
<1>1. phase' = phase /\ disconnects' = disconnects + 1 /\ Abandon({h}) /\ disconnects \in Nat
  BY SMTT(30), SMTT(45) DEF Disconnect, Base, TypeOK
<1>2. phase # "normalizing"
  BY DEF Disconnect, Leftovers, Drained
<1>3. CASE phase \in {"stopped", "failed"}
  BY <1>1, <1>3 DEF Leftovers
<1>4. CASE phase \notin {"stopped", "failed"}
  <2>1. IsFiniteSet(Orphans) /\ Cardinality(Orphans) <= disconnects
    BY <1>4 DEF Leftovers
  <2>2. \A s \in Slots : /\ task'[s].op = task[s].op
                         /\ task'[s].owner = IF task[s].owner = h THEN Nobody ELSE task[s].owner
    BY <1>1 DEF Abandon, Base, TypeOK
  <2>3. PICK x : Orphans' \subseteq Orphans \cup {x}
    <3>1. CASE \E s \in Slots : task[s].owner = h
      <4>1. PICK s \in Slots : task[s].owner = h
        BY <3>1
      <4>2. \A r \in Slots : task[r].owner = h => r = s
        BY <4>1, ConstantsAssumption DEF Base, TasksOK
      <4>3. Orphans' \subseteq Orphans \cup {s}
        BY <2>2, <4>2 DEF Orphans
      <4> QED
        BY <4>3
    <3>2. CASE ~\E s \in Slots : task[s].owner = h
      <4>1. Orphans' \subseteq Orphans \cup {h}
        BY <2>2, <3>2 DEF Orphans
      <4> QED
        BY <4>1
    <3> QED
      BY <3>1, <3>2
  <2>4. PICK T \in SUBSET (Orphans \cup {x}) : T = Orphans'
    BY <2>3
  <2>5. /\ IsFiniteSet(Orphans \cup {x}) /\ Cardinality(Orphans) \in Nat
        /\ Cardinality(Orphans \cup {x}) <= Cardinality(Orphans) + 1
    <3>1. Cardinality(Orphans) \in Nat
      BY <2>1, FS_CardinalityType
    <3>2. /\ IsFiniteSet(Orphans \cup {x})
          /\ Cardinality(Orphans \cup {x}) \in {Cardinality(Orphans), Cardinality(Orphans) + 1}
      BY <2>1, FS_AddElement
    <3> QED
      BY <3>1, <3>2, SMTT(30), SMTT(45)
  <2>6. IsFiniteSet(T) /\ Cardinality(T) <= Cardinality(Orphans \cup {x})
    BY <2>5, FS_Subset
  <2>7. Cardinality(T) \in Nat /\ Cardinality(Orphans \cup {x}) \in Nat
    BY <2>5, <2>6, FS_CardinalityType
  <2>8. Cardinality(T) <= disconnects + 1
    BY <2>1, <2>5, <2>6, <2>7, <1>1, SMTT(30), SMTT(45)
  <2>9. IsFiniteSet(Orphans') /\ Cardinality(Orphans') <= disconnects'
    BY <2>4, <2>6, <2>8, <1>1
  <2> QED
    BY <2>9, <1>1, <1>2 DEF Leftovers
<1> QED
  BY <1>3, <1>4

LEMMA StepKeepsLeftovers ==
  ASSUME Base, Leftovers, [Next]_vars
  PROVE  Leftovers'
<1>1. ASSUME UNCHANGED <<task, phase, disconnects>>, phase = "normalizing" => Drained'
      PROVE  Leftovers'
  BY <1>1, FewerOrphans DEF Orphans
<1>2. ASSUME NEW h \in Handlers, Accept(h)
      PROVE  Leftovers'
  BY <1>1, <1>2 DEF Accept
<1>3. ASSUME NEW h \in Handlers, Step(h) \/ Expire(h)
      PROVE  Leftovers'
  <2>1. phase' = phase /\ disconnects' = disconnects
    BY <1>3 DEF Step, Execute, Continue, Wake, DrainWake, LastFetch, Expire
  <2>2. req[h].pc # "free"
    BY <1>3, SMTT(30), SMTT(45) DEF Step, Execute, Continue, Wake, DrainWake, LastFetch, Expire, Subscribed, Base, RequestsOK, NoRequest
  <2>3. phase # "normalizing"
    BY <2>2 DEF Leftovers, Drained
  <2>4. CASE UNCHANGED task
    BY <2>1, <2>3, <2>4, <1>1
  <2>5. CASE /\ Permits # {}
             /\ task' = [task EXCEPT ![FreePermit] = [op |-> req[h].op, owner |-> h, who |-> req[h].who]]
    <3>1. Orphans' \subseteq Orphans
      <4>1. FreePermit \in Slots
        BY <2>5, FreePermitIsFree
      <4> QED
        BY <2>5, <4>1, ConstantsAssumption DEF Orphans, Base, TypeOK
    <3> QED
      BY <3>1, <2>1, <2>3, FewerOrphans
  <2> QED
    BY <1>3, <2>4, <2>5 DEF Step, Execute, Continue, Wake, DrainWake, LastFetch, Expire
<1>4. ASSUME NEW s \in Slots, Run(s)
      PROVE  Leftovers'
  <2>1. phase' = phase /\ disconnects' = disconnects /\ task' = [task EXCEPT ![s] = NoTask]
    BY <1>4 DEF Run
  <2>2. Orphans' \subseteq Orphans
    BY <2>1 DEF Orphans, Base, TypeOK, NoTask
  <2>3. phase = "normalizing" => UNCHANGED req
    BY <1>4 DEF Leftovers, Drained, Run, Base, TypeOK, TasksOK
  <2>4. phase = "normalizing" => Drained'
    BY <2>3 DEF Leftovers, Drained
  <2> QED
    BY <2>1, <2>2, <2>4, FewerOrphans
<1>5. ASSUME NEW s \in Slots, Normalized(s)
      PROVE  Leftovers'
  BY <1>5 DEF Normalized, Leftovers
<1>6. CASE Shutdown \/ ListenerStopped \/ Close
  <2>1. Orphans' \subseteq Orphans
    BY <1>6 DEF Shutdown, ListenerStopped, Close, Orphans
  <2> QED
    BY <1>6, <2>1, FewerOrphans DEF Shutdown, ListenerStopped, Close
<1>7. CASE Normalize
  <2>1. Drained' /\ disconnects' = disconnects /\ phase \notin {"stopped", "failed"}
    BY <1>7 DEF Normalize, Drained
  <2>2. Orphans' \subseteq Orphans
    <3>1. CASE UNCHANGED task
      BY <3>1 DEF Orphans
    <3>2. CASE /\ Permits # {}
               /\ task' = [task EXCEPT ![FreePermit] = [NoTask EXCEPT !.op = "normalize"]]
      <4>1. FreePermit \in Slots
        BY <3>2, FreePermitIsFree
      <4> QED
        BY <3>2, <4>1 DEF Orphans, Base, TypeOK, NoTask
    <3> QED
      BY <1>7, <3>1, <3>2 DEF Normalize
  <2> QED
    BY <2>1, <2>2, FewerOrphans
<1>8. CASE ForceShutdown
  BY <1>8 DEF ForceShutdown, Leftovers
<1>9. CASE UNCHANGED vars
  BY <1>1, <1>9 DEF vars, Leftovers, Drained
<1> QED
  BY <1>2, <1>3, <1>4, <1>5, <1>6, <1>7, <1>8, <1>9, DisconnectKeepsLeftovers DEF Next

-----------------------------------------------------------------------------
(* What follows *)

(* The invariant holds for every number of handlers, principals, permits   *)
(* and disconnects.                                                        *)
THEOREM ServingInvariant == Spec => []Invariant
<1>1. Init => Invariant
  <2> SUFFICES ASSUME Init PROVE Invariant
    OBVIOUS
  <2>1. \A h \in Handlers : req[h] = NoRequest
    BY DEF Init
  <2>2. \A s \in Slots : task[s].owner = Nobody /\ task[s].op = "none"
    BY DEF Init, NoTask
  <2>3. TypeOK
    BY NoRequestType, ConstantsAssumption, SMTT(30), SMTT(45) DEF Init, TypeOK, NoTask, Operations
  <2>4. RequestsOK /\ Linked /\ Wakeups
    BY <2>1, SMTT(30), SMTT(45) DEF RequestsOK, Linked, Wakeups, Subscribed, SawNothing, NoRequest
  <2>5. TasksOK /\ Orphans = {}
    BY <2>2 DEF TasksOK, Orphans
  <2>6. Leftovers
    BY <2>5, FS_EmptySet, SMTT(30), SMTT(45) DEF Leftovers, Init
  <2> QED
    BY <2>3, <2>4, <2>5, <2>6 DEF Invariant, Base
<1>2. Invariant /\ [Next]_vars => Invariant'
  BY StepKeepsBase, StepKeepsWakeups, StepKeepsLeftovers DEF Invariant
<1> QED
  BY <1>1, <1>2, PTL DEF Spec

(* A held poll whose principal has mail has been woken, or will be by the  *)
(* append that brought it: InboxArrivals loses no wakeup however requests, *)
(* disconnects and the pruning of the map are interleaved.                 *)
THEOREM NoWakeupIsMissed == Spec => []NoMissedWakeup
<1>1. Invariant => NoMissedWakeup
  BY DEF Invariant, Base, Linked, Wakeups, SawNothing, Announces, NoMissedWakeup
<1> QED
  BY <1>1, ServingInvariant, PTL

(* Server::serve normalises the database after every handler is done, with *)
(* no task at work but those that disconnected clients left behind.        *)
THEOREM DrainPrecedesNormalize == Spec => []NormalizesAlone
<1>1. Invariant => NormalizesAlone
  <2> SUFFICES ASSUME Invariant, phase = "normalizing"
               PROVE  Cardinality({s \in Slots : task[s].op \notin {"none", "normalize"}}) <= disconnects
    BY DEF NormalizesAlone
  <2>1. Drained
    BY DEF Invariant, Leftovers
  <2>2. \A s \in Slots : task[s].owner = Nobody
    BY <2>1 DEF Invariant, Base, TypeOK, TasksOK, Drained
  <2>3. {s \in Slots : task[s].op \notin {"none", "normalize"}} = Orphans
    BY <2>2 DEF Orphans
  <2> QED
    BY <2>3 DEF Invariant, Leftovers
<1> QED
  BY <1>1, ServingInvariant, PTL
=============================================================================
