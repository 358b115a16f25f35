---------------------------- MODULE InboxWorker ----------------------------
(***************************************************************************)
(* The inbox client (crates/journal-inbox-worker) with the file runtime    *)
(* (crates/journal-runtime-file): a tick retries one acknowledgment,       *)
(* fetches a page when it has none, hands one item to the spool and        *)
(* acknowledges it. All of its state is volatile; the journal, the spool   *)
(* and the reader of the spool are not. A tick reads the clock once, so    *)
(* time passes between ticks; delays are kept as the time that is left.    *)
(***************************************************************************)
EXTENDS Naturals, Sequences, FiniteSets, SequencesExt

CONSTANTS
  Targets,         \* runtime targets a configuration may route to
  NoTarget,        \* no target: no published file, or no configuration read
  Unroutable,      \* items for which no route is configured
  MaxItems,        \* bound: items of the inbox
  PageLimit,       \* PAGE_LIMIT
  PendingLimit,    \* PENDING_LIMIT
  FailureLimit,    \* FAILURE_LIMIT
  MaxShift,        \* the largest exponent of a backoff, 8
  MaxFaults,       \* bound: failed calls, crashes and machine stops
  MaxRestores      \* bound: restores of the journal

Ids == 1..MaxItems

ASSUME ConstantsAssumption ==
  /\ Targets # {} /\ NoTarget \notin Targets
  /\ Unroutable \subseteq Ids
  /\ MaxItems \in Nat /\ MaxShift \in Nat /\ MaxFaults \in Nat /\ MaxRestores \in Nat
  /\ PageLimit \in Nat \ {0} /\ PendingLimit \in Nat \ {0} /\ FailureLimit \in Nat \ {0}

VARIABLES
  central,     \* the journal's inbox: items, acknowledged ones, head, epoch
  saved,       \* the backup that a restore brings back
  spool,       \* the target named in an item's published file, if there is one
  durable,     \* items whose file survives a machine stop
  consumed,    \* items the reader has taken from the spool
  at,          \* where the worker is in its tick, or "down"
  target,      \* its configured runtime target
  item,        \* the item in hand
  page, cursor, cursor_restart_used, pending, failures, retry,   \* Worker
  handed,      \* items handed over since the worker started or a restore
  faults

worker == <<target, item, page, cursor, cursor_restart_used, pending, failures, retry>>
vars == <<central, saved, spool, durable, consumed, at, worker, handed, faults>>

-----------------------------------------------------------------------------
(* Retry *)

NoRetry == [failures |-> 0, wait |-> 0]

(* The count matters only up to the largest exponent. *)
Fail(r) ==
  LET shift == IF r.failures < MaxShift THEN r.failures ELSE MaxShift
  IN [failures |-> shift + 1, wait |-> 2^shift]

Later(r) == [r EXCEPT !.wait = IF @ > 0 THEN @ - 1 ELSE 0]

NoCursor == [after |-> 0, bound |-> 0, epoch |-> 0]

(* An entry of the failure map exists once it has failed. *)
Failing == {i \in Ids : failures[i].failures > 0}

Fault == faults < MaxFaults /\ faults' = faults + 1

Go(where) == at' = where

-----------------------------------------------------------------------------
(* acknowledge: the call and what the worker makes of its answer *)

(* An acknowledged item leaves the page it may still wait in. *)
ForgetItem(i) == SelectSeq(page, LAMBDA x : x # i)

Acknowledged(i, rest) ==
  /\ i \in central.items
  /\ central' = [central EXCEPT !.acked = @ \cup {i}]
  /\ page' = ForgetItem(i)
  /\ retry' = NoRetry
  /\ pending' = rest
  /\ UNCHANGED faults

(* 404: the journal no longer has the item. *)
AckInaccessible(i, rest) ==
  /\ i \notin central.items
  /\ pending' = rest
  /\ UNCHANGED <<central, page, retry, faults>>

BugAckDropped(i, r, rest) ==
  /\ Fault
  /\ UNCHANGED <<central, page>>
  /\ pending' = rest
  /\ retry' = Fail(retry)

(* A transient failure: the call, or only its answer, was lost. *)
AckPending(i, r, rest) ==
  /\ Fault
  /\ \/ UNCHANGED central
     \/ i \in central.items /\ central' = [central EXCEPT !.acked = @ \cup {i}]
  /\ pending' = Append(rest, [id |-> i, retry |-> Fail(r)])
  /\ retry' = Fail(retry)
  /\ UNCHANGED page

-----------------------------------------------------------------------------
(* tick *)

Due == {k \in DOMAIN pending : pending[k].retry.wait = 0}

FirstDue == CHOOSE k \in Due : \A j \in Due : k <= j

(* It starts with the first pending acknowledgment that is due. *)
Tick ==
  /\ at = "idle"
  /\ retry.wait = 0
  /\ \/ Due = {} /\ Go("fetch") /\ UNCHANGED <<central, page, retry, pending, faults>>
     \/ /\ Due # {}
        /\ LET p == pending[FirstDue]
               rest == RemoveAt(pending, FirstDue)
           IN \/ (Acknowledged(p.id, rest) \/ AckInaccessible(p.id, rest)) /\ Go("fetch")
              \/ AckPending(p.id, p.retry, rest) /\ Go("idle")
  /\ UNCHANGED <<saved, spool, durable, consumed, target, item, cursor, cursor_restart_used, failures, handed>>

(* The journal's answer: unacknowledged items in order, in a pass whose    *)
(* bound is set by its first page (see Journal).                           *)
Unacked(c) ==
  SetToSortSeq({i \in central.items \ central.acked : c.after < i /\ i <= c.bound}, <)

FetchOk ==
  /\ cursor = NoCursor \/ cursor.epoch = central.epoch
  /\ LET c == IF cursor = NoCursor
                THEN [after |-> 0, bound |-> central.head, epoch |-> central.epoch] ELSE cursor
         rows == Unacked(c)
         more == Len(rows) > PageLimit
     IN /\ page' = SubSeq(rows, 1, IF more THEN PageLimit ELSE Len(rows))
        /\ cursor' = IF more THEN [c EXCEPT !.after = rows[PageLimit]] ELSE NoCursor
        /\ cursor_restart_used' = (more /\ cursor_restart_used)
  /\ retry' = NoRetry
  /\ Go(IF page' = <<>> THEN "idle" ELSE "handoff")
  /\ UNCHANGED <<target, item, pending, failures, faults>>

(* 400: a restore has made the cursor invalid; once per pass it starts over. *)
FetchRestarted ==
  /\ cursor # NoCursor /\ cursor.epoch # central.epoch
  /\ ~cursor_restart_used
  /\ cursor' = NoCursor
  /\ cursor_restart_used' = TRUE
  /\ Go("idle")
  /\ UNCHANGED <<target, item, page, pending, failures, retry, faults>>

FetchFailed ==
  /\ Fault
  /\ retry' = Fail(retry)
  /\ Go("idle")
  /\ UNCHANGED <<target, item, page, cursor, cursor_restart_used, pending, failures>>

PendingFull == Len(pending) >= PendingLimit

Fetch ==
  /\ at = "fetch"
  /\ IF PendingFull THEN Go("idle") /\ UNCHANGED <<worker, faults>>
     ELSE \/ page # <<>> /\ Go("handoff") /\ UNCHANGED <<worker, faults>>
          \/ page = <<>> /\ (FetchOk \/ FetchRestarted \/ FetchFailed)
  /\ UNCHANGED <<central, saved, spool, durable, consumed, handed>>

(* It waits for its acknowledgment, or for its next attempt. *)
Blocked(i) == failures[i].wait > 0 \/ \E k \in DOMAIN pending : pending[k].id = i

(* A handoff failed: the attempt is remembered, in place of the one that is *)
(* due soonest when there is no room.                                       *)
RecordFailure(i) ==
  LET others == Failing \ {i}
      soonest == {j \in others : \A k \in others : failures[j].wait <= failures[k].wait}
  IN \E evicted \in IF Cardinality(others) >= FailureLimit
                      THEN {{j} : j \in soonest} ELSE {{}} :
       failures' = [j \in Ids |-> IF j = i THEN Fail(failures[i])
                                  ELSE IF j \in evicted THEN NoRetry ELSE failures[j]]

BugHeadStays == IF Head(page) \in Unroutable THEN page ELSE Tail(page)

(* An item is taken off the page before it is tried. *)
RestOfPage == Tail(page)

Handoff ==
  /\ at = "handoff"
  /\ LET i == Head(page) IN
     /\ page' = RestOfPage
     /\ \/ Blocked(i) /\ Go("idle") /\ UNCHANGED <<item, failures>>
        \/ ~Blocked(i) /\ i \in Unroutable /\ RecordFailure(i) /\ Go("idle") /\ UNCHANGED item
        \/ ~Blocked(i) /\ i \notin Unroutable /\ item' = i /\ Go("inject") /\ UNCHANGED failures
  /\ UNCHANGED <<central, saved, spool, durable, consumed, target, cursor, cursor_restart_used,
                 pending, retry, handed, faults>>

-----------------------------------------------------------------------------
(* FileRuntime::inject *)

HandoffFailed ==
  /\ RecordFailure(item)
  /\ Go("idle")
  /\ UNCHANGED <<spool, durable>>

(* A file that is there is a replay, or a conflict; else one is published. *)
Inject ==
  /\ at = "inject"
  /\ \/ /\ spool[item] = target
        /\ Go("resync") /\ UNCHANGED <<spool, durable, failures, faults>>
     \/ /\ spool[item] \notin {target, NoTarget}
        /\ HandoffFailed /\ UNCHANGED faults
     \/ /\ spool[item] = NoTarget
        /\ \/ Fault /\ HandoffFailed
           \/ /\ spool' = [spool EXCEPT ![item] = target]
              /\ Go("sync") /\ UNCHANGED <<durable, failures, faults>>
  /\ UNCHANGED <<central, saved, consumed, target, item, page, cursor, cursor_restart_used, pending, retry, handed>>

BugSynced == durable' = durable \cup {i \in {item} : at = "sync" /\ spool[i] # NoTarget}

(* The file and its directory are flushed before inject returns. *)
Synced == durable' = durable \cup {i \in {item} : spool[i] # NoTarget}

(* Publishing ends with the directory; a replay opens the file again, which *)
(* its reader may have taken by now.                                        *)
Sync ==
  /\ at \in {"sync", "resync"}
  /\ \/ /\ at = "sync" \/ spool[item] # NoTarget
        /\ Synced
        /\ failures' = [failures EXCEPT ![item] = NoRetry]
        /\ handed' = handed \cup {item}
        /\ Go("ack")
        /\ UNCHANGED <<spool, faults>>
     \/ /\ \/ Fault
           \/ at = "resync" /\ spool[item] = NoTarget /\ UNCHANGED faults
        /\ HandoffFailed
        /\ UNCHANGED handed
  /\ UNCHANGED <<central, saved, consumed, target, item, page, cursor, cursor_restart_used, pending, retry>>

(* The end of the tick: the item it handed over is acknowledged. *)
Ack ==
  /\ at = "ack"
  /\ \/ Acknowledged(item, pending)
     \/ AckInaccessible(item, pending)
     \/ AckPending(item, NoRetry, pending)
  /\ Go("idle")
  /\ UNCHANGED <<saved, spool, durable, consumed, target, item, cursor, cursor_restart_used, failures, handed>>

(* Time between ticks. *)
Elapse ==
  /\ at = "idle"
  /\ retry' = Later(retry)
  /\ pending' = [k \in DOMAIN pending |-> [pending[k] EXCEPT !.retry = Later(@)]]
  /\ failures' = [i \in Ids |-> Later(failures[i])]
  /\ <<retry, pending, failures>>' # <<retry, pending, failures>>
  /\ UNCHANGED <<central, saved, spool, durable, consumed, at, target, item, page, cursor, cursor_restart_used, handed, faults>>

-----------------------------------------------------------------------------
(* The process and its environment *)

(* Nothing of the worker is kept. *)
Ended ==
  /\ Go("down")
  /\ target' = NoTarget /\ item' = 0
  /\ page' = <<>> /\ cursor' = NoCursor /\ cursor_restart_used' = FALSE
  /\ pending' = <<>> /\ failures' = [i \in Ids |-> NoRetry] /\ retry' = NoRetry
  /\ handed' = {}

Start ==
  /\ at = "down"
  /\ target' \in Targets
  /\ Go("idle")
  /\ UNCHANGED <<central, saved, spool, durable, consumed, faults,
                 item, page, cursor, cursor_restart_used, pending, failures, retry, handed>>

(* A second invalid cursor in one pass: the tick returns an error. *)
FetchFatal ==
  /\ at = "fetch"
  /\ ~PendingFull /\ page = <<>>
  /\ cursor # NoCursor /\ cursor.epoch # central.epoch /\ cursor_restart_used
  /\ Ended
  /\ UNCHANGED <<central, saved, spool, durable, consumed, faults>>

(* The process is killed, or a call is answered with what ends it: that its *)
(* credential is not accepted, or something it cannot use.                  *)
Exit ==
  /\ at # "down"
  /\ Fault
  /\ Ended
  /\ UNCHANGED <<central, saved, spool, durable, consumed>>

(* The machine stops: a name that was not flushed may be gone. *)
MachineStop ==
  /\ Fault
  /\ \E lost \in SUBSET (Ids \ durable) :
       spool' = [i \in Ids |-> IF i \in lost THEN NoTarget ELSE spool[i]]
  /\ Ended
  /\ UNCHANGED <<central, saved, durable, consumed>>

(* The reader takes a file out of the spool. *)
Read(i) ==
  /\ spool[i] # NoTarget
  /\ spool' = [spool EXCEPT ![i] = NoTarget]
  /\ durable' = durable \ {i}
  /\ consumed' = consumed \cup {i}
  /\ UNCHANGED <<central, saved, at, worker, handed, faults>>

Arrive ==
  /\ central.head < MaxItems
  /\ central' = [central EXCEPT !.head = @ + 1, !.items = @ \cup {central.head + 1}]
  /\ UNCHANGED <<saved, spool, durable, consumed, at, worker, handed, faults>>

Backup ==
  /\ central.epoch <= MaxRestores
  /\ saved' = [items |-> central.items, acked |-> central.acked]
  /\ UNCHANGED <<central, spool, durable, consumed, at, worker, handed, faults>>

(* Items and acknowledgments since the backup are lost, numbers are not. *)
Restore ==
  /\ central.epoch <= MaxRestores
  /\ central' = [central EXCEPT !.items = saved.items, !.acked = saved.acked, !.epoch = @ + 1]
  /\ handed' = {}
  /\ UNCHANGED <<saved, spool, durable, consumed, at, worker, faults>>

Init ==
  /\ central = [items |-> {}, acked |-> {}, head |-> 0, epoch |-> 1]
  /\ saved = [items |-> {}, acked |-> {}]
  /\ spool = [i \in Ids |-> NoTarget] /\ durable = {} /\ consumed = {}
  /\ at = "down" /\ target = NoTarget /\ item = 0
  /\ page = <<>> /\ cursor = NoCursor /\ cursor_restart_used = FALSE
  /\ pending = <<>> /\ failures = [i \in Ids |-> NoRetry] /\ retry = NoRetry
  /\ handed = {} /\ faults = 0

Work == Start \/ Tick \/ Fetch \/ FetchFatal \/ Handoff \/ Inject \/ Sync \/ Ack

Next ==
  \/ Work \/ Elapse \/ Exit \/ MachineStop
  \/ \E i \in Ids : Read(i)
  \/ Arrive \/ Backup \/ Restore

Spec == Init /\ [][Next]_vars

(* The worker's loop goes on ticking and is restarted when it ends. A tick  *)
(* takes no time here, so that time passes is a strong fairness condition:  *)
(* between two ticks it can, during them it cannot.                         *)
FairSpec == Spec /\ WF_vars(Work) /\ SF_vars(Elapse)

-----------------------------------------------------------------------------
(* Properties *)

Retries == [failures : 0..(MaxShift + 1), wait : 0..(2^MaxShift)]

(* Every variable has its type, and the two queues keep their limits. *)
TypeOK ==
  /\ central \in [items : SUBSET Ids, acked : SUBSET Ids, head : 0..MaxItems, epoch : 1..(MaxRestores + 1)]
  /\ saved \in [items : SUBSET Ids, acked : SUBSET Ids]
  /\ spool \in [Ids -> Targets \cup {NoTarget}]
  /\ durable \subseteq Ids /\ consumed \subseteq Ids /\ handed \subseteq Ids
  /\ at \in {"down", "idle", "fetch", "handoff", "inject", "sync", "resync", "ack"}
  /\ target \in Targets \cup {NoTarget} /\ item \in 0..MaxItems
  /\ page \in Seq(Ids) /\ Len(page) <= PageLimit
  /\ cursor \in [after : 0..MaxItems, bound : 0..MaxItems, epoch : 0..(MaxRestores + 1)]
  /\ cursor_restart_used \in BOOLEAN
  /\ pending \in Seq([id : Ids, retry : Retries]) /\ Len(pending) <= PendingLimit
  /\ failures \in [Ids -> Retries] /\ Cardinality(Failing) <= FailureLimit
  /\ retry \in Retries
  /\ faults \in 0..MaxFaults

(* "The worker acknowledges only after inject returns", and what inject     *)
(* published survives a machine stop: an acknowledged item is in the spool  *)
(* for good, or its reader has it. No crash, lost answer, full disk or      *)
(* restore makes the journal forget an item nobody was given.               *)
AckedIsKept == TypeOK /\ central.acked \subseteq durable \cup consumed

(* While the worker runs and the journal is not restored, an item that was  *)
(* handed over is not handed over again, however its acknowledgment fares:  *)
(* not from the page it is on, nor from one fetched before it was heard of. *)
(* A failed acknowledgment is tried again before anything new is handed     *)
(* over, so that no second one ever joins it in the queue.                  *)
HandedOverOnce ==
  [][/\ at = "inject" => item \notin handed
     /\ Len(pending') <= 1]_vars

(* Its file is there under the target of an earlier configuration, and its  *)
(* reader has not taken it: inject refuses to overwrite it.                 *)
Conflicting(i) == at # "down" /\ spool[i] \notin {NoTarget, target}

(* Every item that has a route is acknowledged in the end or lost by a      *)
(* restore, unless the file of an earlier target keeps coming in its way:   *)
(* items without a route, failures and full queues never hold up the others *)
(* for good.                                                                *)
RoutableAcknowledged ==
  \A i \in Ids \ Unroutable :
    <>[]~Conflicting(i) => ((i \in central.items) ~> (i \in central.acked \/ i \notin central.items))
=============================================================================
