--------------------------- MODULE RecoveryAudit ---------------------------
(***************************************************************************)
(* Protected storage of the journal: central SQLite databases, the         *)
(* external recovery audit that every mutation is announced to before it   *)
(* commits, abrupt stops, protected startup (crates/journal-storage-       *)
(* sqlite: lib.rs, recovery_audit.rs, crash_recovery.rs) and the offline   *)
(* operator command journal-recover.                                       *)
(*                                                                         *)
(* Any number of processes share one audit. A process is a daemon          *)
(* (Database::open_protected, then service transactions) or one run of     *)
(* journal-recover. Database files are named by Paths; a file is what a    *)
(* SQLite connection would read (main file and WAL together).              *)
(***************************************************************************)
EXTENDS Naturals, FiniteSets

CONSTANTS
  Procs,       \* processes that may open the database or run journal-recover
  Paths,       \* database paths: live file, backups, restore destinations
  Homes,       \* the paths daemons are configured with
  Creds,       \* credentials that may ever be issued
  UsedKinds,   \* the kinds of mutation that services make in this instance
  MaxRev,      \* bound on the audit revision
  MaxCrashes,  \* bound on abrupt stops
  MaxRecoveries, \* bound on verified crash recoveries
  None,        \* "no value": a free lock, a cleared snapshot body, no file...
  Torn         \* a reserved destination whose copy never completed

Revs == 0..MaxRev

CredStates == {"none", "live", "revoked"}

(* The tables of one central database, reduced to what recovery tells      *)
(* apart. log is the set of mutations the file contains, named by the      *)
(* revision that committed each; it stands for every table the audit does  *)
(* not snapshot (records, relations, receipts, idempotency keys).          *)
Content ==
  [creds : [Creds -> CredStates],  \* credentials and their registrations
   grant : BOOLEAN,                \* memberships, profiles, names, spaces
   log   : SUBSET Revs,
   space : Nat,                    \* highest space_seq
   inbox : Nat,                    \* inbox_sequences.last_seq
   epoch : Revs]                   \* recovery_anchor.inbox_epoch

(* content plus the rest of recovery_anchor, which is also what verify's   *)
(* hashes of the tables tell apart; a journal is identified by the path it *)
(* was created at, which no other journal can share.                       *)
File == [jid : Paths, rev : Revs, required : BOOLEAN, content : Content]

Snapshots ==
  [creds : [Creds -> CredStates], grant : BOOLEAN, space : Nat, inbox : Nat]

Approvals == [rev : Revs, verification : File]

Markers == [id : 1..MaxRecoveries, verification : File]

(* The mutations a service transaction may make. Only "receipt" (an        *)
(* acknowledgment) leaves the audited snapshot as it was.                  *)
Kinds == {"issue", "revoke", "grant", "post", "receipt"}

ASSUME ConstantsAssumption ==
  /\ Homes \subseteq Paths /\ UsedKinds \subseteq Kinds
  /\ MaxRev \in Nat
  /\ MaxCrashes \in Nat
  /\ MaxRecoveries \in Nat
  /\ None # Torn
  /\ None \notin Procs /\ None \notin Paths
  /\ None \notin File /\ Torn \notin File
  /\ None \notin Content /\ None \notin Snapshots
  /\ None \notin Approvals /\ None \notin Markers

VARIABLES
  \* Central databases, per path
  central,   \* what a connection reads, or None, or Torn
  main,      \* what remains if the WAL is lost
  hot,       \* SQLite sidecars exist
  marker,    \* verified.json of a pending in-place replay, or None
  \* The external audit
  auditFile, \* "absent", "staging" or "published"
  auditJid,  \* control.journal_id
  gate,      \* control.state
  head,      \* highest revision in events
  outcome,   \* events.outcome by revision
  snap,      \* events.snapshot by revision, None when cleared
  recorded,  \* detail of the last 'reconciled' recovery event, or None
  crashed,   \* recovery_ids of the 'crash-recovered' recovery events
  \* Processes
  lock,      \* holder of the owner lock, or None
  pc, mode,  \* where each process is, and what it was started as
  at, aux,   \* the path a process works on, and a destination path
  tx,        \* image of the central transaction the owner has open
  approvals, \* approval files written by journal-recover
  \* History, read by no guard
  hist,      \* content committed under each revision, None if never
  confirmed, \* mutations whose caller was told Ok and whose loss nobody accepted
  stops,     \* number of abrupt stops
  recoveries \* number of recovery_ids given out

central_vars == <<central, main, hot, marker>>
audit_vars   == <<auditFile, auditJid, gate, head, outcome, snap, recorded, crashed>>
proc_vars    == <<lock, pc, mode, at, aux, tx, approvals>>
hist_vars    == <<hist, confirmed, stops, recoveries>>
vars == <<central_vars, audit_vars, proc_vars, hist_vars>>

-----------------------------------------------------------------------------
(* What the checks of the code read *)

Empty == [creds |-> [c \in Creds |-> "none"], grant |-> FALSE, log |-> {},
          space |-> 0, inbox |-> 0, epoch |-> 0]

Fresh(f) == [jid |-> f, rev |-> 0, required |-> FALSE, content |-> Empty]

IsFile(x) == x # None /\ x # Torn

Snapshot(c) ==
  [creds |-> c.creds, grant |-> c.grant, space |-> c.space, inbox |-> c.inbox]

Resolved == outcome[head] # "prepared"

(* An operator whose name starts with Bug is a deliberately wrong version  *)
(* of the definition after it: a property must notice the replacement.     *)
BugEnsureOpenIgnoresIntent(f) == gate = "open" /\ head = central[f].rev

(* ensure_open: checked under the audit mutex before every operation. *)
EnsureOpen(f) == gate = "open" /\ Resolved /\ head = central[f].rev

(* read_open_lineage: contiguity of revisions is the domain 0..head. *)
OpenLineage ==
  /\ auditFile = "published"
  /\ gate = "open"
  /\ \A r \in 0..head : /\ outcome[r] \in {"committed", "reconciled"}
                        /\ snap[r] # None <=> r = head

(* verify_lineage_matches *)
LineageMatches(d) ==
  /\ d.jid = auditJid
  /\ d.rev = head
  /\ Snapshot(d.content) = snap[head]

(* preflight_existing *)
Preflight(d) == OpenLineage /\ LineageMatches(d)

(* The only database that may be given its first audit. *)
Unadopted(d) == d.rev = 0 /\ ~d.required

(* preflight_admission *)
Admissible(d) == IF auditFile = "published" THEN Preflight(d) ELSE Unadopted(d)

(* validate_credential_history, validate_security_history: nothing in the  *)
(* file is unknown to the audit head.                                      *)
HistoryValid(c) ==
  \A x \in Creds : c.creds[x] # "none" => snap[head].creds[x] # "none"

BugRestoreCredentialHistoryKeepsBackup(c) == [x \in Creds |-> c.creds[x]]

(* restore_credential_history: every credential the audit knows comes back *)
(* revoked, in the backup or not.                                          *)
RestoreCredentialHistory(c) ==
  [x \in Creds |-> IF snap[head].creds[x] = "none" THEN "none" ELSE "revoked"]

(* restore_security: identity tables take their audited value, allocation  *)
(* heads never go back.                                                    *)
RestoreSecurity(c) ==
  [c EXCEPT !.creds = RestoreCredentialHistory(c),
            !.grant = snap[head].grant,
            !.inbox = IF c.inbox < snap[head].inbox THEN snap[head].inbox ELSE c.inbox]

(* What a transaction of each kind changes, and when it is possible. *)
Mutate(c, kind, x) ==
  CASE kind = "issue"   -> [c EXCEPT !.creds[x] = "live"]
    [] kind = "revoke"  -> [c EXCEPT !.creds[x] = "revoked"]
    [] kind = "grant"   -> [c EXCEPT !.grant = ~@]
    [] kind = "post"    -> [c EXCEPT !.space = @ + 1, !.inbox = @ + 1]
    [] kind = "receipt" -> c

(* The database after such a transaction, with the mutation in its log. *)
Operated(d, kind, x) ==
  LET c == Mutate(d.content, kind, x) IN
  [d EXCEPT !.content = [c EXCEPT !.log = c.log \cup {head + 1}]]

Allowed(c, kind, x) ==
  /\ kind = "issue" => c.creds[x] = "none"
  /\ kind = "revoke" => c.creds[x] = "live"

-----------------------------------------------------------------------------
(* Steps shared by several operations *)

Goto(p, label) == pc' = [pc EXCEPT ![p] = label]

(* A process that ends drops its owner lock. *)
Exit(p) ==
  /\ Goto(p, "down")
  /\ mode' = [mode EXCEPT ![p] = "none"]
  /\ at' = [at EXCEPT ![p] = None]
  /\ aux' = [aux EXCEPT ![p] = None]
  /\ lock' = IF lock = p THEN None ELSE lock
  /\ tx' = IF lock = p THEN None ELSE tx

(* A writable connection puts the file in WAL mode (configure_connection). *)
Connect(f) == hot' = [hot EXCEPT ![f] = TRUE] /\ UNCHANGED main

(* wal_checkpoint(TRUNCATE); journal_mode=DELETE *)
Standalone(f) ==
  /\ hot' = [hot EXCEPT ![f] = FALSE]
  /\ main' = [main EXCEPT ![f] = central[f]]

(* The last connection to close checkpoints and removes the WAL; another   *)
(* connection of the process, or a failed checkpoint, keeps it.            *)
Disconnect(f) == Standalone(f) \/ UNCHANGED <<hot, main>>

BugReleaseSupersededEager(r) == [q \in Revs |-> IF q <= r THEN None ELSE snap[q]]

(* release_superseded_snapshots *)
ReleaseSuperseded(r) == [q \in Revs |-> IF q < r THEN None ELSE snap[q]]

(* The prepared row that announces the image d under the next revision. *)
Announce(d) ==
  /\ head' = head + 1
  /\ outcome' = [outcome EXCEPT ![head + 1] = "prepared"]
  /\ snap' = [snap EXCEPT ![head + 1] = Snapshot(d.content)]
  /\ tx' = d

(* The central transaction becomes what connections read. *)
CommitImage(f) ==
  /\ central' = [central EXCEPT ![f] = tx]
  /\ hist' = [hist EXCEPT ![tx.rev] = tx.content]
  /\ tx' = None

-----------------------------------------------------------------------------
(* Protected startup: Database::open_protected *)

(* No database and no audit: Database::open creates the baseline schema. *)
StartFresh(p, f) ==
  /\ pc[p] = "down"
  /\ f \in Homes
  /\ central[f] = None
  /\ auditFile # "published"
  /\ central' = [central EXCEPT ![f] = Fresh(f)]
  /\ main' = [main EXCEPT ![f] = Fresh(f)]
  /\ Goto(p, "admitted")
  /\ mode' = [mode EXCEPT ![p] = "cold"]
  /\ at' = [at EXCEPT ![p] = f]
  /\ UNCHANGED <<hot, marker, audit_vars, lock, aux, tx, approvals, hist_vars>>

(* An existing database without sidecars or pending replay is admitted     *)
(* read-only, before the owner lock is held.                               *)
StartCold(p, f) ==
  /\ pc[p] = "down"
  /\ IsFile(central[f])
  /\ ~hot[f]
  /\ auditFile = "published" => marker[f] = None
  /\ Admissible(central[f])
  /\ Goto(p, "admitted")
  /\ mode' = [mode EXCEPT ![p] = "cold"]
  /\ at' = [at EXCEPT ![p] = f]
  /\ UNCHANGED <<central_vars, audit_vars, lock, aux, tx, approvals, hist_vars>>

(* Sidecars or a pending replay, and an audit that is open and resolved. *)
StartHot(p, f) ==
  /\ pc[p] = "down"
  /\ IsFile(central[f])
  /\ hot[f] \/ marker[f] # None
  /\ OpenLineage
  /\ Goto(p, "admitted")
  /\ mode' = [mode EXCEPT ![p] = "hot"]
  /\ at' = [at EXCEPT ![p] = f]
  /\ UNCHANGED <<central_vars, audit_vars, lock, aux, tx, approvals, hist_vars>>

(* journal-recover: Database::open_existing admits only a cold file. *)
StartTool(p, f) ==
  /\ pc[p] = "down"
  /\ IsFile(central[f])
  /\ ~hot[f]
  /\ Goto(p, "admitted")
  /\ mode' = [mode EXCEPT ![p] = "tool"]
  /\ at' = [at EXCEPT ![p] = f]
  /\ UNCHANGED <<central_vars, audit_vars, lock, aux, tx, approvals, hist_vars>>

(* acquire_lock: try_lock_exclusive on the recovery-lock file. *)
AcquireLock(p) ==
  /\ pc[p] = "admitted"
  /\ lock = None
  /\ lock' = p
  /\ Goto(p, IF mode[p] = "hot" THEN "recover" ELSE "locked")
  /\ UNCHANGED <<central_vars, audit_vars, mode, at, aux, tx, approvals, hist_vars>>

(* verified.json: a recovery_id of its own and the hashes of the copy. *)
Verified(d) == [id |-> recoveries + 1, verification |-> d]

(* crash_recovery::recover without a marker: the replayed private copy     *)
(* must match the audit before the marker is published.                    *)
VerifyCopy(p) ==
  LET f == at[p] IN
  /\ pc[p] = "recover"
  /\ marker[f] = None
  /\ Preflight(central[f])
  /\ recoveries < MaxRecoveries
  /\ recoveries' = recoveries + 1
  /\ marker' = [marker EXCEPT ![f] = Verified(central[f])]
  /\ Goto(p, "replay")
  /\ UNCHANGED <<central, main, hot, audit_vars, lock, mode, at, aux, tx,
                 approvals, hist, confirmed, stops>>

BugResumeRecoveryRefused(p) == FALSE /\ UNCHANGED vars

(* ... with a marker: its verification is taken as it stands. *)
ResumeRecovery(p) ==
  /\ pc[p] = "recover"
  /\ marker[at[p]] # None
  /\ Goto(p, "replay")
  /\ UNCHANGED <<central_vars, audit_vars, lock, mode, at, aux, tx, approvals, hist_vars>>

(* normalize: SQLite replays the original in place. *)
Replay(p) ==
  /\ pc[p] = "replay"
  /\ Standalone(at[p])
  /\ Goto(p, "probe")
  /\ UNCHANGED <<central, marker, audit_vars, lock, mode, at, aux, tx, approvals, hist_vars>>

(* The original must equal the verified copy and pass cold admission. *)
Probe(p) ==
  /\ pc[p] = "probe"
  /\ marker[at[p]].verification = central[at[p]]
  /\ Admissible(central[at[p]])
  /\ Goto(p, "locked")
  /\ UNCHANGED <<central_vars, audit_vars, lock, mode, at, aux, tx, approvals, hist_vars>>

(* open_with_lock. journal-recover only needs a readable audit; *)
OpenForRecovery(p) ==
  /\ pc[p] = "locked"
  /\ auditFile = "published"
  /\ mode[p] = "tool"
  /\ Goto(p, "ready")
  /\ UNCHANGED <<central_vars, audit_vars, lock, mode, at, aux, tx, approvals, hist_vars>>

(* ... the daemon validates the lineage again, now as owner, *)
OpenWithLock(p) ==
  /\ pc[p] = "locked"
  /\ auditFile = "published"
  /\ mode[p] # "tool"
  /\ Preflight(central[at[p]])
  /\ central[at[p]].required
  /\ Goto(p, "opened")
  /\ UNCHANGED <<central_vars, audit_vars, lock, mode, at, aux, tx, approvals, hist_vars>>

(* ... and goes on to adopt a baseline that nobody has adopted yet. *)
AdoptBegin(p) ==
  /\ pc[p] = "locked"
  /\ auditFile = "published"
  /\ mode[p] # "tool"
  /\ Preflight(central[at[p]])
  /\ ~central[at[p]].required
  /\ Connect(at[p])
  /\ Goto(p, "adopting")
  /\ UNCHANGED <<central, marker, audit_vars, lock, mode, at, aux, tx, approvals, hist_vars>>

(* A missing audit may be created for an unadopted database. *)
InitBegin(p) ==
  /\ pc[p] = "locked"
  /\ auditFile # "published"
  /\ Unadopted(central[at[p]])
  /\ Connect(at[p])
  /\ Goto(p, "init")
  /\ UNCHANGED <<central, marker, audit_vars, lock, mode, at, aux, tx, approvals, hist_vars>>

(* Leftover staging is removed and a new staging file created. *)
InitStage(p) ==
  /\ pc[p] = "init"
  /\ auditFile' = "staging"
  /\ Goto(p, "staged")
  /\ UNCHANGED <<central_vars, auditJid, gate, head, outcome, snap, recorded, crashed,
                 lock, mode, at, aux, tx, approvals, hist_vars>>

(* The complete baseline is renamed onto the audit path. *)
InitPublish(p) ==
  LET d == central[at[p]] IN
  /\ pc[p] = "staged"
  /\ auditFile' = "published"
  /\ auditJid' = d.jid
  /\ gate' = "open"
  /\ head' = 0
  /\ outcome' = [outcome EXCEPT ![0] = "committed"]
  /\ snap' = [snap EXCEPT ![0] = Snapshot(d.content)]
  /\ hist' = [hist EXCEPT ![0] = d.content]
  /\ Goto(p, "baseline")
  /\ UNCHANGED <<central_vars, recorded, crashed, lock, mode, at, aux, tx, approvals,
                 confirmed, stops, recoveries>>

Adopted(d) == [d EXCEPT !.required = TRUE]

(* audit_required commits centrally: by the initializer, or by the next    *)
(* protected owner of the matching baseline (adopt_published_baseline).    *)
Adopt(p) ==
  LET f == at[p] IN
  /\ \/ pc[p] = "baseline"
     \/ pc[p] = "adopting" /\ Preflight(central[f]) /\ Unadopted(central[f])
  /\ central' = [central EXCEPT ![f] = Adopted(@)]
  /\ Goto(p, "adopted")
  /\ UNCHANGED <<main, hot, marker, audit_vars, lock, mode, at, aux, tx, approvals, hist_vars>>

AdoptDone(p) ==
  /\ pc[p] = "adopted"
  /\ Standalone(at[p])
  /\ Goto(p, IF mode[p] = "tool" THEN "ready" ELSE "opened")
  /\ UNCHANGED <<central, marker, audit_vars, lock, mode, at, aux, tx, approvals, hist_vars>>

(* The end of open_protected, *)
FinishOpen(p) ==
  /\ pc[p] = "opened"
  /\ mode[p] # "hot"
  /\ EnsureOpen(at[p])
  /\ Goto(p, "up")
  /\ UNCHANGED <<central_vars, audit_vars, lock, mode, at, aux, tx, approvals, hist_vars>>

(* ... or record_crash_recovery: the event of a recovery_id, once, *)
RecordCrashRecovery(p) ==
  /\ pc[p] = "opened"
  /\ mode[p] = "hot"
  /\ EnsureOpen(at[p])
  /\ crashed' = crashed \cup {marker[at[p]].id}
  /\ Goto(p, "evidenced")
  /\ UNCHANGED <<central_vars, auditFile, auditJid, gate, head, outcome, snap, recorded,
                 lock, mode, at, aux, tx, approvals, hist_vars>>

(* ... after which CrashRecovery::complete removes the marker. *)
CompleteRecovery(p) ==
  /\ pc[p] = "evidenced"
  /\ marker' = [marker EXCEPT ![at[p]] = None]
  /\ Goto(p, "up")
  /\ UNCHANGED <<central, main, hot, audit_vars, lock, mode, at, aux, tx, approvals, hist_vars>>

-----------------------------------------------------------------------------
(* Service transactions: Database::with_transaction_for. The audit mutex   *)
(* serializes them, so a daemon has at most one.                           *)

(* connect_read_only: a read is admitted under the mutex and then runs. *)
BeginRead(p) ==
  /\ pc[p] = "up"
  /\ EnsureOpen(at[p])
  /\ Goto(p, "reading")
  /\ UNCHANGED <<central_vars, audit_vars, lock, mode, at, aux, tx, approvals, hist_vars>>

EndRead(p) ==
  /\ pc[p] = "reading"
  /\ Goto(p, "up")
  /\ UNCHANGED <<central_vars, audit_vars, lock, mode, at, aux, tx, approvals, hist_vars>>

(* BEGIN IMMEDIATE and the operation; it may change nothing or fail, which *)
(* leaves everything as it was.                                            *)
BeginTransaction(p) ==
  LET f == at[p] IN
  /\ pc[p] = "up"
  /\ EnsureOpen(f)
  /\ head < MaxRev
  /\ \E kind \in UsedKinds, x \in Creds :
       /\ Allowed(central[f].content, kind, x)
       /\ tx' = Operated(central[f], kind, x)
  /\ Connect(f)
  /\ Goto(p, "operated")
  /\ UNCHANGED <<central, marker, audit_vars, lock, mode, at, aux, approvals, hist_vars>>

(* RecoveryAudit::prepare: the intent is durable before the commit. *)
Prepare(p) ==
  /\ pc[p] = "operated"
  /\ Resolved
  /\ Announce([tx EXCEPT !.rev = head + 1])
  /\ Goto(p, "prepared")
  /\ UNCHANGED <<central_vars, auditFile, auditJid, gate, recorded, crashed,
                 lock, mode, at, aux, approvals, hist_vars>>

(* transaction.commit() *)
CommitTransaction(p) ==
  /\ pc[p] = "prepared"
  /\ CommitImage(at[p])
  /\ Goto(p, "committed")
  /\ UNCHANGED <<main, hot, marker, audit_vars, lock, mode, at, aux, approvals,
                 confirmed, stops, recoveries>>

(* RecoveryAudit::committed, and Ok to the caller. *)
Committed(p) ==
  LET r == central[at[p]].rev IN
  /\ pc[p] = "committed"
  /\ outcome[r] = "prepared"
  /\ outcome' = [outcome EXCEPT ![r] = "committed"]
  /\ snap' = ReleaseSuperseded(r)
  /\ confirmed' = confirmed \cup {r}
  /\ Disconnect(at[p])
  /\ Goto(p, "up")
  /\ UNCHANGED <<central, marker, auditFile, auditJid, gate, head, recorded, crashed,
                 lock, mode, at, aux, tx, approvals, hist, stops, recoveries>>

BugTransactionFailsResolves(p) ==
  /\ pc[p] \in {"operated", "prepared", "committed"}
  /\ outcome' = [outcome EXCEPT ![head] = "committed"]
  /\ snap' = [r \in Revs |-> IF r < head THEN None ELSE snap[r]]
  /\ tx' = None
  /\ Disconnect(at[p])
  /\ Goto(p, "up")
  /\ UNCHANGED <<central, marker, auditFile, auditJid, gate, head, recorded, crashed,
                 lock, mode, at, aux, approvals, hist_vars>>

(* An error from prepare, commit or committed ends the transaction with an *)
(* error to the caller; the daemon keeps running.                          *)
TransactionFails(p) ==
  /\ pc[p] \in {"operated", "prepared", "committed"}
  /\ tx' = None
  /\ Disconnect(at[p])
  /\ Goto(p, "up")
  /\ UNCHANGED <<central, marker, audit_vars, lock, mode, at, aux, approvals, hist_vars>>

(* Graceful stop: normalize_for_clean_shutdown, if the gate is still open. *)
Shutdown(p) ==
  /\ pc[p] = "up"
  /\ IF EnsureOpen(at[p]) THEN Standalone(at[p]) ELSE UNCHANGED <<hot, main>>
  /\ Exit(p)
  /\ UNCHANGED <<central, marker, audit_vars, approvals, hist_vars>>

-----------------------------------------------------------------------------
(* journal-recover *)

Close(p) ==
  /\ pc[p] = "ready"
  /\ gate' = "closed"
  /\ Exit(p)
  /\ UNCHANGED <<central_vars, auditFile, auditJid, head, outcome, snap, recorded, crashed,
                 approvals, hist_vars>>

(* RecoveryAudit::backup reserves its destination, *)
BackupReserve(p, dst) ==
  /\ pc[p] = "ready"
  /\ EnsureOpen(at[p])
  /\ central[dst] = None
  /\ central' = [central EXCEPT ![dst] = Torn]
  /\ aux' = [aux EXCEPT ![p] = dst]
  /\ Goto(p, "copying")
  /\ UNCHANGED <<main, hot, marker, audit_vars, lock, mode, at, tx, approvals, hist_vars>>

(* ... copies the open database into it, *)
BackupCopy(p) ==
  LET dst == aux[p] IN
  /\ pc[p] = "copying"
  /\ central' = [central EXCEPT ![dst] = central[at[p]]]
  /\ main' = [main EXCEPT ![dst] = central[at[p]]]
  /\ at' = [at EXCEPT ![p] = dst]
  /\ aux' = [aux EXCEPT ![p] = None]
  /\ Goto(p, "copied")
  /\ UNCHANGED <<hot, marker, audit_vars, lock, mode, tx, approvals, hist_vars>>

(* ... probes the copy and records the backup event. *)
BackupRecord(p) ==
  /\ pc[p] = "copied"
  /\ Standalone(at[p])
  /\ Exit(p)
  /\ UNCHANGED <<central, marker, audit_vars, approvals, hist_vars>>

(* RecoveryAudit::restore closes the gate before it looks at the backup, *)
RestoreBegin(p, backup, dst) ==
  /\ pc[p] = "ready"
  /\ Resolved
  /\ gate' = "closed"
  /\ at' = [at EXCEPT ![p] = backup]
  /\ aux' = [aux EXCEPT ![p] = dst]
  /\ Goto(p, "validating")
  /\ UNCHANGED <<central_vars, auditFile, auditJid, head, outcome, snap, recorded, crashed,
                 lock, mode, tx, approvals, hist_vars>>

(* ... validates its bindings and reserves the destination, *)
RestoreReserve(p) ==
  LET backup == at[p]  dst == aux[p] IN
  /\ pc[p] = "validating"
  /\ IsFile(central[backup])
  /\ ~hot[backup]
  /\ HistoryValid(central[backup].content)
  /\ central[dst] = None
  /\ central' = [central EXCEPT ![dst] = Torn]
  /\ Goto(p, "restoring")
  /\ UNCHANGED <<main, hot, marker, audit_vars, lock, mode, at, aux, tx, approvals, hist_vars>>

(* ... and copies the backup, which it goes on to reconcile. *)
RestoreCopy(p) ==
  LET dst == aux[p] IN
  /\ pc[p] = "restoring"
  /\ central' = [central EXCEPT ![dst] = central[at[p]]]
  /\ main' = [main EXCEPT ![dst] = central[at[p]]]
  /\ at' = [at EXCEPT ![p] = dst]
  /\ aux' = [aux EXCEPT ![p] = None]
  /\ Goto(p, "reconciling")
  /\ UNCHANGED <<hot, marker, audit_vars, lock, mode, tx, approvals, hist_vars>>

(* RecoveryAudit::reconcile of a database without a backup copy. *)
ReconcileBegin(p) ==
  /\ pc[p] = "ready"
  /\ Resolved
  /\ gate' = "closed"
  /\ Goto(p, "reconciling")
  /\ UNCHANGED <<central_vars, auditFile, auditJid, head, outcome, snap, recorded, crashed,
                 lock, mode, at, aux, tx, approvals, hist_vars>>

BugAnchorKeepsRevision(d) == [d EXCEPT !.required = TRUE, !.content.epoch = head + 1]

(* The anchor row of a reconciled database. *)
ReconciledAnchor(d) ==
  [d EXCEPT !.rev = head + 1, !.required = TRUE, !.content.epoch = head + 1]

(* Security state is rebuilt from the audit head in a central transaction  *)
(* and announced as the next revision,                                     *)
ReconcilePrepare(p) ==
  LET f == at[p]  d == central[f] IN
  /\ pc[p] = "reconciling"
  /\ Resolved
  /\ d.jid = auditJid
  /\ d.rev <= head
  /\ HistoryValid(d.content)
  /\ head < MaxRev
  /\ Announce(ReconciledAnchor([d EXCEPT !.content = RestoreSecurity(d.content)]))
  /\ Connect(f)
  /\ Goto(p, "announced")
  /\ UNCHANGED <<central, marker, auditFile, auditJid, gate, recorded, crashed,
                 lock, mode, at, aux, approvals, hist_vars>>

(* ... commits centrally, *)
ReconcileCommit(p) ==
  /\ pc[p] = "announced"
  /\ CommitImage(at[p])
  /\ Goto(p, "reconciled")
  /\ UNCHANGED <<main, hot, marker, audit_vars, lock, mode, at, aux, approvals,
                 confirmed, stops, recoveries>>

(* ... is recorded in the audit with its probed state, *)
ReconcileRecord(p) ==
  /\ pc[p] = "reconciled"
  /\ recorded' = [rev |-> head, verification |-> central[at[p]]]
  /\ Goto(p, "templated")
  /\ UNCHANGED <<central_vars, auditFile, auditJid, gate, head, outcome, snap, crashed,
                 lock, mode, at, aux, tx, approvals, hist_vars>>

BugReconcileFinishOpensGate(p) ==
  /\ pc[p] = "templated"
  /\ Standalone(at[p])
  /\ approvals' = approvals \cup {recorded}
  /\ outcome' = [outcome EXCEPT ![head] = "reconciled"]
  /\ snap' = ReleaseSuperseded(head)
  /\ gate' = "open"
  /\ Exit(p)
  /\ UNCHANGED <<central, marker, auditFile, auditJid, head, recorded, crashed, hist_vars>>

(* ... checkpointed, and the approval template is written. *)
ReconcileFinish(p) ==
  /\ pc[p] = "templated"
  /\ Standalone(at[p])
  /\ approvals' = approvals \cup {recorded}
  /\ Exit(p)
  /\ UNCHANGED <<central, marker, audit_vars, hist_vars>>

(* RecoveryAudit::reopen with an approval whose two attestations the       *)
(* operator has set: record loss relative to this database is accepted.    *)
Reopen(p, approval) ==
  LET d == central[at[p]] IN
  /\ pc[p] = "ready"
  /\ approval.rev = head
  /\ d.rev = head
  /\ approval.verification = d
  /\ recorded = approval
  /\ \A x \in Creds : d.content.creds[x] # "live"
  /\ outcome' = [outcome EXCEPT ![head] = "reconciled"]
  /\ snap' = ReleaseSuperseded(head)
  /\ gate' = "open"
  /\ confirmed' = confirmed \cap d.content.log
  /\ Connect(at[p])
  /\ Goto(p, "reopened")
  /\ UNCHANGED <<central, marker, auditFile, auditJid, head, recorded, crashed,
                 lock, mode, at, aux, tx, approvals, hist, stops, recoveries>>

ReopenDone(p) ==
  /\ pc[p] = "reopened"
  /\ Standalone(at[p])
  /\ Exit(p)
  /\ UNCHANGED <<central, marker, audit_vars, approvals, hist_vars>>

-----------------------------------------------------------------------------
(* Failures *)

(* Places where the process has the file at[p] open for writing and is not *)
(* serving, and places where a reserved destination is not yet complete.   *)
Connected == {"init", "staged", "baseline", "adopting", "adopted",
              "announced", "reconciled", "templated"}
Reserving == {"copying", "restoring"}

(* A check refuses or an I/O error ends a startup or a command: guards     *)
(* unlock and the only connection closes. A close that leaves sidecars     *)
(* behind is a Crash.                                                      *)
Refuse(p) ==
  /\ pc[p] \notin Reserving \cup
       {"down", "up", "operated", "prepared", "committed", "reading", "reopened"}
  /\ IF pc[p] \in Connected THEN Standalone(at[p]) ELSE UNCHANGED <<hot, main>>
  /\ Exit(p)
  /\ UNCHANGED <<central, marker, audit_vars, approvals, hist_vars>>

(* ReservedDestination::drop removes a destination that was not committed. *)
DropDestination(p) ==
  /\ pc[p] \in Reserving
  /\ central' = [central EXCEPT ![aux[p]] = None]
  /\ Exit(p)
  /\ UNCHANGED <<main, hot, marker, audit_vars, approvals, hist_vars>>

(* SIGKILL, power loss or drain timeout. Probing a file opens it for       *)
(* writing, so a stop there may leave sidecars too.                        *)
Crash(p) ==
  /\ lock = p
  /\ stops < MaxCrashes
  /\ stops' = stops + 1
  /\ \/ UNCHANGED hot
     \/ /\ pc[p] \in {"probe", "copied", "validating", "reconciling"}
        /\ IsFile(central[at[p]])
        /\ hot' = [hot EXCEPT ![at[p]] = TRUE]
  /\ Exit(p)
  /\ UNCHANGED <<central, main, marker, audit_vars, approvals,
                 hist, confirmed, recoveries>>

(* The sidecars of an abandoned hot database are lost with what only they  *)
(* held.                                                                   *)
LoseWal(f) ==
  /\ hot[f]
  /\ lock # None => at[lock] # f
  /\ central' = [central EXCEPT ![f] = main[f]]
  /\ hot' = [hot EXCEPT ![f] = FALSE]
  /\ UNCHANGED <<main, marker, audit_vars, proc_vars, hist_vars>>

-----------------------------------------------------------------------------
Init ==
  /\ central = [f \in Paths |-> None]
  /\ main = [f \in Paths |-> None]
  /\ hot = [f \in Paths |-> FALSE]
  /\ marker = [f \in Paths |-> None]
  /\ auditFile = "absent"
  /\ auditJid = None
  /\ gate = "closed"
  /\ head = 0
  /\ outcome = [r \in Revs |-> "none"]
  /\ snap = [r \in Revs |-> None]
  /\ recorded = None
  /\ crashed = {}
  /\ lock = None
  /\ pc = [p \in Procs |-> "down"]
  /\ mode = [p \in Procs |-> "none"]
  /\ at = [p \in Procs |-> None]
  /\ aux = [p \in Procs |-> None]
  /\ tx = None
  /\ approvals = {}
  /\ hist = [r \in Revs |-> None]
  /\ confirmed = {}
  /\ stops = 0
  /\ recoveries = 0

Start(p) ==
  \E f \in Paths : StartFresh(p, f) \/ StartCold(p, f) \/ StartHot(p, f) \/ StartTool(p, f)

Open(p) ==
  \/ AcquireLock(p) \/ VerifyCopy(p) \/ ResumeRecovery(p) \/ Replay(p) \/ Probe(p)
  \/ OpenForRecovery(p) \/ OpenWithLock(p)
  \/ InitBegin(p) \/ InitStage(p) \/ InitPublish(p)
  \/ AdoptBegin(p) \/ Adopt(p) \/ AdoptDone(p)
  \/ FinishOpen(p) \/ RecordCrashRecovery(p) \/ CompleteRecovery(p)

Serve(p) ==
  \/ BeginRead(p) \/ EndRead(p) \/ BeginTransaction(p) \/ Prepare(p)
  \/ CommitTransaction(p) \/ Committed(p) \/ TransactionFails(p) \/ Shutdown(p)

Recover(p) ==
  \/ Close(p)
  \/ \E dst \in Paths : BackupReserve(p, dst)
  \/ BackupCopy(p) \/ BackupRecord(p)
  \/ \E backup, dst \in Paths : RestoreBegin(p, backup, dst)
  \/ RestoreReserve(p) \/ RestoreCopy(p)
  \/ ReconcileBegin(p) \/ ReconcilePrepare(p) \/ ReconcileCommit(p)
  \/ ReconcileRecord(p) \/ ReconcileFinish(p)
  \/ \E approval \in approvals : Reopen(p, approval)
  \/ ReopenDone(p)

Next ==
  \/ \E p \in Procs : Start(p) \/ Open(p) \/ Serve(p) \/ Recover(p)
                        \/ Refuse(p) \/ DropDestination(p) \/ Crash(p)
  \/ \E f \in Paths : LoseWal(f)

Spec == Init /\ [][Next]_vars

-----------------------------------------------------------------------------
(* Properties *)

Labels == {"down", "admitted", "recover", "replay", "probe", "locked", "init", "staged",
           "baseline", "adopting", "adopted", "opened", "evidenced", "up", "reading", "operated",
           "prepared", "committed", "ready", "copying", "copied", "validating",
           "restoring", "reconciling", "announced", "reconciled", "templated", "reopened"}

(* Every variable has its type. *)
TypeOK ==
  /\ central \in [Paths -> File \cup {None, Torn}]
  /\ main \in [Paths -> File \cup {None}]
  /\ hot \in [Paths -> BOOLEAN]
  /\ marker \in [Paths -> Markers \cup {None}]
  /\ auditFile \in {"absent", "staging", "published"}
  /\ auditJid \in Paths \cup {None}
  /\ gate \in {"open", "closed"}
  /\ head \in Revs
  /\ outcome \in [Revs -> {"none", "prepared", "committed", "reconciled"}]
  /\ snap \in [Revs -> Snapshots \cup {None}]
  /\ recorded \in Approvals \cup {None}
  /\ crashed \subseteq 1..MaxRecoveries
  /\ lock \in Procs \cup {None}
  /\ pc \in [Procs -> Labels]
  /\ mode \in [Procs -> {"none", "cold", "hot", "tool"}]
  /\ at \in [Procs -> Paths \cup {None}]
  /\ aux \in [Procs -> Paths \cup {None}]
  /\ tx \in File \cup {None}
  /\ approvals \subseteq Approvals
  /\ hist \in [Revs -> Content \cup {None}]
  /\ confirmed \subseteq Revs
  /\ stops \in 0..MaxCrashes
  /\ recoveries \in 0..MaxRecoveries

(* A daemon with a read or a transaction that ensure_open has admitted. *)
Serving(p) == pc[p] \in {"reading", "operated"}

(* Although ensure_open compares revisions only, what an admitted          *)
(* operation works on is the audited journal: the gate is open, the head   *)
(* is resolved and it is this journal with the audited security snapshot   *)
(* and exactly the content committed under the head revision.              *)
ServedIsAudited ==
  \A p \in Procs : Serving(p) =>
    LET d == central[at[p]] IN
    /\ gate = "open"
    /\ outcome[head] \in {"committed", "reconciled"}
    /\ d.jid = auditJid
    /\ d.rev = head
    /\ Snapshot(d.content) = snap[head]
    /\ d.content = hist[head]

(* A mutation whose caller was told Ok is in whatever database is served   *)
(* later, through crashes, replays and restores, unless an operator        *)
(* accepted its loss by reopening a reconciled database without it.        *)
ConfirmedSurvives ==
  \A p \in Procs : Serving(p) => confirmed \subseteq central[at[p]].content.log

(* No revision ever committed is ahead of what is served: a revoked        *)
(* credential stays revoked, an issued one stays bound (its token can not  *)
(* register again) and inbox sequences handed out are not handed out again,*)
(* whichever backup was restored in between; a reconciled revision has the *)
(* identity tables of the revision before it, and the served inbox epoch   *)
(* is that of the latest one, so that no cursor issued before is accepted. *)
NoRegression ==
  \A p \in Procs : Serving(p) =>
    LET c == central[at[p]].content IN
    \A r \in {q \in 0..head : hist[q] # None} :
      /\ \A x \in Creds : /\ hist[r].creds[x] = "revoked" => c.creds[x] = "revoked"
                          /\ hist[r].creds[x] # "none" => c.creds[x] # "none"
      /\ hist[r].inbox <= c.inbox
      /\ outcome[r] = "reconciled" => hist[r].grant = hist[r - 1].grant /\ r <= c.epoch

(* The audit is written ahead: no file of the journal, nor what is left of *)
(* it without its WAL, is at a revision the audit has not announced.       *)
WriteAhead ==
  auditFile = "published" =>
    \A f \in Paths : \A d \in {central[f], main[f]} :
      IsFile(d) /\ d.jid = auditJid => d.rev <= head

(* Revisions never fork: two files of one journal at the same revision     *)
(* (live file, backup, restored copy) hold the same content.               *)
NoFork ==
  \A f, g \in Paths :
    LET d == central[f]  e == central[g] IN
    IsFile(d) /\ IsFile(e) /\ d.jid = e.jid /\ d.rev = e.rev => d.content = e.content

(* A journal has one history: every revision in a file was announced in    *)
(* the audit before, and no two files disagree on what it holds.           *)
OneHistory == WriteAhead /\ NoFork

(* What writers and reopen leave behind never fails the lineage rules of   *)
(* the next protected start (contiguous, resolved, one snapshot body), and *)
(* every in-place replay leaves evidence: the recovery_id of a verified    *)
(* copy is in the audit's events or still in a pending marker.             *)
AuditIsSound ==
  /\ auditFile = "published" /\ gate = "open" /\ Resolved => OpenLineage
  /\ \A i \in 1..recoveries :
       i \in crashed \/ \E f \in Paths : marker[f] # None /\ marker[f].id = i

(* An announced intent is resolved only once its central commit happened:  *)
(* a file holds exactly the announced revision and snapshot.               *)
IntentResolution ==
  [][\A r \in Revs :
       outcome[r] = "prepared" /\ outcome'[r] # "prepared" =>
         \E f \in Paths : /\ IsFile(central[f])
                          /\ central[f].rev = r
                          /\ Snapshot(central[f].content) = snap[r]]_vars

(* A killed audit initialization is resumed by the next protected start    *)
(* (killed_initialization_resumes_startup_and_recovery): with no owner and *)
(* no published audit, an unadopted database is one that StartCold admits. *)
InitializationResumes ==
  lock = None /\ auditFile # "published" =>
    \A f \in Paths : IsFile(central[f]) /\ Unadopted(central[f]) => ~hot[f]

-----------------------------------------------------------------------------
(* Liveness *)

(* A supervisor keeps restarting the daemon with its configured database,  *)
(* I/O errors end only finitely many of these starts, and whatever runs    *)
(* goes on. Other starts and commands may be refused at any step. A        *)
(* configured start that no step can continue is stuck: it does not count  *)
(* as ended.                                                               *)
Fairness ==
  \A p \in Procs :
    LET Configured == mode[p] # "tool" /\ at[p] \in Homes
        Ends == ~Configured /\ (Refuse(p) \/ DropDestination(p))
    IN /\ \A f \in Homes : SF_vars(StartCold(p, f) \/ StartHot(p, f))
       /\ <>[][Configured => ~Refuse(p)]_vars
       /\ WF_vars(Serve(p))
       /\ WF_vars(Open(p) \/ Recover(p) \/ Ends)

FairSpec == Spec /\ Fairness

(* The state that an abrupt stop may leave and that the audit vouches for. *)
Recoverable(f) ==
  /\ IsFile(central[f])
  /\ Preflight(central[f])
  /\ marker[f] # None => marker[f].verification = central[f]
  /\ recoveries < MaxRecoveries \/ marker[f] # None \/ ~hot[f]

(* If a database stays recoverable, a protected start gets through: no     *)
(* crash point inside startup or recovery leaves a state that the next     *)
(* start refuses.                                                          *)
RestartSucceeds ==
  \A f \in Homes : <>[]Recoverable(f) => []<>(\E p \in Procs : pc[p] = "up")
=============================================================================
