# Agent Journal in TLA+

Specifications of Agent Journal (`src/`), their model checking with TLC and
their proofs with TLAPS. Paths below are relative to `src/crates/` unless they
start with `docs/` or `migrations/`.

## The system

Agents register an identity, append immutable records to public spaces, find
what is addressed to them in an inbox and acknowledge it. One daemon
(`journald`) serves one SQLite database; every mutation is announced to an
external recovery audit, a second SQLite file, before it commits.

| Part | State | Operations | Interacts with |
|---|---|---|---|
| Storage kernel (`journal-storage-sqlite/src/lib.rs`) | database file with its WAL, initialization marker, admitted file identities | open, protected open, connect, transaction, backup, restore, normalise | audit, operator |
| Recovery audit (`recovery_audit.rs`, `crash_recovery.rs`, `journal-recover`) | owner lock, gate, contiguous revisions with an outcome and one snapshot body, recovery events, `verified.json` | initialize, adopt, prepare, committed, close, backup, restore, reconcile, reopen, crash recovery | kernel, operator |
| Identity (`journal-service/src/bootstrap.rs`) | principals, permanent names, credentials, receipts, profile revisions and keys, memberships | register, update profile, rotate, revoke, recover, grant | restore |
| Records and inbox (`records.rs`, `inbox.rs`, `journal-protocol/src/cursor.rs`) | records, relations, inbox items, sequence heads, idempotency keys, cursor secret, inbox epoch | append, acknowledge; pages of an inbox, a space, a search, a delivery status; thread | restore, clients |
| Serving (`journald/src/http.rs`, `executor.rs`, `server.rs`) | requests, permits, arrival signals, phase of the server | handlers, long poll, shutdown, drain | kernel |
| Administrative socket (`journald/src/server.rs`) | owner lock, marker, socket paths | bind, recover, publish, remove | other daemons |
| Registration client (`aj/src/lib.rs`, `journal-client/src/private_file.rs`) | private state file | register | network, identity |
| Inbox worker (`journal-inbox-worker`) | page, cursor, backoffs | tick, acknowledge | inbox, runtimes |
| Runtimes (`journal-runtime-file`, `-muse`, `-hermes`) | spool or drop directory; sessions and runs of the vendor | inject | worker, reader, vendor |

Hard behaviours: kills and machine stops between any two steps, a WAL that is
lost, two processes that race for one audit, database, socket or drop file,
decisions taken before a lock and used after it, lost, late and repeated
requests, restores of older backups under clients that remember the newer
state, handlers dropped at an await, bounded queues and limits. `PROJECT.json`
lists each of them at its line under "hazards".

## Modules

| Module | Models | Environment |
|---|---|---|
| `Initialization` | `Database::open`, `open_existing`, `ConnectionFactory`: the marker, cold admission, file identities, connections | kills, failed SQLite calls, an operator who replaces, aliases or archives the file |
| `RecoveryAudit` | protected start, audited transactions, crash recovery, `journal-recover` | crashes, lost WALs |
| `RecoveryInvariant` | its inductive invariant | |
| `Journal` | append, replay, acknowledgment; traversal of an inbox, a space, a search in both orders and the receipts of a record; credentials as far as appends need them; restore | resent requests, lost answers |
| `Identity` | names, credentials, receipts, profile updates, membership by handle, restore | |
| `Registration` | `aj register` composed with `Identity` (EXTENDS) | network, kills, failed syncs, machine stops |
| `Threads` | the thread algorithms, against a reference definition | damaged graphs |
| `Serving` | handlers, executor, long poll, drain | failing operations, disconnects, deadlines, a shutdown, a listener that stops |
| `AdminSocket` | ownership of the socket path | kills, a foreign file, a replaced lock |
| `InboxWorker` | worker and file spool against an inbox | faults, kills, restores |
| `Handoff` | abstract: what `Runtime::inject` promises the worker | |
| `MuseDrop` | `MuseRuntime::inject`, system call by system call | kills, failed calls, machine stops, the reader, foreign files |
| `HermesRuns` | `HermesRuntime`: preflight, session, run | a vendor that fails before or after it acts, lost answers, late requests |
| `RecoveryProofs`, `JournalProofs`, `RegistrationProofs` (which covers `Identity`), `ServingProofs`, `InitializationProofs`, `AdminSocketProofs`, `ThreadsProofs`, `HandoffProofs` | the proofs | |

`MC*` modules hold finite inputs, symmetry sets and *scenarios*. A scenario is a
record of bounds; a behaviour picks one at its start and keeps to it, so that
one run covers several instances, each as large as its own question needs. The
bounds limit what the environment does and never disable the only step of a
process that fairness is about.

An operator whose name starts with `Bug` is a wrong version of the definition
after it, as a plausible mistake in the code would make it; replacing the
definition by it must break the property that `PROJECT.json` names with it.

How state and actions correspond to the code is given per definition by "map"
in `PROJECT.json`. The main choices:

- **Initialization.** A file is an inode; its main file holds the exact schema
  or does not, and `wal` says that the schema is committed but not yet
  checkpointed. Each comparison of identities and each look for sidecars is a
  step of its own, because another process may come in between. The last
  configured connection to close removes the sidecars, as SQLite does. The
  operator acts only while nobody initializes (`docs/recovery.md`: "do not remove
  the marker to bypass an active initializer") and no configured connection is
  open, and never puts an old file back; both are assumptions. A file that was
  moved away keeps its inode number to itself.
- **RecoveryAudit.** A database is a record of journal id, revision,
  `audit_required` and content; the content keeps what the properties tell
  apart: the state of each credential, a grant, the log of mutations, the two
  allocation heads and the epoch. `central[f]` is what a connection reads,
  `main[f]` the main file alone, `hot[f]` whether sidecars exist: losing the WAL
  replaces `central[f]` by `main[f]`. `hist` is a history variable: what each
  revision committed. Steps are cut where a process can be killed or another can
  see the difference: probe, lock, verified copy, replay, event, marker;
  operation, prepare, commit, committed; and likewise for each command of
  `journal-recover`. `auditFile` never disappears once it is published.
- **Journal, Identity.** Each service call is one transaction, hence one
  action; what the HTTP layer does before it (authentication, resolution of a
  selector) is an earlier step. Tables are sets of rows. `Restore` is the whole
  of `restore_security`. `told` records what callers were told, so that later
  states can be held to it. What a search matches and how well is a constant
  (`Score`); author, recipient and time filters only narrow it. `Place` is the
  order of identifiers, which breaks ties. A cursor is taken as unforgeable.
  Of the two ways `active_principal` selects a principal, by a name and by its
  ID, the model has the first: an ID selects its principal whatever is in the
  other tables.
- **Registration.** `file` is what readers see, `disk` what survives a stop of
  the machine; a link or rename separates them until the directory is synced.
- **Serving.** A request's handler and its blocking task are separate: a
  disconnect drops the first and leaves the second. Arrival signals are modelled
  with their pruning. An append may report an error, after its commit too (the
  audit's outcome could not be recorded), and then notifies nobody; any other
  operation may end the request with an error. A listener that stops, before or
  during the drain, has the rest drained (phase "closing") and nothing normalised.
- **Threads.** Sorting by sequence number is modelled by numbering the records
  in that order.
- **AdminSocket.** A marker write is truncate and write, with a kill in between.
  A file's identity (device and inode) is taken as unique. The recheck before an
  unlink and the unlink are two steps, and the unlink removes whatever is at the
  path by then; the code says of that gap that "POSIX has no atomic conditional
  unlink". `raced` is a history variable: the daemons that were in that gap when
  another program put its file at the path.
- **InboxWorker.** Delays are kept as the time left; doubling backoff keeps its
  shape with a smaller largest exponent. One worker writes to a spool, so that
  the branch of `write_spool_file` for a file that appears between the first look
  and the link is not taken; `MuseDrop` has that branch, with two clients.
- **MuseDrop.** `file` is the directory that everybody sees, `disk` what a
  machine stop leaves of it. A payload is told apart by the chat it is for; what
  another program left under the name is `Junk`. The file runtime publishes with
  the same sequence of calls.
- **HermesRuns.** The vendor is external: it serves one run per idempotency key
  for as long as it retains the key, if its capabilities announced that. A key
  expires once its run is over; a vendor that changes its capabilities after
  preflight is outside the contract the client checks. That `idempotency_key`
  gives an item the same key in every attempt is built in: a request carries its
  item. What the run tests is what the client does around it.

## Runs

| Run | Scenarios | Question and result |
|---|---|---|
| `initialization` | three processes on a fresh path; two that open, use and reopen it while the operator acts twice; one kill or failed call in each | The baseline is applied by the one holder of the marker to an empty file nobody else is connected to (`InitializesOnce`); a handle or connection is to the admitted file, complete (`AdmittedIsReady`); a race alone refuses nobody (`NoSpuriousRefusal`); every open ends (`OpenEnds`). |
| `recovery` | two processes, two stops and lost WALs; mutations of identities with any backup restored at any time; posts with backups, restores and a stop in any step | What an admitted operation works on is the audited state (`ServedIsAudited`); confirmed mutations survive unless their loss was accepted (`ConfirmedSurvives`); revocations, bindings, numbers and the epoch never regress (`NoRegression`); one history, written ahead (`OneHistory`); what writers leave is admissible and each replay leaves evidence (`AuditIsSound`); an intent is resolved only after its commit (`IntentResolution`). |
| `recovery_restart` | one process and a second path for a backup or a restored copy, two stops | With restarts, a recoverable database is served again (`RestartSucceeds`). |
| `journal` | two concurrent requests under one key; the same with a restore; a reader of three records on four routes, with a restore; a reader of receipts, with a restore | `AppendedOnce`, `InboxFollowsRecords`, `NumbersNeverReused`, `RelationsPointBack`, `SecretBeforeRecords`; a traversal, one row per page, under appends, acknowledgments and a restore, returns each row it should once and no other (`PassesAreComplete`). |
| `identity` | two profile updates at a time; two principals registering, renaming, being granted; the same with backups and restores | `NoLostUpdate`, `RegisteredOnce`, `BackupsAreRestorable`, `NamesArePermanent` (one holder per name, grants reach the name they were for), `RevocationIsFinal` (updates are made under a credential in force). |
| `registration` | two runs on one file; users ask for one handle, with two failures, or for two, with one (a failure is a kill, a failed sync or a machine stop) | `OneIdentityPerFile`, `SecretIsKept`, `RegistrationFinishes`. |
| `threads` | every forest of six records, every graph of five | `NoUnderflow`; whole trees, exact limits, circles refused (`ThreadIsExact`); both ways to find a root agree (`RootsAgree`). |
| `serving` | three requests of one principal, all of whose polls wait; two for two principals; two with a disconnect and deadlines; two with failing operations, a listener that stops, deadlines and polls that do not wait; two that disconnect, without polls | `NoMissedWakeup`, `NormalizesAlone`, `DrainIsNotHeld` (for either kind of drain). |
| `admin_socket` | three daemons, kills anywhere, a foreign file, two replacements of the lock | `ServesAtItsPath` (also between the look and the unlink of another daemon), `KilledStartsRecover`; a foreign file stays unless a daemon was between look and unlink when it came (`ForeignIsPreserved`). |
| `inbox_worker` | three items, one fault, two restores; two items, two faults, two restores | `AckedIsKept`; `HandedOverOnce`, which also says that a second unconfirmed acknowledgment never joins the first, so PENDING_LIMIT is not reached; `RoutableAcknowledged`. |
| `handoff` | two clients on one item, through Muse with a kill or stop and a failed call, or through Hermes with a late request | One run per item (`OneRunPerItem`); both runtimes implement `Handoff` (`DropImplementsHandoff`, `RunsImplementHandoff`). |

### Refinement

`Handoff` has what a reader finds under each name, what it would find after a
machine stop, what it took and what some `inject` returned success for. The
mappings (`DropHandoff` in `MuseDrop`, `RunsHandoff` in `HermesRuns`) give
the drop directory and its synced names, and the vendor's runs by key. The
worker acknowledges an item only after `inject` returns, so that with
`InboxWorker!AckedIsKept` an acknowledged item has been handed over. A larger
instance of `MuseDrop` (three staging names, two stops, 16.5 million states)
also passed.

### Where the code differs from its documentation

`recovery_init_killed` is expected to fail: a kill during the first
initialization of the audit leaves SQLite sidecars and no audit, a state that no
start admits, where `docs/recovery.md` and a test expect the initialization to be
resumed ("findings" in `PROJECT.json` quotes them).

Further differences shaped the models and their properties:

- Sidecars and the pending marker are probed before the owner lock is taken. A
  clean stop in between is recorded as a crash recovery, and a database may be
  served while a recovery is still marked pending. `AuditIsSound` therefore asks
  for evidence of each replay, and not for a replay behind each event.
- `aj register` uses a state file that it finds, although the run that linked it
  was killed before the directory was synced. `SecretIsKept` excepts secrets that
  were sent from such a file (`exposed`).
- A client that disconnects after its append committed drops the handler before
  it notifies held polls, and an append that reports an error after its commit
  does not notify them. `NoMissedWakeup` excepts that mail (`silent`); the poll
  still finds it at its deadline.
- "Only an identity-matching socket may be removed": a file that another program
  puts at the path between a daemon's look and its unlink is removed.
  `ForeignIsPreserved` excepts it (`raced`), as the comment at the recheck does.
- The blocking task of a disconnected request may be at work while the database
  is normalised: `NormalizesAlone` allows as many as there were disconnects.

### Bounds

Bounds are CONSTANTS whose names start with `Max`, and appear in guards; the
scenarios of the `MC*` modules lower them. They are chosen for the cases, not
for size: two processes (all races are of a start with one other owner; three
for the marker, so that one waits while another rechecks), three files (live,
backup, restored; or admitted, replaced, created again), three revisions
(backup, something after it, the reconciliation), two stops (one in a recovery
from the other), two requests for one key, two tokens per principal (before and
after rotation), pages of one row of three, two records of equal score around one
that does not match, thread limits that the larger trees exceed in each of the
three ways, two permits for three requests, three daemons and three locks (one
that serves, one in the gap before an unlink under a replaced lock, one killed),
a socket for each of them,
pages of two items of three with two restores (the cursor of one pass becomes
invalid a second time), queues of length one or two, two staging names for two
clients, one late request.

Deadlock is checked in `identity`, `registration`, `journal`, `admin_socket`,
`inbox_worker`, `initialization` and `handoff`; it is switched off where the
system may stop: a recovery that refuses to start, a server that has stopped, a
thread that was returned.

### Fairness

- `RecoveryAudit` (`FairSpec`): a supervisor restarts the daemon with its
  configured database, I/O errors end finitely many of those starts, and what runs
  goes on. A configured start whose next check would refuse is stuck rather than
  ended, so the run would show it. Starts with another file and commands may be
  refused at any step. Nothing is assumed of crashes, which are bounded.
- `Initialization` (`Fairness`): a process that is opening goes on. Nobody has to
  start one, use it or end it, and a killed one is not restarted.
- `Registration` (`RegistrationSpec`, with the bounds of a scenario
  `MCRegistration!ScenarioSpec`): the user repeats the command, a running command
  goes on, a call made again and again gets through (`RunGoesOn`).
- `Serving` (`Fairness`): handlers, tasks and the end of a drain that can go on
  do. Deadlines, clients and the drain timeout are not assumed to help.
- `InboxWorker` (`FairSpec`): the loop of `cli.rs` goes on and is restarted when
  it ends, as a service manager configured for it would (the repository ships no
  unit file), and time passes between ticks. Faults are bounded.

## Proofs

The theorems hold for any sets of processes, files, credentials, principals,
clients and items, any graph of replies and any bounds, from the assumptions on
constants alone: `ConstantsAssumption` in `RecoveryAudit`, `Journal`, `Identity`,
`Serving`, `AdminSocket` and `Threads`, `RegistrationAssumption`,
`InitializationAssumption`, `DropAssumption` and `RunsAssumption` (bounds are
natural numbers, the model values for "nothing" are none of the values they are
told apart from, there is a path for a state file, a thread may have one record).

| Theorem | Statement |
|---|---|
| `RecoveryProofs!TypeCorrect`, `StructureInvariant` | `Spec => []TypeOK`, `Spec => []Structure` |
| `RecoveryProofs!LineageInvariant` | `Spec => []Lineage` |
| `RecoveryProofs!AuditIsWrittenAhead`, `RevisionsNeverFork`, `HistoryIsOne` | `Spec => []WriteAhead`, `[]NoFork`, `[]OneHistory` |
| `RecoveryProofs!AdmittedIsAudited` | `Spec => []ServedIsAudited` |
| `RecoveryProofs!HistoryInvariant` | `Spec => []History` |
| `RecoveryProofs!ConfirmedMutationsSurvive`, `SecurityNeverRegresses`, `AuditStaysSound` | `Spec => []ConfirmedSurvives`, `[]NoRegression`, `[]AuditIsSound` |
| `RecoveryProofs!IntentsResolveAfterCommit` | `Spec => IntentResolution` (an action property) |
| `JournalProofs!JournalInvariant` | `Spec => []JournalInv` |
| `JournalProofs!RequestsAppendOnce`, `InboxesFollow`, `InboxNumbersAreFresh`, `RelationsAreAcyclic`, `SecretIsThere` | the five invariants of the run `journal` |
| `RegistrationProofs!IdentityInvariant` | `Spec => []IdentityInv` |
| `RegistrationProofs!RegistersOnce`, `UpdatesAreNotLost`, `RestoresSucceed` | `Spec => []RegisteredOnce`, `[]NoLostUpdate`, `[]BackupsAreRestorable` |
| `RegistrationProofs!NamesStay`, `RevocationStays` | `Spec => NamesArePermanent`, `RevocationIsFinal` (action properties) |
| `RegistrationProofs!RegistrationInvariant` | `RegistrationSafety => []RegistrationInv` |
| `RegistrationProofs!OneIdentity`, `SecretsAreKept` | `RegistrationSafety => []OneIdentityPerFile`, `[]SecretIsKept` |
| `RegistrationProofs!RegistrationUsesIdentity` | `RegistrationSafety => Spec` of `Identity` |
| `ServingProofs!ServingInvariant` | `Spec => []Invariant` |
| `ServingProofs!NoWakeupIsMissed`, `DrainPrecedesNormalize` | `Spec => []NoMissedWakeup`, `[]NormalizesAlone` |
| `InitializationProofs!InitializationInvariant` | `Spec => []InitInv` |
| `InitializationProofs!NeverInitializedTwice`, `OpenedIsReady`, `RacingOpensSucceed` | `Spec => []InitializesOnce`, `[]AdmittedIsReady`, `[]NoSpuriousRefusal` |
| `AdminSocketProofs!SocketInvariant` | `Spec => []SocketInv` |
| `AdminSocketProofs!SocketIsServed`, `KillsAreRecovered` | `Spec => []ServesAtItsPath`, `[]KilledStartsRecover` |
| `AdminSocketProofs!ForeignFilesStay` | `Spec => ForeignIsPreserved` (an action property) |
| `ThreadsProofs!SearchInvariant` | `Spec => []SearchInv` |
| `ThreadsProofs!BudgetsHold`, `ThreadsAreExact`, `RootsAreOne` | `Spec => []NoUnderflow`, `[]ThreadIsExact`, `[]RootsAgree` |
| `HandoffProofs!DropInvariant`, `SuccessIsDurable`, `NoStagingLeak` | `DropSpec => []DropInv`, `[]ConfirmedIsHandedOver`, `[]StagingIsRemoved` |
| `HandoffProofs!DropRefinesHandoff` | `DropSpec => DropImplementsHandoff` |
| `HandoffProofs!RunsInvariant`, `AtMostOneRun`, `RunsNameSessions` | `RunsSpec => []RunsInv`, `[]OneRunPerItem`, `[]SessionBeforeRun` |
| `HandoffProofs!RunsRefineHandoff` | `RunsSpec => RunsImplementHandoff` |

No property is inductive as it stands. The strengthenings:

**Recovery.** `Structure` says where a process can be: the owner lock is held by
exactly the process past `acquire_lock`, so that all steps on the audit are one
process's; the files, markers, transaction images and audit rows that its step
relies on exist. `Lineage` says what is known of contents:

- *FilesKnown*: every file of the audited journal, with or without its WAL, is
  what an announced revision committed; every other file is as it was created;
- *HeadKnown*: the head's snapshot is that of the content committed under it, a
  resolved head has been committed, and nothing is committed beyond it;
- *OwnerKnows*: an owner past its checks works on the audited journal; between
  prepare and commit the head is an intent, nothing is committed under it and
  its snapshot is the transaction's;
- *NoHistory*, *ApprovalKnown*: no audit, no history; approvals name a revision.

The step that carries the argument is the central commit: it gives the head's
revision a content, which cannot contradict another file because before it
nothing was committed under the head; prepare takes a number beyond the head;
the first baseline is published when every file is as it was created. A lost
WAL falls back to a main file, which is known, and never happens under the
owner's feet. `NoFork` follows because two files at one revision both equal
`hist` of it, `WriteAhead` because a recorded revision is at most the head, and
`ServedIsAudited` because an admitted operation's file is recorded at the head.

`History` adds how revisions follow each other. *HeadIsLatest*: the content of
the head is ahead of every earlier one (credentials only get revoked, numbers and
the log grow) and, once the head is resolved, its log has everything that callers
were told of. *EventsOrdered*: only the head can be an intent. *OwnerKeeps*: the
transaction at hand has that already before it commits, so that the commit
preserves it. *Reconciliations*: a reconciliation keeps the grants of the revision
before it and takes its own number as epoch. *Evidence*: each replay is recorded
in an event or still marked pending. `Ahead` is an order, every service
transaction is a step up in it, and so is a reconciliation from whatever backup,
because it takes the identity tables from the audited snapshot; these three are
lemmas. `ConfirmedSurvives` and `NoRegression` follow with `ServedIsAudited`:
what is served is the head's content.

**Journal.** `JournalInv` says of the live tables, and in the same words of the
backup (a restore makes one the other): a key names one record; the records of a
space are numbered 1 to n; relations point to smaller numbers; each recipient has
one item per record and the order of items follows that of records. It adds what
ties the tables to the counters: identifiers and inbox numbers were drawn, heads
are at least every number ever given, which no restore lowers; records imply a
secret; and an answer under way or already told is that of the key it was for.

**Identity.** `IdentityInv` says of the live rows, and of the backup's: a name
has one row and a principal one current name; credential ids and receipts are
unique and their owners exist; each revision of a profile has its one key row. It
says that the backup is an *earlier* state: every name of it still names the same
principal and aliases stayed aliases, its receipts and keys are still there, its
credentials still known. A handler past `authenticate` names a credential that
exists, so the owner it remembers is that credential's. The restore of names is
the hard step: `NamesAreRestored` shows that retiring and inserting the audited
rows one by one, in the order of their names, never fails and ends with the
audited names. Its induction over names goes by a least counterexample, and the
state after n names is given in closed form (`Partial`).

**Registration.** `RegistrationInv` adds where a run is and what its file holds
then (`RunOK`), what ties the lock, the visible file and the disk together
(`FileOK`), and `SecretsInv`: a secret is drawn for one file, only drawn secrets
are sent, the server binds only secrets that were sent, and a secret that was sent
is in its file, visible and synced, unless it is `exposed`. Two receipts for one
file then have the same secret, which has one receipt. Each step of the composed
system is a step of `Identity` or leaves its variables alone
(`RegistrationUsesIdentity`), so the theorems about `Identity` hold of it.

**Serving.** `Base` ties tasks to handlers: a task with a handler is the one that
handler waits for. `Linked`: the receiver of a poll belongs to the channel in the
map, whatever was pruned. `Wakeups`: if a poll saw an empty page and there is mail
now, then it was signalled, or the append that brought the mail has yet to
announce it, or nobody will (`silent`: its handler was dropped, or it failed after
its commit). The subscription precedes the
fetch, so that mail either is seen or comes after. `Leftovers` counts the tasks
without a handler: every disconnect makes one at most, and the drain waits for the
handlers of all others; a drain that was forced, or began with a listener that
stopped, ends without a normalisation.

**Initialization.** `InitInv` says who holds the marker: exactly the process
between taking and releasing it. Until that process has checkpointed, the file at
the path, if any, is without schema and nothing is in the WAL; hence no factory in
use, all of which admitted a complete file, gets past its comparison. A
connection that passed its checks is to the file at the path, which nobody
replaces under it; one that has not passed them yet may be to another file, but
then the path no longer names the admitted inode and never will again. That is
why the comparison after the open suffices. `Orderly` adds what holds while
nothing has gone wrong (`quiet`): a file at a path without a marker is finished,
with the schema in its main file and no sidecars but those of connections in use;
a process that found a file admits a finished one; the holder of the marker finds
none, or a finished one that another initializer left it. So each check on the
way passes, and a race alone refuses nobody.

**Administrative socket.** `Owners` says that each daemon past `open_owner_lock`
holds a lock of its own, that no two have the same socket, and that a marker which
names a daemon's socket carries that daemon's lock, in the file and in what anyone
has read or is about to write; two markers that name one socket carry one lock. A
daemon removes only what a marker with its own lock names. Between its look and
its unlink it *claims* the final path, as does a daemon that has linked its
socket there, and at most one daemon claims it: whoever links finds the path
free, which it is not while another's leftover is being removed, and what is
claimed stays until it is removed by its claimant or replaced by another program.
Hence no unlink hits the linked socket of another daemon, replaced lock or not.
`Watched`: while a foreign file is at the path, a daemon about to unlink it is in
`raced`. `Accounted` holds while the lock was not replaced: the marker accounts
for the final path and the pending name (`Told`), and the daemon at work knows in
which of its steps they are (`Place`). Marker writes come before the links and
unlinks they announce, so that every prefix of a start or a stop leaves files that
the last whole marker names.

**Threads.** `Climbs`: after k edges the climb is at the k-th ancestor and has met
k records, none twice, so that a record met again means a circle, and a limit hit
means a tree beyond it. `Descends`: the climb ended at the root; what was visited
and what is pending (`Frontier`) is a part of the tree that is closed towards the
root, without a record twice; the replies to visited records are in it; and
edges + 1 is the length of the climb plus the number of records found, which is
what keeps both subtractions of `thread_ids` at or above 0. No record is met
twice because its one parent was visited once. When nothing is pending, the part
is closed downwards too and hence the tree (`SearchIsWhole`). The reference
definitions are recursive functions; the lemmas about them (what a climb reaches,
that it ends once and soon or never) go by least counterexamples (`LeastNumber`).

**Runtimes.** `DropInv` ties each client's place in `inject` to the directory: a
staging name has one owner, a payload is whole before it is linked, and what a
client has linked or compared is there, or durable after its sync, or was taken.
`RunsInv` says that a client past preflight talks to a vendor that keeps keys,
that a run was made for a key exactly when one is admitted, and that an accepted
answer names an admitted or finished run. Every step then maps to a step of
`Handoff` or leaves its variables alone.

Only model-checked: `PassesAreComplete` of `Journal`, and everything about
`InboxWorker`, whose type invariant, a part of `AckedIsKept`, bounds a doubling
backoff, where the provers know nothing of powers. Liveness (`RestartSucceeds`,
`RegistrationFinishes`, `DrainIsNotHeld`, `RoutableAcknowledged`, `OpenEnds`) is
outside what the prover can do. Induction over numbers is within reach: a
recursive function is treated by a least counterexample, as in `NamesAreRestored`
and `ThreadsProofs`. `ConfirmedIsHandedOver`, `StagingIsRemoved` and
`SessionBeforeRun` are proved and in no run.

## Not modelled

- Loss or rollback of the audit file itself, which the documentation makes an
  operator's reset.
- A reader that overlaps the writer of its own daemon between the central commit
  and the committed outcome: it can see a revision that is committed and not yet
  recorded as such.
- Spaces and their archival, disabling of principals, expiry dates.
- How schema text is normalised before it is compared; the full-text index.
- The fake runtime (a stand-in of the tests), the web view, configuration,
  validation and encoding of requests, the single-request clients. They have no
  state of their own.
- Reuse of an inode number by a foreign socket at the administrative path, or by
  a database that was moved away.

## Plan

1. An abstract specification of an audited journal (one history of revisions,
   one served state, restores that only an approval makes effective) that
   `RecoveryAudit` implements by a refinement mapping; `Initialization` as the
   refinement of its `StartFresh`.
2. Readers beside the writer in `RecoveryAudit`.
3. Proofs: `PassesAreComplete` of `Journal`, `AckedIsKept` of `InboxWorker`.
4. `InboxWorker` over `Handoff` instead of its own spool, so that `AckedIsKept`
   holds of every runtime.
