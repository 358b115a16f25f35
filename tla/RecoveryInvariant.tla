------------------------- MODULE RecoveryInvariant -------------------------
(***************************************************************************)
(* The inductive invariant behind the safety theorems of RecoveryAudit.    *)
(* Structure says where processes, locks, files and markers can be;        *)
(* Lineage says what the audit knows about the contents of files; History  *)
(* says how the revisions of the journal follow each other. RecoveryProofs *)
(* proves them invariant.                                                  *)
(***************************************************************************)
EXTENDS RecoveryAudit

(* Every step behind the owner lock, *)
Owning == Labels \ {"down", "admitted"}

(* ... and the ones an owner reaches only once the audit is published. *)
Audited == Owning \ {"recover", "replay", "probe", "locked", "init", "staged"}

(* The owner lock is held exactly by the process past acquire_lock. *)
LockDiscipline ==
  \A p \in Procs : pc[p] \in Owning <=> lock = p

(* A file keeps existing once it is there, and its main part with it; only *)
(* a file has sidecars.                                                    *)
FilesExist ==
  \A f \in Paths : /\ main[f] # None <=> IsFile(central[f])
                   /\ hot[f] => IsFile(central[f])

(* Each process works on a file; the backup of a restore is yet to be      *)
(* looked at.                                                              *)
PlacesExist ==
  \A p \in Procs :
    /\ pc[p] # "down" => at[p] \in Paths
    /\ pc[p] \notin {"down", "validating"} => IsFile(central[at[p]])

(* A destination that the owner has reserved is still empty. *)
DestinationExists ==
  lock # None =>
    /\ pc[lock] \in Reserving \cup {"validating"} => aux[lock] \in Paths
    /\ pc[lock] \in Reserving => central[aux[lock]] = Torn

(* A start in crash recovery has its marker until CompleteRecovery. *)
MarkersExist ==
  lock # None =>
    /\ pc[lock] \in {"recover", "replay", "probe", "evidenced"} => mode[lock] = "hot"
    /\ /\ mode[lock] = "hot"
       /\ pc[lock] \in {"replay", "probe", "locked", "init", "staged", "baseline", "adopting",
                        "adopted", "opened", "evidenced"}
       => marker[at[lock]] # None

(* The owner's transaction image, and the room the audit has for it. *)
TransactionExists ==
  lock # None =>
    /\ pc[lock] \in {"operated", "prepared", "announced"} => tx \in File
    /\ pc[lock] = "operated" => head < MaxRev
    /\ pc[lock] \in {"prepared", "announced"} => tx.rev = head /\ head > 0
    /\ pc[lock] \in {"committed", "reconciled", "templated"} =>
         central[at[lock]].rev = head /\ head > 0
    /\ pc[lock] = "templated" => recorded # None

(* A published audit has a head with a snapshot. *)
AuditExists ==
  /\ auditFile = "published" => /\ auditJid \in Paths
                                /\ snap[head] # None
                                /\ outcome[head] # "none"
  /\ lock # None => /\ pc[lock] \in Audited => auditFile = "published"
                    /\ pc[lock] \in {"init", "staged"} => auditFile # "published"
  /\ gate = "open" => auditFile = "published"

Structure ==
  /\ TypeOK
  /\ LockDiscipline
  /\ FilesExist
  /\ PlacesExist
  /\ DestinationExists
  /\ MarkersExist
  /\ TransactionExists
  /\ AuditExists

-----------------------------------------------------------------------------
(* d is, byte for byte, what some announced revision committed. *)
Recorded(d) == d.rev \in 0..head /\ hist[d.rev] = d.content

(* A database no audit has ever been bound to is as it was created. *)
Pristine(d) == d.rev = 0 /\ ~d.required /\ d.content = Empty

Known(d) ==
  IF auditFile = "published" /\ d.jid = auditJid THEN Recorded(d) ELSE Pristine(d)

(* Every file, with or without its WAL, is known. *)
FilesKnown ==
  \A f \in Paths : /\ IsFile(central[f]) => Known(central[f])
                   /\ main[f] # None => Known(main[f])

(* The audit's head: the snapshot is that of the content committed under   *)
(* the head revision, and a resolved head has been committed.              *)
HeadKnown ==
  auditFile = "published" =>
    /\ hist[head] # None => snap[head] = Snapshot(hist[head])
    /\ outcome[head] # "prepared" => hist[head] # None
    /\ \A r \in Revs : r > head => hist[r] = None

(* No audit, no history. *)
NoHistory == auditFile # "published" => /\ \A r \in Revs : hist[r] = None
                                        /\ recorded = None

(* What the owner knows of the file it works on. *)
OwnerKnows ==
  lock # None =>
    LET d == central[at[lock]]  l == pc[lock] IN
    /\ l \in {"baseline", "adopted", "opened", "evidenced", "up", "reading", "operated",
              "prepared", "committed", "announced", "reconciled", "templated"}
         => d.jid = auditJid
    /\ l \in {"reading", "operated"} =>
         gate = "open" /\ outcome[head] # "prepared" /\ d.rev = head
    /\ l = "operated" => tx.jid = auditJid
    /\ l \in {"prepared", "announced"} =>
         /\ tx.jid = auditJid
         /\ outcome[head] = "prepared"
         /\ hist[head] = None
         /\ snap[head] = Snapshot(tx.content)

(* An approval is given for a revision that was announced. *)
ApprovalKnown == recorded # None => recorded.rev > 0

Lineage ==
  /\ FilesKnown
  /\ HeadKnown
  /\ NoHistory
  /\ OwnerKnows
  /\ ApprovalKnown
-----------------------------------------------------------------------------
(* c keeps what d promised to the holders of credentials and to readers of *)
(* inboxes.                                                                *)
Ahead(c, d) ==
  /\ \A x \in Creds : /\ d.creds[x] = "revoked" => c.creds[x] = "revoked"
                      /\ d.creds[x] # "none" => c.creds[x] # "none"
  /\ d.inbox <= c.inbox

(* c is ahead of everything that was ever committed. *)
Latest(c) ==
  \A r \in 0..head : hist[r] # None =>
    Ahead(c, hist[r]) /\ (outcome[r] = "reconciled" => r <= c.epoch)

(* Revision r is a reconciliation of the revision before it. *)
Reconciliation(r) ==
  /\ r \in 1..head
  /\ hist[r] # None /\ hist[r - 1] # None
  /\ hist[r].grant = hist[r - 1].grant
  /\ hist[r].epoch = r

(* The events of the audit: only the last may be unresolved, and only then *)
(* does the snapshot before it remain.                                     *)
EventsOrdered ==
  IF auditFile = "published"
    THEN /\ \A r \in 0..(head - 1) : outcome[r] \in {"committed", "reconciled"}
         /\ Resolved => \A r \in 0..(head - 1) : snap[r] = None
         /\ head > 0 => hist[head - 1] # None
    ELSE (\A r \in Revs : outcome[r] = "none") /\ confirmed = {}

(* What was committed last is ahead of all before it, and a resolved head  *)
(* holds what callers were told of.                                        *)
HeadIsLatest ==
  /\ hist[head] # None => Latest(hist[head])
  /\ auditFile = "published" /\ Resolved => confirmed \subseteq hist[head].log

(* The revisions that were reopened, and the one that may be. *)
Reconciliations ==
  /\ \A r \in 0..head : outcome[r] = "reconciled" => Reconciliation(r)
  /\ recorded # None => Reconciliation(recorded.rev)

(* The owner's transaction keeps all of that up to its commit. *)
OwnerKeeps ==
  lock # None =>
    LET l == pc[lock] IN
    /\ l \in {"operated", "prepared", "announced"} => Latest(tx.content)
    /\ l = "operated" => confirmed \cup {head + 1} \subseteq tx.content.log
    /\ l = "prepared" => confirmed \cup {head} \subseteq tx.content.log
    /\ l = "committed" => confirmed \cup {head} \subseteq hist[head].log
    /\ l = "announced" => tx.content.grant = hist[head - 1].grant /\ tx.content.epoch = head
    /\ l = "reconciled" => Reconciliation(head)
    /\ l = "evidenced" => marker[at[lock]].id \in crashed

(* Every verified recovery is in the events or still pending. *)
Evidence ==
  \A i \in 1..recoveries :
    i \in crashed \/ \E f \in Paths : marker[f] # None /\ marker[f].id = i

Ledger == EventsOrdered /\ HeadIsLatest /\ Reconciliations

History == Ledger /\ OwnerKeeps /\ Evidence
=============================================================================
