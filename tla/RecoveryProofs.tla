--------------------------- MODULE RecoveryProofs ---------------------------
(***************************************************************************)
(* Proofs about RecoveryAudit, for any number of paths, credentials,       *)
(* revisions and faults, in three steps. Structure is an inductive         *)
(* invariant: types, the owner lock, and the existence of every file,      *)
(* marker, image and snapshot that an operation takes for granted. Lineage *)
(* is one with it: every file of the journal is what some announced        *)
(* revision committed. From it follow the write-ahead rule, that revisions *)
(* never fork, and that what is served is what the audit describes.        *)
(* History is one with both: each revision is ahead of all those before    *)
(* it, holds what callers were told of, and every recovery leaves          *)
(* evidence. From it follow that confirmed mutations survive, that         *)
(* security state never regresses, that the audit is left sound, and that  *)
(* an intent is resolved only once it is committed.                        *)
(***************************************************************************)
EXTENDS RecoveryInvariant, TLAPS

(* The time a leaf may take on a busy machine; a leaf with arithmetic has *)
(* a second attempt.                                                      *)
USE ZenonT(60)

-----------------------------------------------------------------------------
(* Types, admission and protected startup *)

(* Snapshot reads tables that every content has. *)
LEMMA SnapshotType == \A c \in Content : Snapshot(c) \in Snapshots
BY DEF Content, Snapshots, Snapshot

(* Numbers among what TypeOK says. *)
LEMMA Numbers ==
  ASSUME TypeOK
  PROVE  /\ 0 \in Revs /\ head \in Revs /\ head \in Nat /\ 0..0 = {0}
         /\ \A r \in Revs : r \in Nat /\ (r > 0 => r # 0) /\ r <= r
         /\ \A r \in 0..head : r \in Revs /\ r \in Nat /\ (r # head => r \in 0..(head - 1))
         /\ head < MaxRev => head + 1 \in Revs /\ head + 1 > head
<1>1. head \in Revs
  BY DEF TypeOK
<1> QED
  BY <1>1, ConstantsAssumption, SMTT(30), SMTT(45) DEF Revs

(* A baseline database is a file. *)
LEMMA FreshType == \A f \in Paths : Fresh(f) \in File
BY ConstantsAssumption, SMTT(30), SMTT(45) DEF Fresh, File, Empty, Content, Revs, CredStates

(* A transaction and a reconciliation make contents of contents, *)
LEMMA MutateContent ==
  ASSUME NEW c \in Content, NEW kind \in Kinds, NEW x \in Creds
  PROVE  Mutate(c, kind, x) \in Content
<1>1. CASE kind = "issue"  BY <1>1 DEF Mutate, Content, CredStates
<1>2. CASE kind = "revoke"  BY <1>2 DEF Mutate, Content, CredStates
<1>3. CASE kind = "grant"  BY <1>3 DEF Mutate, Content
<1>4. CASE kind = "post"
  <2>1. Mutate(c, kind, x) = [c EXCEPT !.space = c.space + 1, !.inbox = c.inbox + 1]
    BY <1>4 DEF Mutate
  <2>2. c.space + 1 \in Nat /\ c.inbox + 1 \in Nat
    BY SMTT(30), SMTT(45) DEF Content
  <2> QED BY <2>1, <2>2 DEF Content
<1>5. CASE kind = "receipt"  BY <1>5 DEF Mutate, Content
<1> QED BY <1>1, <1>2, <1>3, <1>4, <1>5 DEF Kinds

LEMMA RestoreContent ==
  ASSUME NEW c \in Content, snap[head] \in Snapshots
  PROVE  RestoreSecurity(c) \in Content
BY DEF RestoreSecurity, RestoreCredentialHistory, Content, Snapshots, CredStates

(* and so images of files. *)
LEMMA MutateType ==
  ASSUME NEW d \in File, NEW kind \in Kinds, NEW x \in Creds, head + 1 \in Revs
  PROVE  Operated(d, kind, x) \in File
<1> DEFINE c == Mutate(d.content, kind, x)
<1>1. c \in Content
  BY MutateContent DEF File
<1>2. [c EXCEPT !.log = c.log \cup {head + 1}] \in Content
  BY <1>1 DEF Content
<1> QED BY <1>2 DEF File, Operated

LEMMA ReconciledType ==
  ASSUME NEW d \in File, TypeOK, snap[head] # None, head < MaxRev
  PROVE  ReconciledAnchor([d EXCEPT !.content = RestoreSecurity(d.content)]) \in File
<1>1. snap[head] \in Snapshots /\ head + 1 \in Revs
  BY ConstantsAssumption, SMTT(30), SMTT(45) DEF TypeOK, Revs
<1>2. RestoreSecurity(d.content) \in Content
  BY <1>1, RestoreContent DEF File
<1> QED BY <1>1, <1>2 DEF ReconciledAnchor, File, Content

(* Connecting to a file, checkpointing it or leaving it alone. *)
LEMMA ConnectionStep ==
  ASSUME TypeOK, FilesExist, NEW f \in Paths, IsFile(central[f]), UNCHANGED central,
         Standalone(f) \/ Connect(f) \/ UNCHANGED <<hot, main>>
  PROVE  /\ hot' \in [Paths -> BOOLEAN]
         /\ main' \in [Paths -> File \cup {None}]
         /\ FilesExist'
<1>1. CASE Standalone(f)
  BY <1>1 DEF Structure, Standalone, FilesExist, IsFile, TypeOK
<1>2. CASE Connect(f)
  BY <1>2 DEF Structure, Connect, FilesExist, IsFile, TypeOK
<1>3. CASE UNCHANGED <<hot, main>>
  BY <1>3 DEF Structure, FilesExist, IsFile, TypeOK
<1> QED BY <1>1, <1>2, <1>3

(* What a process past acquire_lock can rely on. *)
LEMMA OwnerHas ==
  ASSUME Structure, NEW p \in Procs, pc[p] \in Owning
  PROVE  /\ lock = p /\ lock # None /\ at[p] \in Paths /\ pc[p] # "down"
         /\ pc[p] # "validating" => IsFile(central[at[p]]) /\ central[at[p]] \in File
<1>1. lock = p /\ pc[p] # "down" /\ lock # None
  BY ConstantsAssumption DEF Structure, LockDiscipline, Owning
<1>2. at[p] \in Paths /\ (pc[p] # "validating" => IsFile(central[at[p]]))
  BY <1>1 DEF Structure, PlacesExist
<1> QED BY <1>1, <1>2 DEF Structure, TypeOK, IsFile

(* What is left as it should be when the owner p, working on the same      *)
(* database, gets from one step behind the lock to step l.                 *)
Moves(p, l) ==
  /\ lock = p /\ lock # None /\ at[p] \in Paths
  /\ IsFile(central[at[p]]) /\ central[at[p]] \in File
  /\ pc' \in [Procs -> Labels] /\ pc'[p] = l
  /\ hot' \in [Paths -> BOOLEAN] /\ main' \in [Paths -> File \cup {None}]
  /\ central' \in [Paths -> File \cup {None, Torn}]
  /\ LockDiscipline' /\ PlacesExist' /\ FilesExist'

(* The file changes by a new image, or not at all. *)
LEMMA OwnerMoves ==
  ASSUME Structure, NEW p \in Procs, pc[p] \notin {"down", "admitted", "validating"},
         NEW l \in Owning, Goto(p, l), UNCHANGED <<lock, at>>,
         \/ /\ UNCHANGED central
            /\ Standalone(at[p]) \/ Connect(at[p]) \/ UNCHANGED <<hot, main>>
         \/ /\ \E d \in File : central' = [central EXCEPT ![at[p]] = d]
            /\ UNCHANGED <<hot, main>>
  PROVE  Moves(p, l)
<1>1. pc' = [pc EXCEPT ![p] = l] /\ pc \in [Procs -> Labels] /\ l \in Labels /\ pc[p] \in Owning
  BY DEF Goto, Structure, TypeOK, Owning
<1>2. /\ lock = p /\ lock # None /\ at[p] \in Paths
      /\ IsFile(central[at[p]]) /\ central[at[p]] \in File
  BY <1>1, OwnerHas
<1>3. /\ FilesExist' /\ hot' \in [Paths -> BOOLEAN] /\ main' \in [Paths -> File \cup {None}]
      /\ central' \in [Paths -> File \cup {None, Torn}]
      /\ \A f \in Paths : IsFile(central[f]) => IsFile(central'[f])
  <2>1. CASE UNCHANGED central
    BY <1>2, <2>1, ConnectionStep DEF Structure, TypeOK, IsFile
  <2>2. CASE (\E d \in File : central' = [central EXCEPT ![at[p]] = d]) /\ UNCHANGED <<hot, main>>
    BY <1>2, <2>2, ConstantsAssumption, SMTT(30), SMTT(45) DEF Structure, FilesExist, TypeOK, IsFile
  <2> QED BY <2>1, <2>2
<1>4. LockDiscipline' /\ PlacesExist'
  BY <1>1, <1>3 DEF Structure, LockDiscipline, PlacesExist, Owning
<1> QED BY <1>1, <1>2, <1>3, <1>4 DEF Moves

(* What the announcement of an image leaves in the audit. *)
LEMMA AnnounceType ==
  ASSUME TypeOK, NEW d \in File, d.rev = head + 1, head < MaxRev, Announce(d)
  PROVE  /\ tx' \in File /\ tx'.rev = head' /\ head' \in Revs /\ head' > 0
         /\ outcome' \in [Revs -> {"none", "prepared", "committed", "reconciled"}]
         /\ snap' \in [Revs -> Snapshots \cup {None}]
         /\ snap'[head'] # None /\ outcome'[head'] # "none"
<1>1. head + 1 \in Revs /\ head + 1 > 0 /\ head \in Nat
  BY ConstantsAssumption, SMTT(30), SMTT(45) DEF TypeOK, Revs
<1>2. Snapshot(d.content) \in Snapshots
  BY SnapshotType DEF File
<1> QED BY <1>1, <1>2, ConstantsAssumption DEF Announce, TypeOK

(* A process that ends takes nothing from the others. *)
LEMMA ExitStep ==
  ASSUME Structure, NEW p \in Procs, Exit(p), TypeOK', FilesExist',
         UNCHANGED <<marker, auditFile, auditJid, head, outcome, snap, recorded>>,
         \A f \in Paths : IsFile(central[f]) => central'[f] = central[f],
         central' # central => lock = p,
         gate' = gate \/ (gate' = "closed" /\ lock = p)
  PROVE  Structure'
<1>1. /\ pc' = [pc EXCEPT ![p] = "down"] /\ pc \in [Procs -> Labels]
      /\ at' = [at EXCEPT ![p] = None] /\ at \in [Procs -> Paths \cup {None}]
      /\ aux' = [aux EXCEPT ![p] = None] /\ aux \in [Procs -> Paths \cup {None}]
      /\ mode' = [mode EXCEPT ![p] = "none"] /\ mode \in [Procs -> {"none", "cold", "hot", "tool"}]
      /\ lock' = IF lock = p THEN None ELSE lock
      /\ tx' = IF lock = p THEN None ELSE tx
      /\ lock \in Procs \cup {None}
  BY DEF Structure, Exit, Goto, TypeOK
<1>2. LockDiscipline'
  BY ConstantsAssumption, <1>1 DEF Structure, LockDiscipline, Owning
<1>3. PlacesExist'
  BY <1>1 DEF Structure, PlacesExist, IsFile
<1>4. CASE lock = p
  BY <1>1, <1>2, <1>3, <1>4 DEF Structure, DestinationExists, MarkersExist, TransactionExists, AuditExists
<1>5. CASE lock # p
  <2>1. /\ lock' = lock /\ tx' = tx /\ UNCHANGED <<central, gate>>
        /\ lock # None => /\ pc'[lock] = pc[lock] /\ at'[lock] = at[lock]
                          /\ aux'[lock] = aux[lock] /\ mode'[lock] = mode[lock]
    BY <1>1, <1>5
  <2>2. DestinationExists' /\ MarkersExist'
    BY <2>1 DEF Structure, DestinationExists, MarkersExist
  <2>3. TransactionExists' /\ AuditExists'
    BY <2>1 DEF Structure, TransactionExists, AuditExists
  <2> QED BY <1>2, <1>3, <2>2, <2>3 DEF Structure
<1> QED BY <1>4, <1>5

(* A process that is admitted holds no lock. *)
LEMMA AdmitStep ==
  ASSUME Structure, NEW p \in Procs, NEW f \in Paths, pc[p] = "down", IsFile(central'[f]),
         NEW m \in {"cold", "hot", "tool"},
         Goto(p, "admitted"), mode' = [mode EXCEPT ![p] = m], at' = [at EXCEPT ![p] = f],
         \A g \in Paths : IsFile(central[g]) => central'[g] = central[g],
         \A g \in Paths : central[g] = Torn => central'[g] = Torn,
         UNCHANGED <<marker, auditFile, auditJid, gate, head, outcome, snap, recorded, lock, aux, tx>>,
         FilesExist', TypeOK'
  PROVE  Structure'
<1>1. /\ pc' = [pc EXCEPT ![p] = "admitted"] /\ pc \in [Procs -> Labels]
      /\ at \in [Procs -> Paths \cup {None}]
      /\ mode \in [Procs -> {"none", "cold", "hot", "tool"}]
      /\ lock \in Procs \cup {None}
  BY DEF Structure, Goto, TypeOK
<1>2. lock # p
  BY DEF Structure, LockDiscipline, Owning
<1>3. LockDiscipline'
  BY <1>1 DEF Structure, LockDiscipline, Owning
<1>4. PlacesExist'
  BY <1>1 DEF Structure, PlacesExist, IsFile
<1>5. lock # None => /\ pc'[lock] = pc[lock] /\ at'[lock] = at[lock] /\ mode'[lock] = mode[lock]
  BY <1>1, <1>2
<1>6. DestinationExists' /\ MarkersExist'
  BY <1>5 DEF Structure, DestinationExists, MarkersExist
<1>7. lock # None /\ pc[lock] # "validating" => central'[at[lock]] = central[at[lock]]
  BY <1>1 DEF Structure, LockDiscipline, PlacesExist, Owning
<1>8. TransactionExists' /\ AuditExists'
  BY <1>5, <1>7 DEF Structure, TransactionExists, AuditExists
<1> QED BY <1>3, <1>4, <1>6, <1>8 DEF Structure

(* Admission, before the owner lock. *)
LEMMA StartStep ==
  ASSUME Structure, NEW p \in Procs, Start(p)
  PROVE  Structure'
<1> USE DEF central_vars, audit_vars, hist_vars
<1>1. ASSUME NEW f \in Paths, StartFresh(p, f) PROVE Structure'
  <2>1. /\ pc[p] = "down" /\ Goto(p, "admitted") /\ central[f] = None
        /\ central' = [central EXCEPT ![f] = Fresh(f)] /\ main' = [main EXCEPT ![f] = Fresh(f)]
        /\ mode' = [mode EXCEPT ![p] = "cold"] /\ at' = [at EXCEPT ![p] = f]
        /\ UNCHANGED <<hot, marker, auditFile, auditJid, gate, head, outcome, snap, recorded,
                       lock, aux, tx>>
    BY <1>1 DEF StartFresh
  <2>2. Fresh(f) \in File /\ IsFile(Fresh(f))
    BY ConstantsAssumption, FreshType DEF IsFile
  <2>3. TypeOK'
    BY <1>1, <2>2 DEF Structure, StartFresh, Goto, TypeOK, Labels
  <2>4. FilesExist'
    BY <2>1, <2>2 DEF Structure, FilesExist, TypeOK, IsFile
  <2>5. /\ IsFile(central'[f])
        /\ \A g \in Paths : IsFile(central[g]) \/ central[g] = Torn => central'[g] = central[g]
    BY ConstantsAssumption, <2>1, <2>2 DEF Structure, TypeOK, IsFile
  <2> QED BY <2>1, <2>3, <2>4, <2>5, AdmitStep
<1>2. ASSUME NEW f \in Paths, StartCold(p, f) PROVE Structure'
  <2>1. FilesExist' /\ TypeOK'
    BY <1>2 DEF Structure, StartCold, Goto, FilesExist, TypeOK, Labels, IsFile
  <2>2. /\ pc[p] = "down" /\ IsFile(central'[f]) /\ Goto(p, "admitted")
        /\ mode' = [mode EXCEPT ![p] = "cold"] /\ at' = [at EXCEPT ![p] = f]
        /\ UNCHANGED <<central, marker, auditFile, auditJid, gate, head, outcome, snap, recorded,
                       lock, aux, tx>>
    BY <1>2 DEF StartCold, IsFile
  <2> QED BY <2>1, <2>2, AdmitStep
<1>3. ASSUME NEW f \in Paths, StartHot(p, f) PROVE Structure'
  <2>1. FilesExist' /\ TypeOK'
    BY <1>3 DEF Structure, StartHot, Goto, FilesExist, TypeOK, Labels, IsFile
  <2>2. /\ pc[p] = "down" /\ IsFile(central'[f]) /\ Goto(p, "admitted")
        /\ mode' = [mode EXCEPT ![p] = "hot"] /\ at' = [at EXCEPT ![p] = f]
        /\ UNCHANGED <<central, marker, auditFile, auditJid, gate, head, outcome, snap, recorded,
                       lock, aux, tx>>
    BY <1>3 DEF StartHot, IsFile
  <2> QED BY <2>1, <2>2, AdmitStep
<1>4. ASSUME NEW f \in Paths, StartTool(p, f) PROVE Structure'
  <2>1. FilesExist' /\ TypeOK'
    BY <1>4 DEF Structure, StartTool, Goto, FilesExist, TypeOK, Labels, IsFile
  <2>2. /\ pc[p] = "down" /\ IsFile(central'[f]) /\ Goto(p, "admitted")
        /\ mode' = [mode EXCEPT ![p] = "tool"] /\ at' = [at EXCEPT ![p] = f]
        /\ UNCHANGED <<central, marker, auditFile, auditJid, gate, head, outcome, snap, recorded,
                       lock, aux, tx>>
    BY <1>4 DEF StartTool, IsFile
  <2> QED BY <2>1, <2>2, AdmitStep
<1> QED BY <1>1, <1>2, <1>3, <1>4 DEF Start

(* Protected startup behind the lock. *)
LEMMA OpenStep ==
  ASSUME Structure, NEW p \in Procs, Open(p)
  PROVE  Structure'
<1> USE DEF central_vars, audit_vars, hist_vars
<1>1. CASE AcquireLock(p)
  <2>1. /\ pc[p] = "admitted" /\ lock = None /\ lock' = p /\ p # None
        /\ pc'[p] \in {"recover", "locked"} /\ (mode[p] = "hot" => pc'[p] = "recover")
        /\ (pc'[p] = "recover" => mode[p] = "hot")
        /\ \A q \in Procs \ {p} : pc'[q] = pc[q]
    BY ConstantsAssumption, <1>1 DEF Structure, AcquireLock, Goto, TypeOK
  <2>2. TypeOK'
    BY <1>1 DEF Structure, AcquireLock, Goto, TypeOK, Labels
  <2>3. LockDiscipline'
    BY ConstantsAssumption, <2>1 DEF Structure, LockDiscipline, Owning, Labels
  <2>4. FilesExist' /\ PlacesExist'
    BY <1>1, <2>1 DEF Structure, AcquireLock, FilesExist, PlacesExist, IsFile
  <2>5. DestinationExists' /\ MarkersExist' /\ TransactionExists' /\ AuditExists'
    BY <1>1, <2>1 DEF Structure, AcquireLock, DestinationExists, MarkersExist, TransactionExists,
       AuditExists, Audited, Owning, Labels, Reserving
  <2> QED BY <2>2, <2>3, <2>4, <2>5 DEF Structure
<1>2. CASE VerifyCopy(p)
  <2>1. Moves(p, "replay")
    BY <1>2, OwnerMoves DEF VerifyCopy, Owning, Labels
  <2>3. /\ Verified(central[at[p]]) \in Markers /\ recoveries' \in 0..MaxRecoveries
        /\ marker' = [marker EXCEPT ![at[p]] = Verified(central[at[p]])]
        /\ marker'[at[p]] # None
    BY ConstantsAssumption, <1>2, <2>1, SMTT(30), SMTT(45) DEF Moves, Structure, VerifyCopy, Verified, Markers, TypeOK
  <2>8. TypeOK'
    BY <1>2, <2>1, <2>3, SMTT(30), SMTT(45) DEF Moves, VerifyCopy, Structure, TypeOK
  <2>9. DestinationExists' /\ MarkersExist' /\ TransactionExists' /\ AuditExists'
    BY <1>2, <2>1, <2>3 DEF Moves, VerifyCopy, Structure, DestinationExists, MarkersExist,
       TransactionExists, AuditExists, Audited, Owning, Labels, Reserving
  <2> QED BY <2>1, <2>8, <2>9 DEF Moves, Structure
<1>3. CASE ResumeRecovery(p)
  <2>1. Moves(p, "replay")
    BY <1>3, OwnerMoves DEF ResumeRecovery, Owning, Labels
  <2>8. TypeOK'
    BY <1>3, <2>1 DEF Moves, ResumeRecovery, Structure, TypeOK
  <2>9. DestinationExists' /\ MarkersExist' /\ TransactionExists' /\ AuditExists'
    BY <1>3, <2>1 DEF Moves, ResumeRecovery, Structure, DestinationExists, MarkersExist,
       TransactionExists, AuditExists, Audited, Owning, Labels, Reserving
  <2> QED BY <2>1, <2>8, <2>9 DEF Moves, Structure
<1>4. CASE Replay(p)
  <2>1. Moves(p, "probe")
    BY <1>4, OwnerMoves DEF Replay, Owning, Labels
  <2>8. TypeOK'
    BY <1>4, <2>1 DEF Moves, Replay, Structure, TypeOK
  <2>9. DestinationExists' /\ MarkersExist' /\ TransactionExists' /\ AuditExists'
    BY <1>4, <2>1 DEF Moves, Replay, Structure, DestinationExists, MarkersExist,
       TransactionExists, AuditExists, Audited, Owning, Labels, Reserving
  <2> QED BY <2>1, <2>8, <2>9 DEF Moves, Structure
<1>5. CASE Probe(p)
  <2>1. Moves(p, "locked")
    BY <1>5, OwnerMoves DEF Probe, Owning, Labels
  <2>8. TypeOK'
    BY <1>5, <2>1 DEF Moves, Probe, Structure, TypeOK
  <2>9. DestinationExists' /\ MarkersExist' /\ TransactionExists' /\ AuditExists'
    BY <1>5, <2>1 DEF Moves, Probe, Structure, DestinationExists, MarkersExist,
       TransactionExists, AuditExists, Audited, Owning, Labels, Reserving
  <2> QED BY <2>1, <2>8, <2>9 DEF Moves, Structure
<1>6. CASE OpenForRecovery(p)
  <2>1. Moves(p, "ready")
    BY <1>6, OwnerMoves DEF OpenForRecovery, Owning, Labels
  <2>8. TypeOK'
    BY <1>6, <2>1 DEF Moves, OpenForRecovery, Structure, TypeOK
  <2>9. DestinationExists' /\ MarkersExist' /\ TransactionExists' /\ AuditExists'
    BY <1>6, <2>1 DEF Moves, OpenForRecovery, Structure, DestinationExists, MarkersExist,
       TransactionExists, AuditExists, Audited, Owning, Labels, Reserving
  <2> QED BY <2>1, <2>8, <2>9 DEF Moves, Structure
<1>7. CASE OpenWithLock(p)
  <2>1. Moves(p, "opened")
    BY <1>7, OwnerMoves DEF OpenWithLock, Owning, Labels
  <2>8. TypeOK'
    BY <1>7, <2>1 DEF Moves, OpenWithLock, Structure, TypeOK
  <2>9. DestinationExists' /\ MarkersExist' /\ TransactionExists' /\ AuditExists'
    BY <1>7, <2>1 DEF Moves, OpenWithLock, Structure, DestinationExists, MarkersExist,
       TransactionExists, AuditExists, Audited, Owning, Labels, Reserving
  <2> QED BY <2>1, <2>8, <2>9 DEF Moves, Structure
<1>8. CASE InitBegin(p)
  <2>1. Moves(p, "init")
    BY <1>8, OwnerMoves DEF InitBegin, Owning, Labels
  <2>8. TypeOK'
    BY <1>8, <2>1 DEF Moves, InitBegin, Structure, TypeOK
  <2>9. DestinationExists' /\ MarkersExist' /\ TransactionExists' /\ AuditExists'
    BY <1>8, <2>1 DEF Moves, InitBegin, Structure, DestinationExists, MarkersExist,
       TransactionExists, AuditExists, Audited, Owning, Labels, Reserving
  <2> QED BY <2>1, <2>8, <2>9 DEF Moves, Structure
<1>9. CASE InitStage(p)
  <2>1. Moves(p, "staged")
    BY <1>9, OwnerMoves DEF InitStage, Owning, Labels
  <2>8. TypeOK'
    BY <1>9, <2>1 DEF Moves, InitStage, Structure, TypeOK
  <2>9. DestinationExists' /\ MarkersExist' /\ TransactionExists' /\ AuditExists'
    BY <1>9, <2>1 DEF Moves, InitStage, Structure, DestinationExists, MarkersExist,
       TransactionExists, AuditExists, Audited, Owning, Labels, Reserving
  <2> QED BY <2>1, <2>8, <2>9 DEF Moves, Structure
<1>10. CASE InitPublish(p)
  <2>1. Moves(p, "baseline")
    BY <1>10, OwnerMoves DEF InitPublish, Owning, Labels
  <2>3. /\ central[at[p]].jid \in Paths /\ central[at[p]].content \in Content /\ 0 \in Revs
        /\ Snapshot(central[at[p]].content) \in Snapshots
    BY ConstantsAssumption, <2>1, SnapshotType, SMTT(30), SMTT(45) DEF Moves, File, Revs
  <2>4. /\ snap' \in [Revs -> Snapshots \cup {None}] /\ snap'[0] # None
        /\ outcome' \in [Revs -> {"none", "prepared", "committed", "reconciled"}]
        /\ outcome'[0] = "committed" /\ hist' \in [Revs -> Content \cup {None}]
    BY ConstantsAssumption, <1>10, <2>3 DEF Structure, InitPublish, TypeOK
  <2>8. TypeOK'
    BY <1>10, <2>1, <2>3, <2>4 DEF Moves, InitPublish, Structure, TypeOK
  <2>9. DestinationExists' /\ MarkersExist' /\ TransactionExists' /\ AuditExists'
    BY <1>10, <2>1, <2>3, <2>4 DEF Moves, InitPublish, Structure, DestinationExists, MarkersExist,
       TransactionExists, AuditExists, Audited, Owning, Labels, Reserving
  <2> QED BY <2>1, <2>8, <2>9 DEF Moves, Structure
<1>11. CASE AdoptBegin(p)
  <2>1. Moves(p, "adopting")
    BY <1>11, OwnerMoves DEF AdoptBegin, Owning, Labels
  <2>8. TypeOK'
    BY <1>11, <2>1 DEF Moves, AdoptBegin, Structure, TypeOK
  <2>9. DestinationExists' /\ MarkersExist' /\ TransactionExists' /\ AuditExists'
    BY <1>11, <2>1 DEF Moves, AdoptBegin, Structure, DestinationExists, MarkersExist,
       TransactionExists, AuditExists, Audited, Owning, Labels, Reserving
  <2> QED BY <2>1, <2>8, <2>9 DEF Moves, Structure
<1>12. CASE Adopt(p)
  <2>0. Adopted(central[at[p]]) \in File
    <3>1. pc[p] \in Owning /\ pc[p] # "validating"
      BY <1>12 DEF Adopt, Owning, Labels
    <3>2. central[at[p]] \in File
      BY <3>1, OwnerHas
    <3> QED BY <3>2 DEF Adopted, File
  <2>1. Moves(p, "adopted")
    BY <1>12, <2>0, OwnerMoves DEF Adopt, Owning, Labels
  <2>8. TypeOK'
    BY <1>12, <2>1 DEF Moves, Adopt, Structure, TypeOK
  <2>9. DestinationExists' /\ MarkersExist' /\ TransactionExists' /\ AuditExists'
    BY <1>12, <2>1 DEF Moves, Adopt, Structure, DestinationExists, MarkersExist,
       TransactionExists, AuditExists, Audited, Owning, Labels, Reserving
  <2> QED BY <2>1, <2>8, <2>9 DEF Moves, Structure
<1>13. CASE AdoptDone(p)
  <2>1. Moves(p, "ready") \/ Moves(p, "opened")
    BY <1>13, OwnerMoves DEF AdoptDone, Owning, Labels
  <2>8. TypeOK'
    BY <1>13, <2>1 DEF Moves, AdoptDone, Structure, TypeOK
  <2>9. DestinationExists' /\ MarkersExist' /\ TransactionExists' /\ AuditExists'
    BY <1>13, <2>1 DEF Moves, AdoptDone, Structure, DestinationExists, MarkersExist,
       TransactionExists, AuditExists, Audited, Owning, Labels, Reserving
  <2> QED BY <2>1, <2>8, <2>9 DEF Moves, Structure
<1>14. CASE FinishOpen(p)
  <2>1. Moves(p, "up")
    BY <1>14, OwnerMoves DEF FinishOpen, Owning, Labels
  <2>8. TypeOK'
    BY <1>14, <2>1 DEF Moves, FinishOpen, Structure, TypeOK
  <2>9. DestinationExists' /\ MarkersExist' /\ TransactionExists' /\ AuditExists'
    BY <1>14, <2>1 DEF Moves, FinishOpen, Structure, DestinationExists, MarkersExist,
       TransactionExists, AuditExists, Audited, Owning, Labels, Reserving
  <2> QED BY <2>1, <2>8, <2>9 DEF Moves, Structure
<1>15. CASE RecordCrashRecovery(p)
  <2>1. Moves(p, "evidenced")
    BY <1>15, OwnerMoves DEF RecordCrashRecovery, Owning, Labels
  <2>3. crashed' \subseteq 1..MaxRecoveries
    <3>1. marker[at[p]] \in Markers
      BY <1>15, <2>1 DEF Moves, Structure, RecordCrashRecovery, MarkersExist, TypeOK
    <3> QED BY <1>15, <3>1 DEF Structure, RecordCrashRecovery, TypeOK, Markers
  <2>8. TypeOK'
    BY <1>15, <2>1, <2>3 DEF Moves, RecordCrashRecovery, Structure, TypeOK
  <2>9. DestinationExists' /\ MarkersExist' /\ TransactionExists' /\ AuditExists'
    BY <1>15, <2>1, <2>3 DEF Moves, RecordCrashRecovery, Structure, DestinationExists, MarkersExist,
       TransactionExists, AuditExists, Audited, Owning, Labels, Reserving
  <2> QED BY <2>1, <2>8, <2>9 DEF Moves, Structure
<1>16. CASE CompleteRecovery(p)
  <2>1. Moves(p, "up")
    BY <1>16, OwnerMoves DEF CompleteRecovery, Owning, Labels
  <2>8. TypeOK'
    BY <1>16, <2>1 DEF Moves, CompleteRecovery, Structure, TypeOK
  <2>9. DestinationExists' /\ MarkersExist' /\ TransactionExists' /\ AuditExists'
    BY <1>16, <2>1 DEF Moves, CompleteRecovery, Structure, DestinationExists, MarkersExist,
       TransactionExists, AuditExists, Audited, Owning, Labels, Reserving
  <2> QED BY <2>1, <2>8, <2>9 DEF Moves, Structure
<1> QED BY <1>1, <1>2, <1>3, <1>4, <1>5, <1>6, <1>7, <1>8, <1>9, <1>10, <1>11, <1>12, <1>13, <1>14, <1>15, <1>16 DEF Open

-----------------------------------------------------------------------------
(* The service, recovery and failures *)

(* Service transactions. *)
LEMMA ServeStep ==
  ASSUME Structure, NEW p \in Procs, Serve(p)
  PROVE  Structure'
<1> USE DEF central_vars, audit_vars, hist_vars
<1>1. CASE BeginRead(p)
  <2>1. Moves(p, "reading")
    BY <1>1, OwnerMoves DEF BeginRead, Owning, Labels
  <2>8. TypeOK'
    BY <1>1, <2>1 DEF Moves, BeginRead, Structure, TypeOK
  <2>9. DestinationExists' /\ MarkersExist' /\ TransactionExists' /\ AuditExists'
    BY <1>1, <2>1 DEF Moves, BeginRead, Structure, DestinationExists, MarkersExist,
       TransactionExists, AuditExists, Audited, Owning, Labels, Reserving
  <2> QED BY <2>1, <2>8, <2>9 DEF Moves, Structure
<1>2. CASE EndRead(p)
  <2>1. Moves(p, "up")
    BY <1>2, OwnerMoves DEF EndRead, Owning, Labels
  <2>8. TypeOK'
    BY <1>2, <2>1 DEF Moves, EndRead, Structure, TypeOK
  <2>9. DestinationExists' /\ MarkersExist' /\ TransactionExists' /\ AuditExists'
    BY <1>2, <2>1 DEF Moves, EndRead, Structure, DestinationExists, MarkersExist,
       TransactionExists, AuditExists, Audited, Owning, Labels, Reserving
  <2> QED BY <2>1, <2>8, <2>9 DEF Moves, Structure
<1>3. CASE BeginTransaction(p)
  <2>1. Moves(p, "operated")
    BY <1>3, OwnerMoves DEF BeginTransaction, Owning, Labels
  <2>3. tx' \in File
    <3>1. head + 1 \in Revs
      BY ConstantsAssumption, <1>3, SMTT(30), SMTT(45) DEF Structure, BeginTransaction, TypeOK, Revs
    <3>2. PICK kind \in UsedKinds, x \in Creds : tx' = Operated(central[at[p]], kind, x)
      BY <1>3 DEF BeginTransaction
    <3> QED BY <2>1, <3>1, <3>2, MutateType, ConstantsAssumption DEF Moves
  <2>8. TypeOK'
    BY <1>3, <2>1, <2>3 DEF Moves, BeginTransaction, Structure, TypeOK
  <2>9. DestinationExists' /\ MarkersExist' /\ TransactionExists' /\ AuditExists'
    BY <1>3, <2>1, <2>3 DEF Moves, BeginTransaction, Structure, DestinationExists, MarkersExist,
       TransactionExists, AuditExists, Audited, Owning, Labels, Reserving
  <2> QED BY <2>1, <2>8, <2>9 DEF Moves, Structure
<1>4. CASE Prepare(p)
  <2>1. Moves(p, "prepared")
    BY <1>4, OwnerMoves DEF Prepare, Owning, Labels
  <2>3. tx \in File /\ head < MaxRev
    BY <1>4, <2>1 DEF Moves, Structure, Prepare, TransactionExists
  <2>4. /\ tx' \in File /\ tx'.rev = head' /\ head' \in Revs /\ head' > 0
        /\ outcome' \in [Revs -> {"none", "prepared", "committed", "reconciled"}]
        /\ snap' \in [Revs -> Snapshots \cup {None}]
        /\ snap'[head'] # None /\ outcome'[head'] # "none"
    <3> DEFINE d == [tx EXCEPT !.rev = head + 1]
    <3>1. head + 1 \in Revs
      BY <2>3, ConstantsAssumption, SMTT(30), SMTT(45) DEF Structure, TypeOK, Revs
    <3>2. d \in File /\ d.rev = head + 1
      BY <2>3, <3>1 DEF File
    <3>3. Announce(d)
      BY <1>4 DEF Prepare
    <3> HIDE DEF d
    <3> QED BY <2>3, <3>2, <3>3, AnnounceType DEF Structure
  <2>8. TypeOK'
    BY <1>4, <2>1, <2>4 DEF Moves, Prepare, Structure, TypeOK
  <2>9. DestinationExists' /\ MarkersExist' /\ TransactionExists' /\ AuditExists'
    BY <1>4, <2>1, <2>4 DEF Moves, Prepare, Structure, DestinationExists, MarkersExist,
       TransactionExists, AuditExists, Audited, Owning, Labels, Reserving
  <2> QED BY <2>1, <2>8, <2>9 DEF Moves, Structure
<1>5. CASE CommitTransaction(p)
  <2>3. /\ tx \in File /\ tx.rev = head /\ head > 0 /\ tx.content \in Content
        /\ lock # None /\ at[p] \in Paths
    <3>1. pc[p] \in Owning
      BY <1>5 DEF CommitTransaction, Owning, Labels
    <3>2. lock = p /\ lock # None /\ at[p] \in Paths
      BY <3>1, OwnerHas
    <3> QED BY <1>5, <3>2 DEF Structure, CommitTransaction, TransactionExists, File
  <2>4. hist' \in [Revs -> Content \cup {None}] /\ central'[at[p]].rev = head
    BY <1>5, <2>3 DEF CommitTransaction, CommitImage, Structure, TypeOK
  <2>1. Moves(p, "committed")
    BY <1>5, <2>3, OwnerMoves DEF CommitTransaction, CommitImage, Owning, Labels
  <2>8. TypeOK'
    BY <1>5, <2>1, <2>3, <2>4 DEF Moves, CommitTransaction, CommitImage, Structure, TypeOK
  <2>9. DestinationExists' /\ MarkersExist' /\ TransactionExists' /\ AuditExists'
    BY <1>5, <2>1, <2>3, <2>4 DEF Moves, CommitTransaction, Structure, DestinationExists, MarkersExist,
       TransactionExists, AuditExists, Audited, Owning, Labels, Reserving
  <2> QED BY <2>1, <2>8, <2>9 DEF Moves, Structure
<1>6. CASE Committed(p)
  <2>1. Moves(p, "up")
    BY <1>6, OwnerMoves DEF Committed, Disconnect, Owning, Labels
  <2>3. /\ head \in Revs /\ confirmed' \subseteq Revs
        /\ outcome' = [outcome EXCEPT ![head] = "committed"] /\ snap' = ReleaseSuperseded(head)
    BY <1>6, <2>1 DEF Moves, Structure, Committed, TransactionExists, TypeOK
  <2>4. /\ snap' \in [Revs -> Snapshots \cup {None}] /\ snap'[head] = snap[head]
        /\ outcome' \in [Revs -> {"none", "prepared", "committed", "reconciled"}]
        /\ outcome'[head] = "committed"
    BY <2>3, SMTT(30), SMTT(45) DEF Structure, ReleaseSuperseded, TypeOK, Revs
  <2>8. TypeOK'
    BY <1>6, <2>1, <2>3, <2>4 DEF Moves, Committed, Structure, TypeOK
  <2>9. DestinationExists' /\ MarkersExist' /\ TransactionExists' /\ AuditExists'
    BY <1>6, <2>1, <2>3, <2>4 DEF Moves, Committed, Structure, DestinationExists, MarkersExist,
       TransactionExists, AuditExists, Audited, Owning, Labels, Reserving
  <2> QED BY <2>1, <2>8, <2>9 DEF Moves, Structure
<1>7. CASE TransactionFails(p)
  <2>1. Moves(p, "up")
    BY <1>7, OwnerMoves DEF TransactionFails, Disconnect, Owning, Labels
  <2>8. TypeOK'
    BY <1>7, <2>1 DEF Moves, TransactionFails, Structure, TypeOK
  <2>9. DestinationExists' /\ MarkersExist' /\ TransactionExists' /\ AuditExists'
    BY <1>7, <2>1 DEF Moves, TransactionFails, Structure, DestinationExists, MarkersExist,
       TransactionExists, AuditExists, Audited, Owning, Labels, Reserving
  <2> QED BY <2>1, <2>8, <2>9 DEF Moves, Structure
<1>8. CASE Shutdown(p)
  <2>1. /\ at[p] \in Paths /\ IsFile(central[at[p]]) /\ UNCHANGED central /\ Exit(p)
        /\ Standalone(at[p]) \/ UNCHANGED <<hot, main>>
    BY <1>8, OwnerHas DEF Shutdown, Owning, Labels
  <2>2. FilesExist' /\ hot' \in [Paths -> BOOLEAN] /\ main' \in [Paths -> File \cup {None}]
    BY <2>1, ConnectionStep DEF Structure
  <2>3. TypeOK'
    BY <1>8, <2>1, <2>2 DEF Structure, Shutdown, Exit, Goto, TypeOK, Labels
  <2> QED BY <1>8, <2>1, <2>2, <2>3, ExitStep DEF Shutdown
<1> QED BY <1>1, <1>2, <1>3, <1>4, <1>5, <1>6, <1>7, <1>8 DEF Serve

(* journal-recover. *)
LEMMA RecoverStep ==
  ASSUME Structure, NEW p \in Procs, Recover(p)
  PROVE  Structure'
<1> USE DEF central_vars, audit_vars, hist_vars
<1>1. CASE Close(p)
  <2>1. /\ pc[p] = "ready" /\ lock = p /\ at[p] \in Paths /\ IsFile(central[at[p]])
        /\ UNCHANGED central /\ Exit(p) /\ UNCHANGED <<hot, main>>
    BY <1>1, OwnerHas DEF Close, Owning, Labels
  <2>2. FilesExist' /\ hot' \in [Paths -> BOOLEAN] /\ main' \in [Paths -> File \cup {None}]
    BY <2>1, ConnectionStep DEF Structure
  <2>4. TypeOK'
    BY <1>1, <2>1, <2>2 DEF Structure, Close, Exit, Goto, TypeOK, Labels
  <2> QED BY <1>1, <2>1, <2>2, <2>4, ExitStep DEF Close
<1>2. ASSUME NEW dst \in Paths, BackupReserve(p, dst) PROVE Structure'
  <2>1. /\ pc[p] = "ready" /\ pc[p] \in Owning /\ lock = p /\ lock # None
        /\ at[p] \in Paths /\ IsFile(central[at[p]]) /\ dst \in Paths /\ central[dst] = None
    BY <1>2, OwnerHas DEF Structure, BackupReserve, Owning, Labels, DestinationExists
  <2>2. /\ central' = [central EXCEPT ![dst] = Torn] /\ central'[dst] = Torn
        /\ aux'[p] = dst /\ pc' = [pc EXCEPT ![p] = "copying"] /\ pc'[p] = "copying"
        /\ UNCHANGED <<hot, main, lock, at>>
    BY <1>2, <2>1 DEF Structure, BackupReserve, Goto, TypeOK
  <2>3. TypeOK'
    BY <1>2, <2>1, <2>2, SMTT(30), SMTT(45) DEF Structure, BackupReserve, Goto, TypeOK, Labels
  <2>4. FilesExist' /\ \A f \in Paths : IsFile(central[f]) => IsFile(central'[f])
    BY <2>1, <2>2 DEF Structure, FilesExist, IsFile, TypeOK
  <2>5. LockDiscipline'
    BY <2>1, <2>2 DEF Structure, LockDiscipline, Owning, Labels, TypeOK
  <2>6. PlacesExist'
    BY <2>1, <2>2, <2>4 DEF Structure, PlacesExist, TypeOK
  <2>7. DestinationExists' /\ MarkersExist' /\ TransactionExists' /\ AuditExists'
    BY <1>2, <2>1, <2>2 DEF Structure, BackupReserve, DestinationExists, MarkersExist, TransactionExists,
       AuditExists, Audited, Owning, Labels, Reserving
  <2> QED BY <2>3, <2>4, <2>5, <2>6, <2>7 DEF Structure
<1>3. CASE BackupCopy(p)
  <2>1. /\ pc[p] = "copying" /\ pc[p] \in Owning /\ lock = p /\ lock # None
        /\ at[p] \in Paths /\ IsFile(central[at[p]]) /\ central[at[p]] \in File
        /\ aux[p] \in Paths /\ central[aux[p]] = Torn
    BY <1>3, OwnerHas DEF Structure, BackupCopy, Owning, Labels, DestinationExists, Reserving
  <2>2. /\ central' = [central EXCEPT ![aux[p]] = central[at[p]]]
        /\ main' = [main EXCEPT ![aux[p]] = central[at[p]]]
        /\ at' = [at EXCEPT ![p] = aux[p]] /\ pc' = [pc EXCEPT ![p] = "copied"]
        /\ pc'[p] = "copied" /\ UNCHANGED <<hot, lock>>
    BY <1>3, <2>1 DEF Structure, BackupCopy, Goto, TypeOK
  <2>3. TypeOK'
    BY <1>3, <2>1, <2>2 DEF Structure, BackupCopy, TypeOK, Labels
  <2>4. FilesExist' /\ \A f \in Paths : IsFile(central[f]) => IsFile(central'[f])
    BY <2>1, <2>2 DEF Structure, FilesExist, IsFile, TypeOK
  <2>5. LockDiscipline'
    BY <2>1, <2>2 DEF Structure, LockDiscipline, Owning, Labels, TypeOK
  <2>6. PlacesExist'
    <3>1. IsFile(central'[aux[p]])
      BY <2>1, <2>2 DEF Structure, TypeOK
    <3> QED BY <2>1, <2>2, <2>4, <3>1 DEF Structure, PlacesExist, TypeOK
  <2>7. DestinationExists' /\ MarkersExist' /\ TransactionExists' /\ AuditExists'
    BY <1>3, <2>1, <2>2 DEF Structure, BackupCopy, DestinationExists, MarkersExist, TransactionExists,
       AuditExists, Audited, Owning, Labels, Reserving
  <2> QED BY <2>3, <2>4, <2>5, <2>6, <2>7 DEF Structure
<1>4. CASE BackupRecord(p)
  <2>1. /\ pc[p] = "copied" /\ lock = p /\ at[p] \in Paths /\ IsFile(central[at[p]])
        /\ UNCHANGED central /\ Exit(p) /\ Standalone(at[p])
    BY <1>4, OwnerHas DEF BackupRecord, Owning, Labels
  <2>2. FilesExist' /\ hot' \in [Paths -> BOOLEAN] /\ main' \in [Paths -> File \cup {None}]
    BY <2>1, ConnectionStep DEF Structure
  <2>4. TypeOK'
    BY <1>4, <2>1, <2>2 DEF Structure, BackupRecord, Exit, Goto, TypeOK, Labels
  <2> QED BY <1>4, <2>1, <2>2, <2>4, ExitStep DEF BackupRecord
<1>5. ASSUME NEW backup \in Paths, NEW dst \in Paths, RestoreBegin(p, backup, dst) PROVE Structure'
  <2>1. pc[p] = "ready" /\ lock = p /\ lock # None
    BY <1>5, OwnerHas DEF RestoreBegin, Owning, Labels
  <2>2. /\ pc' = [pc EXCEPT ![p] = "validating"] /\ pc'[p] = "validating"
        /\ at' = [at EXCEPT ![p] = backup] /\ aux'[p] = dst
        /\ UNCHANGED <<central, main, hot, lock>>
    BY <1>5 DEF Structure, RestoreBegin, Goto, TypeOK
  <2>3. TypeOK'
    BY <1>5, <2>2 DEF Structure, RestoreBegin, TypeOK, Labels
  <2>4. FilesExist' /\ LockDiscipline'
    BY <2>1, <2>2 DEF Structure, FilesExist, IsFile, LockDiscipline, Owning, Labels, TypeOK
  <2>5. PlacesExist'
    BY <2>1, <2>2 DEF Structure, PlacesExist, IsFile, TypeOK
  <2>6. DestinationExists' /\ MarkersExist' /\ TransactionExists' /\ AuditExists'
    BY <1>5, <2>1, <2>2 DEF Structure, RestoreBegin, DestinationExists, MarkersExist, TransactionExists,
       AuditExists, Audited, Owning, Labels, Reserving
  <2> QED BY <2>3, <2>4, <2>5, <2>6 DEF Structure
<1>6. CASE RestoreReserve(p)
  <2>1. /\ pc[p] = "validating" /\ pc[p] \in Owning /\ lock = p /\ lock # None
        /\ at[p] \in Paths /\ IsFile(central[at[p]]) /\ aux[p] \in Paths /\ central[aux[p]] = None
    BY <1>6, OwnerHas DEF Structure, RestoreReserve, Owning, Labels, DestinationExists
  <2>2. /\ central' = [central EXCEPT ![aux[p]] = Torn] /\ central'[aux[p]] = Torn
        /\ aux'[p] = aux[p] /\ pc' = [pc EXCEPT ![p] = "restoring"] /\ pc'[p] = "restoring"
        /\ UNCHANGED <<hot, main, lock, at>>
    BY <1>6, <2>1 DEF Structure, RestoreReserve, Goto, TypeOK
  <2>3. TypeOK'
    BY <1>6, <2>1, <2>2, SMTT(30), SMTT(45) DEF Structure, RestoreReserve, Goto, TypeOK, Labels
  <2>4. FilesExist' /\ \A f \in Paths : IsFile(central[f]) => IsFile(central'[f])
    BY <2>1, <2>2 DEF Structure, FilesExist, IsFile, TypeOK
  <2>5. LockDiscipline'
    BY <2>1, <2>2 DEF Structure, LockDiscipline, Owning, Labels, TypeOK
  <2>6. PlacesExist'
    BY <2>1, <2>2, <2>4 DEF Structure, PlacesExist, TypeOK
  <2>7. DestinationExists' /\ MarkersExist' /\ TransactionExists' /\ AuditExists'
    BY <1>6, <2>1, <2>2 DEF Structure, RestoreReserve, DestinationExists, MarkersExist, TransactionExists,
       AuditExists, Audited, Owning, Labels, Reserving
  <2> QED BY <2>3, <2>4, <2>5, <2>6, <2>7 DEF Structure
<1>7. CASE RestoreCopy(p)
  <2>1. /\ pc[p] = "restoring" /\ pc[p] \in Owning /\ lock = p /\ lock # None
        /\ at[p] \in Paths /\ IsFile(central[at[p]]) /\ central[at[p]] \in File
        /\ aux[p] \in Paths /\ central[aux[p]] = Torn
    BY <1>7, OwnerHas DEF Structure, RestoreCopy, Owning, Labels, DestinationExists, Reserving
  <2>2. /\ central' = [central EXCEPT ![aux[p]] = central[at[p]]]
        /\ main' = [main EXCEPT ![aux[p]] = central[at[p]]]
        /\ at' = [at EXCEPT ![p] = aux[p]] /\ pc' = [pc EXCEPT ![p] = "reconciling"]
        /\ pc'[p] = "reconciling" /\ UNCHANGED <<hot, lock>>
    BY <1>7, <2>1 DEF Structure, RestoreCopy, Goto, TypeOK
  <2>3. TypeOK'
    BY <1>7, <2>1, <2>2 DEF Structure, RestoreCopy, TypeOK, Labels
  <2>4. FilesExist' /\ \A f \in Paths : IsFile(central[f]) => IsFile(central'[f])
    BY <2>1, <2>2 DEF Structure, FilesExist, IsFile, TypeOK
  <2>5. LockDiscipline'
    BY <2>1, <2>2 DEF Structure, LockDiscipline, Owning, Labels, TypeOK
  <2>6. PlacesExist'
    <3>1. IsFile(central'[aux[p]])
      BY <2>1, <2>2 DEF Structure, TypeOK
    <3> QED BY <2>1, <2>2, <2>4, <3>1 DEF Structure, PlacesExist, TypeOK
  <2>7. DestinationExists' /\ MarkersExist' /\ TransactionExists' /\ AuditExists'
    BY <1>7, <2>1, <2>2 DEF Structure, RestoreCopy, DestinationExists, MarkersExist, TransactionExists,
       AuditExists, Audited, Owning, Labels, Reserving
  <2> QED BY <2>3, <2>4, <2>5, <2>6, <2>7 DEF Structure
<1>8. CASE ReconcileBegin(p)
  <2>1. Moves(p, "reconciling")
    BY <1>8, OwnerMoves DEF ReconcileBegin, Owning, Labels
  <2>8. TypeOK'
    BY <1>8, <2>1 DEF Moves, ReconcileBegin, Structure, TypeOK
  <2>9. DestinationExists' /\ MarkersExist' /\ TransactionExists' /\ AuditExists'
    BY <1>8, <2>1 DEF Moves, ReconcileBegin, Structure, DestinationExists, MarkersExist,
       TransactionExists, AuditExists, Audited, Owning, Labels, Reserving
  <2> QED BY <2>1, <2>8, <2>9 DEF Moves, Structure
<1>9. CASE ReconcilePrepare(p)
  <2>1. Moves(p, "announced")
    BY <1>9, OwnerMoves DEF ReconcilePrepare, Owning, Labels
  <2>3. head < MaxRev /\ snap[head] # None
    BY <1>9, <2>1 DEF Moves, Structure, ReconcilePrepare, AuditExists, Audited, Owning, Labels
  <2>4. /\ tx' \in File /\ tx'.rev = head' /\ head' \in Revs /\ head' > 0
        /\ outcome' \in [Revs -> {"none", "prepared", "committed", "reconciled"}]
        /\ snap' \in [Revs -> Snapshots \cup {None}]
        /\ snap'[head'] # None /\ outcome'[head'] # "none"
    <3> DEFINE e == [central[at[p]] EXCEPT !.content = RestoreSecurity(central[at[p]].content)]
               d == ReconciledAnchor(e)
    <3>1. d \in File
      BY <2>1, <2>3, ReconciledType DEF Moves, Structure
    <3>2. d.rev = head + 1
      BY <2>1 DEF Moves, ReconciledAnchor, File
    <3>3. Announce(d)
      BY <1>9 DEF ReconcilePrepare
    <3> HIDE DEF d
    <3> QED BY <2>3, <3>1, <3>2, <3>3, AnnounceType DEF Structure
  <2>8. TypeOK'
    BY <1>9, <2>1, <2>4 DEF Moves, ReconcilePrepare, Structure, TypeOK
  <2>9. DestinationExists' /\ MarkersExist' /\ TransactionExists' /\ AuditExists'
    BY <1>9, <2>1, <2>4 DEF Moves, ReconcilePrepare, Structure, DestinationExists, MarkersExist,
       TransactionExists, AuditExists, Audited, Owning, Labels, Reserving
  <2> QED BY <2>1, <2>8, <2>9 DEF Moves, Structure
<1>10. CASE ReconcileCommit(p)
  <2>3. /\ tx \in File /\ tx.rev = head /\ head > 0 /\ tx.content \in Content
        /\ lock # None /\ at[p] \in Paths
    <3>1. pc[p] \in Owning
      BY <1>10 DEF ReconcileCommit, Owning, Labels
    <3>2. lock = p /\ lock # None /\ at[p] \in Paths
      BY <3>1, OwnerHas
    <3> QED BY <1>10, <3>2 DEF Structure, ReconcileCommit, TransactionExists, File
  <2>4. hist' \in [Revs -> Content \cup {None}] /\ central'[at[p]].rev = head
    BY <1>10, <2>3 DEF ReconcileCommit, CommitImage, Structure, TypeOK
  <2>1. Moves(p, "reconciled")
    BY <1>10, <2>3, OwnerMoves DEF ReconcileCommit, CommitImage, Owning, Labels
  <2>8. TypeOK'
    BY <1>10, <2>1, <2>3, <2>4 DEF Moves, ReconcileCommit, CommitImage, Structure, TypeOK
  <2>9. DestinationExists' /\ MarkersExist' /\ TransactionExists' /\ AuditExists'
    BY <1>10, <2>1, <2>3, <2>4 DEF Moves, ReconcileCommit, Structure, DestinationExists, MarkersExist,
       TransactionExists, AuditExists, Audited, Owning, Labels, Reserving
  <2> QED BY <2>1, <2>8, <2>9 DEF Moves, Structure
<1>11. CASE ReconcileRecord(p)
  <2>1. Moves(p, "templated")
    BY <1>11, OwnerMoves DEF ReconcileRecord, Owning, Labels
  <2>3. recorded' \in Approvals
    BY <1>11, <2>1 DEF Moves, Structure, ReconcileRecord, TypeOK, Approvals
  <2>8. TypeOK'
    BY <1>11, <2>1, <2>3 DEF Moves, ReconcileRecord, Structure, TypeOK
  <2>9. DestinationExists' /\ MarkersExist' /\ TransactionExists' /\ AuditExists'
    BY <1>11, <2>1, <2>3, ConstantsAssumption DEF Moves, ReconcileRecord, Structure, DestinationExists, MarkersExist,
       TransactionExists, AuditExists, Audited, Owning, Labels, Reserving
  <2> QED BY <2>1, <2>8, <2>9 DEF Moves, Structure
<1>12. CASE ReconcileFinish(p)
  <2>1. /\ pc[p] = "templated" /\ lock = p /\ at[p] \in Paths /\ IsFile(central[at[p]])
        /\ UNCHANGED central /\ Exit(p) /\ Standalone(at[p])
    BY <1>12, OwnerHas DEF ReconcileFinish, Owning, Labels
  <2>2. FilesExist' /\ hot' \in [Paths -> BOOLEAN] /\ main' \in [Paths -> File \cup {None}]
    BY <2>1, ConnectionStep DEF Structure
  <2>3. approvals' \subseteq Approvals
    BY ConstantsAssumption, <1>12, <2>1 DEF Structure, ReconcileFinish, TransactionExists, TypeOK
  <2>4. TypeOK'
    BY <1>12, <2>1, <2>2, <2>3 DEF Structure, ReconcileFinish, Exit, Goto, TypeOK, Labels
  <2> QED BY <1>12, <2>1, <2>2, <2>4, ExitStep DEF ReconcileFinish
<1>13. ASSUME NEW approval \in approvals, Reopen(p, approval) PROVE Structure'
  <2>1. Moves(p, "reopened")
    BY <1>13, OwnerMoves DEF Reopen, Owning, Labels
  <2>3. head \in Revs /\ outcome' = [outcome EXCEPT ![head] = "reconciled"] /\ snap' = ReleaseSuperseded(head)
    BY <1>13 DEF Structure, Reopen, TypeOK
  <2>4. /\ snap' \in [Revs -> Snapshots \cup {None}] /\ snap'[head] = snap[head]
        /\ outcome' \in [Revs -> {"none", "prepared", "committed", "reconciled"}]
        /\ outcome'[head] = "reconciled"
    BY <2>3, SMTT(30), SMTT(45) DEF Structure, ReleaseSuperseded, TypeOK, Revs
  <2>8. TypeOK'
    BY <1>13, <2>1, <2>3, <2>4 DEF Moves, Reopen, Structure, TypeOK
  <2>9. DestinationExists' /\ MarkersExist' /\ TransactionExists' /\ AuditExists'
    BY <1>13, <2>1, <2>3, <2>4 DEF Moves, Reopen, Structure, DestinationExists, MarkersExist,
       TransactionExists, AuditExists, Audited, Owning, Labels, Reserving
  <2> QED BY <2>1, <2>8, <2>9 DEF Moves, Structure
<1>14. CASE ReopenDone(p)
  <2>1. /\ pc[p] = "reopened" /\ lock = p /\ at[p] \in Paths /\ IsFile(central[at[p]])
        /\ UNCHANGED central /\ Exit(p) /\ Standalone(at[p])
    BY <1>14, OwnerHas DEF ReopenDone, Owning, Labels
  <2>2. FilesExist' /\ hot' \in [Paths -> BOOLEAN] /\ main' \in [Paths -> File \cup {None}]
    BY <2>1, ConnectionStep DEF Structure
  <2>4. TypeOK'
    BY <1>14, <2>1, <2>2 DEF Structure, ReopenDone, Exit, Goto, TypeOK, Labels
  <2> QED BY <1>14, <2>1, <2>2, <2>4, ExitStep DEF ReopenDone
<1> QED BY <1>1, <1>2, <1>3, <1>4, <1>5, <1>6, <1>7, <1>8, <1>9, <1>10, <1>11, <1>12, <1>13, <1>14 DEF Recover

(* Refusals, errors and abrupt stops. *)
LEMMA FailureStep ==
  ASSUME Structure, NEW p \in Procs, Refuse(p) \/ DropDestination(p) \/ Crash(p)
  PROVE  Structure'
<1> USE DEF central_vars, audit_vars, hist_vars
<1>1. CASE Refuse(p)
  <2>1. at[p] \in Paths /\ UNCHANGED central /\ Exit(p)
    BY <1>1 DEF Structure, Refuse, PlacesExist
  <2>2. FilesExist' /\ hot' \in [Paths -> BOOLEAN] /\ main' \in [Paths -> File \cup {None}]
    <3>1. CASE pc[p] \notin Connected
      BY <1>1, <3>1 DEF Structure, Refuse, FilesExist, IsFile, TypeOK
    <3>2. CASE pc[p] \in Connected
      <4>1. IsFile(central[at[p]]) /\ Standalone(at[p])
        BY <1>1, <3>2 DEF Structure, Refuse, Connected, PlacesExist
      <4> QED BY <2>1, <4>1, ConnectionStep DEF Structure
    <3> QED BY <3>1, <3>2
  <2>3. TypeOK'
    BY <1>1, <2>1, <2>2, SMTT(30), SMTT(45) DEF Structure, Refuse, Exit, Goto, TypeOK, Labels
  <2> QED BY <1>1, <2>1, <2>2, <2>3, ExitStep DEF Refuse
<1>2. CASE DropDestination(p)
  <2>1. /\ lock = p /\ aux[p] \in Paths /\ central[aux[p]] = Torn /\ Exit(p)
        /\ central' = [central EXCEPT ![aux[p]] = None] /\ UNCHANGED <<main, hot>>
    BY <1>2, OwnerHas DEF Structure, DropDestination, DestinationExists, Reserving, Owning, Labels
  <2>2. /\ central' \in [Paths -> File \cup {None, Torn}] /\ FilesExist'
        /\ \A f \in Paths : IsFile(central[f]) => central'[f] = central[f]
    BY <2>1 DEF Structure, FilesExist, IsFile, TypeOK
  <2>3. TypeOK'
    BY <1>2, <2>2 DEF Structure, DropDestination, Exit, Goto, TypeOK, Labels
  <2> QED BY <1>2, <2>1, <2>2, <2>3, ExitStep DEF DropDestination
<1>3. CASE Crash(p)
  <2>1. UNCHANGED <<central, main>> /\ Exit(p) /\ lock = p
    BY <1>3 DEF Crash
  <2>2. hot' \in [Paths -> BOOLEAN] /\ FilesExist'
    <3>1. CASE UNCHANGED hot
      BY <2>1, <3>1 DEF Structure, FilesExist, IsFile, TypeOK
    <3>2. CASE /\ pc[p] \in {"probe", "copied", "validating", "reconciling"}
               /\ IsFile(central[at[p]])
               /\ hot' = [hot EXCEPT ![at[p]] = TRUE]
      BY <2>1, <3>2 DEF Structure, FilesExist, IsFile, TypeOK
    <3> QED BY <1>3, <3>1, <3>2 DEF Crash
  <2>3. stops' \in 0..MaxCrashes
    BY ConstantsAssumption, <1>3, SMTT(30), SMTT(45) DEF Structure, Crash, TypeOK
  <2>4. TypeOK'
    BY <1>3, <2>2, <2>3 DEF Structure, Crash, Exit, Goto, TypeOK, Labels
  <2> QED BY <1>3, <2>1, <2>2, <2>4, ExitStep DEF Crash
<1> QED BY <1>1, <1>2, <1>3

(* The loss of a WAL leaves the main file, and never the owner's. *)
LEMMA LoseWalStep ==
  ASSUME Structure, NEW f \in Paths, LoseWal(f)
  PROVE  Structure'
<1> USE DEF audit_vars, proc_vars, hist_vars
<1>1. /\ central' = [central EXCEPT ![f] = main[f]] /\ IsFile(central[f]) /\ main[f] \in File
      /\ hot' = [hot EXCEPT ![f] = FALSE]
      /\ lock # None => at[lock] # f
      /\ UNCHANGED <<main, marker, auditFile, auditJid, gate, head, outcome, snap, recorded,
                     lock, pc, mode, at, aux, tx>>
  BY DEF Structure, LoseWal, FilesExist, TypeOK
<1>2. TypeOK'
  BY <1>1 DEF Structure, LoseWal, TypeOK
<1>3. FilesExist' /\ LockDiscipline' /\ MarkersExist' /\ AuditExists'
  BY ConstantsAssumption, <1>1 DEF Structure, FilesExist, IsFile, LockDiscipline, MarkersExist, AuditExists, TypeOK
<1>4. PlacesExist'
  BY ConstantsAssumption, <1>1 DEF Structure, PlacesExist, IsFile, TypeOK
<1>5. DestinationExists'
  BY <1>1 DEF Structure, DestinationExists, IsFile, TypeOK
<1>6. lock # None => central'[at[lock]] = central[at[lock]]
  BY ConstantsAssumption, <1>1 DEF Structure, TypeOK, LockDiscipline, PlacesExist, Owning
<1>7. TransactionExists'
  BY <1>1, <1>6 DEF Structure, TransactionExists
<1> QED BY <1>2, <1>3, <1>4, <1>5, <1>7 DEF Structure

(* Structure is an invariant of every behavior: in particular every        *)
(* variable keeps its type, at most one process is past acquire_lock, and  *)
(* no step reads a file, marker, snapshot or transaction that is not there.*)
THEOREM StructureInvariant == Spec => []Structure
<1>1. Init => Structure
  <2> SUFFICES ASSUME Init PROVE Structure
    OBVIOUS
  <2>1. TypeOK
    BY ConstantsAssumption, SMTT(30), SMTT(45) DEF Init, TypeOK, Labels, Revs
  <2>2. LockDiscipline /\ PlacesExist /\ DestinationExists
    BY ConstantsAssumption
    DEF Init, LockDiscipline, PlacesExist, DestinationExists, Owning, Audited, Labels, Reserving
  <2>3. FilesExist
    BY ConstantsAssumption DEF Init, FilesExist, IsFile
  <2>4. MarkersExist /\ TransactionExists /\ AuditExists
    BY ConstantsAssumption
    DEF Init, MarkersExist, TransactionExists, AuditExists, Owning, Audited, Labels, IsFile
  <2> QED
    BY <2>1, <2>2, <2>3, <2>4 DEF Structure
<1>2. Structure /\ [Next]_vars => Structure'
  <2> SUFFICES ASSUME Structure, [Next]_vars PROVE Structure'
    OBVIOUS
  <2>1. CASE UNCHANGED vars
    <3> USE <2>1 DEF Structure, vars, central_vars, audit_vars, proc_vars, hist_vars
    <3>1. TypeOK'
      BY DEF TypeOK
    <3>2. LockDiscipline' /\ FilesExist' /\ PlacesExist'
      BY DEF LockDiscipline, FilesExist, PlacesExist, IsFile
    <3>3. DestinationExists' /\ MarkersExist' /\ TransactionExists' /\ AuditExists'
      BY DEF DestinationExists, MarkersExist, TransactionExists, AuditExists
    <3> QED BY <3>1, <3>2, <3>3
  <2>2. ASSUME NEW p \in Procs, Start(p) PROVE Structure'
    BY <2>2, StartStep
  <2>3. ASSUME NEW p \in Procs, Open(p) PROVE Structure'
    BY <2>3, OpenStep
  <2>4. ASSUME NEW p \in Procs, Serve(p) PROVE Structure'
    BY <2>4, ServeStep
  <2>5. ASSUME NEW p \in Procs, Recover(p) PROVE Structure'
    BY <2>5, RecoverStep
  <2>6. ASSUME NEW p \in Procs, Refuse(p) \/ DropDestination(p) \/ Crash(p) PROVE Structure'
    BY <2>6, FailureStep
  <2>7. ASSUME NEW f \in Paths, LoseWal(f) PROVE Structure'
    BY <2>7, LoseWalStep
  <2> QED BY <2>1, <2>2, <2>3, <2>4, <2>5, <2>6, <2>7 DEF Next
<1> QED BY <1>1, <1>2, PTL DEF Spec

(* Every variable has its type, for any number of processes, files,        *)
(* credentials and any bounds.                                             *)
THEOREM TypeCorrect == Spec => []TypeOK
<1>1. Structure => TypeOK
  BY DEF Structure
<1> QED BY <1>1, StructureInvariant, PTL

-----------------------------------------------------------------------------
(* Files, audit and owner; admission and protected startup *)

(* Files only move around: nothing becomes unknown while audit and history *)
(* stay as they are.                                                       *)
LEMMA FilesFrame ==
  ASSUME FilesKnown, UNCHANGED <<auditFile, auditJid, head, hist>>,
         \A f \in Paths :
           /\ IsFile(central'[f]) =>
                \E g \in Paths : \/ IsFile(central[g]) /\ central'[f] = central[g]
                                 \/ main[g] # None /\ central'[f] = main[g]
           /\ main'[f] # None =>
                \E g \in Paths : \/ IsFile(central[g]) /\ main'[f] = central[g]
                                 \/ main[g] # None /\ main'[f] = main[g]
  PROVE  FilesKnown'
BY SMTT(30), SMTT(45) DEF FilesKnown, Known, Recorded, Pristine, IsFile

(* The files of an owner that connects or checkpoints. *)
LEMMA SameFiles ==
  ASSUME FilesKnown, FilesExist, UNCHANGED <<central, auditFile, auditJid, head, hist>>,
         NEW g \in Paths, central \in [Paths -> File \cup {None, Torn}],
         main \in [Paths -> File \cup {None}],
         main' = main \/ (main' = [main EXCEPT ![g] = central[g]] /\ IsFile(central[g]))
  PROVE  FilesKnown'
<1>1. \A f \in Paths :
           /\ IsFile(central'[f]) =>
                \E h \in Paths : \/ IsFile(central[h]) /\ central'[f] = central[h]
                                 \/ main[h] # None /\ central'[f] = main[h]
           /\ main'[f] # None =>
                \E h \in Paths : \/ IsFile(central[h]) /\ main'[f] = central[h]
                                 \/ main[h] # None /\ main'[f] = main[h]
  OBVIOUS
<1> QED BY <1>1, FilesFrame

(* The audit and its history stay as they are. *)
LEMMA AuditFrame ==
  ASSUME HeadKnown, NoHistory, ApprovalKnown,
         UNCHANGED <<auditFile, head, outcome, snap, hist, recorded>>
  PROVE  HeadKnown' /\ NoHistory' /\ ApprovalKnown'
BY DEF HeadKnown, NoHistory, ApprovalKnown

(* A process that is not the owner moves. *)
LEMMA OwnerFrame ==
  ASSUME Structure, OwnerKnows, NEW p \in Procs, lock # p,
         UNCHANGED <<lock, tx, auditJid, gate, head, outcome, snap, hist>>,
         \A q \in Procs \ {p} : pc'[q] = pc[q] /\ at'[q] = at[q],
         \A f \in Paths : IsFile(central[f]) => central'[f] = central[f]
  PROVE  OwnerKnows'
BY SMTT(30), SMTT(45) DEF Structure, TypeOK, LockDiscipline, PlacesExist, OwnerKnows, IsFile, Owning, Labels

(* Announcing a revision leaves every file and the history as they are: the *)
(* new head has not been committed by anybody.                             *)
LEMMA AnnounceKeeps ==
  ASSUME Structure, Lineage, NEW p \in Procs, lock = p, auditFile = "published",
         head < MaxRev, NEW d \in File, d.jid = auditJid, Announce(d),
         UNCHANGED <<central, main, auditFile, auditJid, hist, recorded, lock, at>>,
         central[at[p]].jid = auditJid, pc' = [pc EXCEPT ![p] = "prepared"]
                                        \/ pc' = [pc EXCEPT ![p] = "announced"]
  PROVE  Lineage'
<1> USE ConstantsAssumption DEF Structure, Lineage
<1>1. head \in Nat /\ head + 1 \in Revs /\ head' = head + 1
  BY Numbers DEF Announce
<1>2. hist[head + 1] = None
  BY <1>1, Numbers DEF HeadKnown
<1>3. FilesKnown'
  BY <1>1, SMTT(30), SMTT(45) DEF FilesKnown, Known, Recorded, Pristine, IsFile
<1>4. outcome'[head + 1] = "prepared" /\ snap'[head + 1] = Snapshot(d.content) /\ tx' = d
  BY <1>1 DEF Announce, TypeOK
<1>5. HeadKnown'
  BY <1>1, <1>2, <1>4, SMTT(30), SMTT(45) DEF HeadKnown, Revs, TypeOK
<1>6. NoHistory' /\ ApprovalKnown'
  BY DEF NoHistory, ApprovalKnown
<1>7. OwnerKnows'
  <2>1. pc'[p] \in {"prepared", "announced"}
    BY DEF TypeOK
  <2> QED BY <1>1, <1>2, <1>4, <2>1 DEF OwnerKnows
<1> QED BY <1>3, <1>5, <1>6, <1>7

(* Committing the announced image: no other file is at the announced       *)
(* revision, so giving that revision its content contradicts none.         *)
LEMMA CommitKeeps ==
  ASSUME Structure, Lineage, NEW p \in Procs, pc[p] \in {"prepared", "announced"},
         CommitImage(at[p]),
         UNCHANGED <<main, auditFile, auditJid, gate, head, outcome, snap, recorded, lock, at>>,
         pc' = [pc EXCEPT ![p] = "committed"] \/ pc' = [pc EXCEPT ![p] = "reconciled"]
  PROVE  Lineage'
<1> USE ConstantsAssumption DEF Structure, Lineage
<1>1. lock = p /\ at[p] \in Paths /\ auditFile = "published" /\ head \in Revs
  BY SMTT(30), SMTT(45) DEF LockDiscipline, PlacesExist, Owning, Audited, Labels, TypeOK, AuditExists
<1>2. /\ tx \in File /\ tx.rev = head /\ tx.jid = auditJid
      /\ hist[head] = None /\ snap[head] = Snapshot(tx.content)
  BY <1>1 DEF TransactionExists, OwnerKnows, TypeOK
<1>3. tx.content \in Content
  BY <1>2 DEF File
<1>4. /\ hist' = [hist EXCEPT ![head] = tx.content] /\ hist \in [Revs -> Content \cup {None}]
      /\ central' = [central EXCEPT ![at[p]] = tx]
  BY <1>2 DEF CommitImage, TypeOK
<1>5. ASSUME NEW d \in File, Known(d)
      PROVE  IF auditFile = "published" /\ d.jid = auditJid
               THEN d.rev \in 0..head /\ hist'[d.rev] = d.content ELSE Pristine(d)
  <2>1. d.content \in Content
    BY DEF File
  <2> QED BY <1>1, <1>2, <1>4, <1>5, <2>1, SMTT(30), SMTT(45) DEF Known, Recorded, Revs
<1>6. FilesKnown'
  <2> SUFFICES ASSUME NEW f \in Paths
               PROVE  /\ IsFile(central'[f]) => Known(central[f])'
                      /\ main'[f] # None => Known(main[f])'
    BY DEF FilesKnown, IsFile
  <2>1. main[f] # None => Known(main[f])'
    <3> SUFFICES ASSUME main[f] # None PROVE Known(main[f])'
      OBVIOUS
    <3>1. main[f] \in File /\ Known(main[f])
      BY DEF TypeOK, FilesKnown
    <3> QED BY <1>5, <3>1 DEF Known, Recorded, Pristine
  <2>2. CASE f = at[p]
    <3>1. central'[f] = tx
      BY <1>1, <1>4, <2>2 DEF TypeOK
    <3>2. head \in 0..head /\ hist'[head] = tx.content
      BY <1>1, <1>4, SMTT(30), SMTT(45) DEF Revs
    <3>3. Known(central[f])'
      BY <1>1, <1>2, <3>1, <3>2 DEF Known, Recorded
    <3> QED BY <2>1, <3>3
  <2>3. CASE f # at[p]
    <3> SUFFICES ASSUME IsFile(central[f]) PROVE Known(central[f])'
      BY <1>4, <2>1, <2>3 DEF TypeOK
    <3>1. central'[f] = central[f] /\ central[f] \in File /\ Known(central[f])
      BY <1>4, <2>3 DEF TypeOK, FilesKnown, IsFile
    <3> QED BY <1>5, <3>1 DEF Known, Recorded, Pristine
  <2> QED BY <2>2, <2>3
<1>7. HeadKnown'
  BY <1>1, <1>2, <1>3, <1>4, SMTT(30), SMTT(45) DEF HeadKnown, Revs
<1>8. NoHistory' /\ ApprovalKnown'
  BY <1>1 DEF NoHistory, ApprovalKnown
<1>9. OwnerKnows'
  <2>1. pc'[p] \in {"committed", "reconciled"} /\ central'[at[p]] = tx
    BY <1>1, <1>4 DEF TypeOK
  <2> QED BY <1>1, <1>2, <2>1 DEF OwnerKnows
<1> QED BY <1>6, <1>7, <1>8, <1>9

(* A process that ends, whether or not it was the owner. *)
LEMMA ExitKeeps ==
  ASSUME Structure, OwnerKnows, NEW p \in Procs, Exit(p),
         UNCHANGED <<auditJid, head, outcome, snap, hist>>,
         lock # p => gate' = gate,
         \A f \in Paths : IsFile(central[f]) => central'[f] = central[f]
  PROVE  OwnerKnows'
<1>1. CASE lock = p
  BY <1>1 DEF Exit, OwnerKnows
<1>2. CASE lock # p
  <2>1. /\ UNCHANGED <<lock, tx, gate>>
        /\ \A q \in Procs \ {p} : pc'[q] = pc[q] /\ at'[q] = at[q]
    BY <1>2 DEF Exit, Goto, Structure, TypeOK
  <2> QED BY <1>2, <2>1, OwnerFrame
<1> QED BY <1>1, <1>2

(* What the owner knows of the audit. *)
LEMMA OwnerAudit ==
  ASSUME Structure, NEW p \in Procs, pc[p] \in Owning, pc[p] # "validating"
  PROVE  /\ lock = p /\ lock # None /\ at[p] \in Paths
         /\ IsFile(central[at[p]]) /\ central[at[p]] \in File
         /\ pc[p] \in Audited => auditFile = "published"
         /\ pc[p] \in {"init", "staged"} => auditFile # "published"
<1>1. /\ lock = p /\ lock # None /\ at[p] \in Paths
      /\ IsFile(central[at[p]]) /\ central[at[p]] \in File
  BY OwnerHas
<1> QED BY <1>1 DEF Structure, AuditExists

(* A step of the owner that leaves contents and audit as they are. *)
LEMMA OwnerReads ==
  ASSUME Structure, Lineage, NEW p \in Procs, pc[p] \notin {"down", "admitted"}, OwnerKnows',
         UNCHANGED <<central, auditFile, auditJid, head, hist, outcome, snap, recorded>>,
         \/ main' = main
         \/ pc[p] # "validating" /\ main' = [main EXCEPT ![at[p]] = central[at[p]]]
  PROVE  Lineage'
<1>1. pc[p] \in Owning
  BY DEF Structure, TypeOK, Owning
<1>2. at[p] \in Paths /\ (pc[p] # "validating" => IsFile(central[at[p]]))
  BY <1>1, OwnerHas
<1>3. FilesKnown'
  BY <1>2, SameFiles DEF Structure, TypeOK, Lineage
<1> QED BY <1>3, AuditFrame DEF Lineage

(* A process ends and leaves contents and audit as they are. *)
LEMMA ExitReads ==
  ASSUME Structure, Lineage, NEW p \in Procs, Exit(p),
         UNCHANGED <<central, auditFile, auditJid, head, hist, outcome, snap, recorded>>,
         lock # p => gate' = gate,
         \/ main' = main
         \/ pc[p] \notin {"down", "validating"} /\ main' = [main EXCEPT ![at[p]] = central[at[p]]]
  PROVE  Lineage'
<1>1. \A f \in Paths : central'[f] = central[f]
  OBVIOUS
<1>2. OwnerKnows'
  BY <1>1, ExitKeeps DEF Lineage
<1>3. FilesKnown'
  <2>1. CASE main' = main
    BY <2>1, FilesFrame DEF Lineage
  <2>2. CASE pc[p] \notin {"down", "validating"} /\ main' = [main EXCEPT ![at[p]] = central[at[p]]]
    BY <2>2, SameFiles DEF Structure, PlacesExist, TypeOK, Lineage
  <2> QED BY <2>1, <2>2
<1> QED BY <1>2, <1>3, AuditFrame DEF Lineage

(* Admission creates a pristine file or only reads. *)
LEMMA StartKeepsLineage ==
  ASSUME Structure, Lineage, NEW p \in Procs, Start(p)
  PROVE  Lineage'
<1> USE DEF central_vars, audit_vars, hist_vars
<1>1. ASSUME NEW f \in Paths, StartFresh(p, f) PROVE Lineage'
  <2>1. /\ lock # p
        /\ UNCHANGED <<auditFile, auditJid, head, hist, outcome, snap, recorded>>
        /\ UNCHANGED <<lock, tx, gate>>
        /\ \A q \in Procs \ {p} : pc'[q] = pc[q] /\ at'[q] = at[q]
        /\ \A g \in Paths : IsFile(central[g]) => central'[g] = central[g]
    BY <1>1 DEF Structure, Lineage, Goto, StartFresh, LockDiscipline, Owning, Labels, TypeOK, IsFile
  <2>2. FilesKnown'
    BY <1>1 DEF Structure, Lineage, Goto, StartFresh, FilesKnown, Known, Pristine, Fresh, TypeOK, IsFile
  <2>3. OwnerKnows'
    BY <2>1, OwnerFrame DEF Structure, Lineage
  <2> QED BY <2>1, <2>2, <2>3, AuditFrame DEF Structure, Lineage
<1>2. ASSUME NEW f \in Paths, StartCold(p, f) PROVE Lineage'
  <2>1. /\ lock # p /\ main' = main
        /\ UNCHANGED <<central, auditFile, auditJid, head, hist, outcome, snap, recorded>>
        /\ UNCHANGED <<lock, tx, gate>>
        /\ \A q \in Procs \ {p} : pc'[q] = pc[q] /\ at'[q] = at[q]
    BY <1>2 DEF Structure, Lineage, Goto, StartCold, LockDiscipline, Owning, Labels, TypeOK
  <2>2. FilesKnown'
    BY <2>1, SameFiles DEF Structure, Lineage, Goto, TypeOK
  <2>3. OwnerKnows'
    BY <2>1, OwnerFrame DEF Structure, Lineage
  <2> QED BY <2>1, <2>2, <2>3, AuditFrame DEF Structure, Lineage
<1>3. ASSUME NEW f \in Paths, StartHot(p, f) PROVE Lineage'
  <2>1. /\ lock # p /\ main' = main
        /\ UNCHANGED <<central, auditFile, auditJid, head, hist, outcome, snap, recorded>>
        /\ UNCHANGED <<lock, tx, gate>>
        /\ \A q \in Procs \ {p} : pc'[q] = pc[q] /\ at'[q] = at[q]
    BY <1>3 DEF Structure, Lineage, Goto, StartHot, LockDiscipline, Owning, Labels, TypeOK
  <2>2. FilesKnown'
    BY <2>1, SameFiles DEF Structure, Lineage, Goto, TypeOK
  <2>3. OwnerKnows'
    BY <2>1, OwnerFrame DEF Structure, Lineage
  <2> QED BY <2>1, <2>2, <2>3, AuditFrame DEF Structure, Lineage
<1>4. ASSUME NEW f \in Paths, StartTool(p, f) PROVE Lineage'
  <2>1. /\ lock # p /\ main' = main
        /\ UNCHANGED <<central, auditFile, auditJid, head, hist, outcome, snap, recorded>>
        /\ UNCHANGED <<lock, tx, gate>>
        /\ \A q \in Procs \ {p} : pc'[q] = pc[q] /\ at'[q] = at[q]
    BY <1>4 DEF Structure, Lineage, Goto, StartTool, LockDiscipline, Owning, Labels, TypeOK
  <2>2. FilesKnown'
    BY <2>1, SameFiles DEF Structure, Lineage, Goto, TypeOK
  <2>3. OwnerKnows'
    BY <2>1, OwnerFrame DEF Structure, Lineage
  <2> QED BY <2>1, <2>2, <2>3, AuditFrame DEF Structure, Lineage
<1> QED BY <1>1, <1>2, <1>3, <1>4 DEF Start

(* Protected startup behind the lock. *)
LEMMA OpenKeepsLineage ==
  ASSUME Structure, Lineage, NEW p \in Procs, Open(p)
  PROVE  Lineage'
<1> USE DEF central_vars, audit_vars, hist_vars
<1>1. CASE AcquireLock(p)
  <2>1. p # None /\ at[p] \in Paths
        /\ UNCHANGED <<central, main, auditFile, auditJid, head, hist, outcome, snap, recorded>>
    BY <1>1, ConstantsAssumption DEF Structure, AcquireLock, PlacesExist
  <2>2. FilesKnown'
    BY <2>1, SameFiles DEF Structure, Lineage, Goto, TypeOK
  <2>3. OwnerKnows'
    BY <1>1, <2>1 DEF Structure, Lineage, Goto, AcquireLock, OwnerKnows, TypeOK
  <2> QED BY <2>1, <2>2, <2>3, AuditFrame DEF Structure, Lineage
<1>2. CASE VerifyCopy(p)
  <2>1. lock = p
    BY <1>2 DEF VerifyCopy, Structure, LockDiscipline, Owning, Labels
  <2>2. OwnerKnows'
    BY <1>2, <2>1 DEF VerifyCopy, Goto, Structure, TypeOK, Lineage, OwnerKnows
  <2> QED BY <1>2, <2>2, OwnerReads DEF VerifyCopy
<1>3. CASE ResumeRecovery(p)
  <2>1. lock = p
    BY <1>3 DEF ResumeRecovery, Structure, LockDiscipline, Owning, Labels
  <2>2. OwnerKnows'
    BY <1>3, <2>1 DEF ResumeRecovery, Goto, Structure, TypeOK, Lineage, OwnerKnows
  <2> QED BY <1>3, <2>2, OwnerReads DEF ResumeRecovery
<1>4. CASE Replay(p)
  <2>1. lock = p
    BY <1>4 DEF Replay, Structure, LockDiscipline, Owning, Labels
  <2>2. OwnerKnows'
    BY <1>4, <2>1 DEF Replay, Standalone, Goto, Structure, TypeOK, Lineage, OwnerKnows
  <2> QED BY <1>4, <2>2, OwnerReads DEF Replay, Standalone
<1>5. CASE Probe(p)
  <2>1. lock = p
    BY <1>5 DEF Probe, Structure, LockDiscipline, Owning, Labels
  <2>2. OwnerKnows'
    BY <1>5, <2>1 DEF Probe, Goto, Structure, TypeOK, Lineage, OwnerKnows
  <2> QED BY <1>5, <2>2, OwnerReads DEF Probe
<1>6. CASE OpenForRecovery(p)
  <2>1. lock = p
    BY <1>6 DEF OpenForRecovery, Structure, LockDiscipline, Owning, Labels
  <2>2. OwnerKnows'
    BY <1>6, <2>1 DEF OpenForRecovery, Goto, Structure, TypeOK, Lineage, OwnerKnows
  <2> QED BY <1>6, <2>2, OwnerReads DEF OpenForRecovery
<1>7. CASE OpenWithLock(p)
  <2>1. lock = p
    BY <1>7 DEF OpenWithLock, Structure, LockDiscipline, Owning, Labels
  <2>2. OwnerKnows'
    BY <1>7, <2>1 DEF OpenWithLock, Preflight, LineageMatches, Goto, Structure, TypeOK, Lineage, OwnerKnows
  <2> QED BY <1>7, <2>2, OwnerReads DEF OpenWithLock, Preflight, LineageMatches
<1>8. CASE InitBegin(p)
  <2>1. lock = p
    BY <1>8 DEF InitBegin, Structure, LockDiscipline, Owning, Labels
  <2>2. OwnerKnows'
    BY <1>8, <2>1 DEF InitBegin, Connect, Goto, Structure, TypeOK, Lineage, OwnerKnows
  <2> QED BY <1>8, <2>2, OwnerReads DEF InitBegin, Connect
<1>9. CASE InitStage(p)
  <2>1. /\ lock = p /\ auditFile # "published" /\ auditFile' # "published"
        /\ UNCHANGED <<central, main, auditJid, head, hist, outcome, snap, recorded>>
    <3>1. pc[p] = "init"
      BY <1>9 DEF InitStage
    <3> QED BY <1>9, <3>1, OwnerAudit DEF InitStage, Owning, Labels
  <2>2. FilesKnown'
    BY <2>1 DEF Structure, Lineage, Goto, FilesKnown, Known, Pristine, IsFile
  <2>3. HeadKnown' /\ NoHistory' /\ ApprovalKnown'
    BY <2>1 DEF Structure, Lineage, Goto, HeadKnown, NoHistory, ApprovalKnown
  <2>4. OwnerKnows'
    BY <1>9, <2>1 DEF Structure, Lineage, Goto, InitStage, OwnerKnows, TypeOK
  <2> QED BY <2>2, <2>3, <2>4 DEF Structure, Lineage
<1>10. CASE InitPublish(p)
  <2> DEFINE d == central[at[p]]
  <2>1. /\ lock = p /\ auditFile # "published" /\ at[p] \in Paths /\ IsFile(d) /\ d \in File
    <3>1. pc[p] = "staged"
      BY <1>10 DEF InitPublish
    <3> QED BY <3>1, OwnerAudit DEF Owning, Labels
  <2>2. /\ auditFile' = "published" /\ auditJid' = d.jid /\ head' = 0 /\ 0 \in Revs
        /\ UNCHANGED <<central, main, recorded, lock, at>>
        /\ hist' = [hist EXCEPT ![0] = d.content]
        /\ snap' = [snap EXCEPT ![0] = Snapshot(d.content)]
        /\ outcome' = [outcome EXCEPT ![0] = "committed"]
    BY <1>10, Numbers DEF InitPublish, Structure
  <2>3. hist'[0] = d.content /\ snap'[0] = Snapshot(d.content) /\ outcome'[0] = "committed"
    BY <2>2 DEF Structure, Lineage, Goto, TypeOK
  <2>4. d.content = Empty /\ d.content \in Content
    BY <2>1 DEF Structure, Lineage, Goto, FilesKnown, Known, Pristine, File
  <2>5. FilesKnown'
    <3>1. ASSUME NEW x, Known(x) PROVE Known(x)'
      <4>1. Pristine(x)
        BY <2>1, <3>1 DEF Known
      <4>2. 0 \in 0..head'
        BY <2>2, Numbers DEF Structure
      <4> QED BY <2>2, <2>3, <2>4, <4>1, <4>2 DEF Known, Recorded, Pristine
    <3>2. \A f \in Paths : (IsFile(central[f]) => Known(central[f])) /\ (main[f] # None => Known(main[f]))
      BY DEF Lineage, FilesKnown
    <3> QED BY <2>2, <3>1, <3>2 DEF FilesKnown, IsFile
  <2>6. HeadKnown'
    <3>1. \A r \in Revs : r > 0 => hist'[r] = None
      <4>1. \A r \in Revs : hist[r] = None /\ (r > 0 => r # 0)
        BY <2>1, Numbers DEF Structure, Lineage, NoHistory
      <4> QED BY <2>2, <4>1 DEF Structure, TypeOK
    <3>2. hist'[0] # None
      BY <2>3, <2>4, ConstantsAssumption
    <3> QED BY <2>2, <2>3, <3>1, <3>2 DEF HeadKnown
  <2>7. NoHistory' /\ ApprovalKnown'
    BY <2>1, <2>2 DEF Structure, Lineage, Goto, NoHistory, ApprovalKnown
  <2>8. OwnerKnows'
    <3>1. pc'[p] = "baseline"
      BY <1>10 DEF InitPublish, Goto, Structure, TypeOK
    <3> QED BY <2>1, <2>2, <3>1 DEF OwnerKnows
  <2> QED BY <2>5, <2>6, <2>7, <2>8 DEF Structure, Lineage
<1>11. CASE AdoptBegin(p)
  <2>1. lock = p
    BY <1>11 DEF AdoptBegin, Structure, LockDiscipline, Owning, Labels
  <2>2. OwnerKnows'
    BY <1>11, <2>1 DEF AdoptBegin, Connect, Goto, Structure, TypeOK, Lineage, OwnerKnows
  <2> QED BY <1>11, <2>2, OwnerReads DEF AdoptBegin, Connect
<1>12. CASE Adopt(p)
  <2> DEFINE d == central[at[p]]
  <2>1. /\ lock = p /\ at[p] \in Paths /\ IsFile(d) /\ d \in File /\ auditFile = "published"
    <3>1. pc[p] \in {"baseline", "adopting"}
      BY <1>12 DEF Adopt
    <3> QED BY <3>1, OwnerAudit DEF Owning, Audited, Labels
  <2>2. d.jid = auditJid
    <3>1. CASE pc[p] = "baseline"
      BY <3>1, <2>1, OwnerAudit DEF Lineage, OwnerKnows, Owning, Labels
    <3>2. CASE pc[p] # "baseline"
      BY <1>12, <3>2 DEF Adopt, Preflight, LineageMatches
    <3> QED BY <3>1, <3>2
  <2>3. /\ central' = [central EXCEPT ![at[p]] = Adopted(d)]
        /\ UNCHANGED <<main, auditFile, auditJid, head, hist, outcome, snap, recorded>>
    BY <1>12 DEF Structure, Lineage, Goto, Adopt
  <2>4. /\ Adopted(d).jid = d.jid /\ Adopted(d).rev = d.rev /\ Adopted(d).content = d.content
    BY <2>1 DEF Structure, Lineage, Goto, Adopted, File
  <2>5. FilesKnown'
    BY <2>1, <2>2, <2>3, <2>4 DEF Structure, Lineage, Goto, FilesKnown, Known, Recorded, Pristine, IsFile, TypeOK
  <2>6. OwnerKnows'
    BY <1>12, <2>1, <2>2, <2>3, <2>4 DEF Structure, Lineage, Goto, Adopt, OwnerKnows, TypeOK
  <2> QED BY <2>3, <2>5, <2>6, AuditFrame DEF Structure, Lineage
<1>13. CASE AdoptDone(p)
  <2>1. lock = p /\ central[at[p]].jid = auditJid /\ pc'[p] \in {"ready", "opened"}
    <3>1. pc[p] = "adopted" /\ pc'[p] \in {"ready", "opened"}
      BY <1>13 DEF AdoptDone, Goto, Structure, TypeOK
    <3>2. lock = p /\ lock # None
      BY <3>1, OwnerAudit DEF Owning, Labels
    <3> QED BY <3>1, <3>2 DEF Lineage, OwnerKnows
  <2>2. OwnerKnows'
    BY <1>13, <2>1 DEF AdoptDone, OwnerKnows
  <2> QED BY <1>13, <2>2, OwnerReads DEF AdoptDone, Standalone
<1>14. CASE FinishOpen(p)
  <2>1. lock = p
    BY <1>14 DEF FinishOpen, Structure, LockDiscipline, Owning, Labels
  <2>2. OwnerKnows'
    BY <1>14, <2>1 DEF FinishOpen, Goto, Structure, TypeOK, Lineage, OwnerKnows
  <2> QED BY <1>14, <2>2, OwnerReads DEF FinishOpen
<1>15. CASE RecordCrashRecovery(p)
  <2>1. lock = p
    BY <1>15 DEF RecordCrashRecovery, Structure, LockDiscipline, Owning, Labels
  <2>2. OwnerKnows'
    BY <1>15, <2>1 DEF RecordCrashRecovery, Goto, Structure, TypeOK, Lineage, OwnerKnows
  <2> QED BY <1>15, <2>2, OwnerReads DEF RecordCrashRecovery
<1>16. CASE CompleteRecovery(p)
  <2>1. lock = p
    BY <1>16 DEF CompleteRecovery, Structure, LockDiscipline, Owning, Labels
  <2>2. OwnerKnows'
    BY <1>16, <2>1 DEF CompleteRecovery, Goto, Structure, TypeOK, Lineage, OwnerKnows
  <2> QED BY <1>16, <2>2, OwnerReads DEF CompleteRecovery
<1> QED BY <1>1, <1>2, <1>3, <1>4, <1>5, <1>6, <1>7, <1>8, <1>9, <1>10, <1>11, <1>12, <1>13, <1>14, <1>15, <1>16 DEF Open

-----------------------------------------------------------------------------
(* The service, recovery and failures *)

(* Service transactions. *)
LEMMA ServeKeepsLineage ==
  ASSUME Structure, Lineage, NEW p \in Procs, Serve(p)
  PROVE  Lineage'
<1> USE DEF central_vars, audit_vars, hist_vars
<1>1. CASE BeginRead(p)
  <2>1. lock = p
    BY <1>1 DEF BeginRead, Structure, LockDiscipline, Owning, Labels
  <2>2. OwnerKnows'
    BY <1>1, <2>1 DEF BeginRead, EnsureOpen, Resolved, Goto, Structure, TypeOK, Lineage, OwnerKnows
  <2> QED BY <1>1, <2>2, OwnerReads DEF BeginRead, EnsureOpen, Resolved
<1>2. CASE EndRead(p)
  <2>1. lock = p
    BY <1>2 DEF EndRead, Structure, LockDiscipline, Owning, Labels
  <2>2. OwnerKnows'
    BY <1>2, <2>1 DEF EndRead, Goto, Structure, TypeOK, Lineage, OwnerKnows
  <2> QED BY <1>2, <2>2, OwnerReads DEF EndRead
<1>3. CASE BeginTransaction(p)
  <2>1. lock = p /\ lock # None /\ at[p] \in Paths /\ central[at[p]] \in File
    <3>1. pc[p] \in Owning /\ pc[p] # "validating"
      BY <1>3 DEF BeginTransaction, Owning, Labels
    <3> QED BY <3>1, OwnerHas
  <2>2. tx'.jid = central[at[p]].jid
    <3>1. PICK kind \in UsedKinds, x \in Creds : tx' = Operated(central[at[p]], kind, x)
      BY <1>3 DEF BeginTransaction
    <3> QED BY <2>1, <3>1 DEF Operated, File
  <2>3. OwnerKnows'
    BY <1>3, <2>1, <2>2 DEF BeginTransaction, EnsureOpen, Resolved, Goto, Structure, TypeOK, Lineage, OwnerKnows
  <2> QED BY <1>3, <2>3, OwnerReads DEF BeginTransaction, Connect
<1>4. CASE Prepare(p)
  <2> DEFINE d == [tx EXCEPT !.rev = head + 1]
  <2>1. /\ lock = p /\ auditFile = "published" /\ head < MaxRev /\ tx \in File
    <3>1. pc[p] = "operated"
      BY <1>4 DEF Prepare
    <3>2. lock = p /\ lock # None /\ auditFile = "published"
      BY <3>1, OwnerAudit DEF Owning, Audited, Labels
    <3> QED BY <3>1, <3>2 DEF Structure, TransactionExists
  <2>2. tx.jid = auditJid /\ central[at[p]].jid = auditJid
    BY <1>4, <2>1, ConstantsAssumption DEF Lineage, Prepare, OwnerKnows
  <2>3. head + 1 \in Revs
    BY <2>1, ConstantsAssumption, SMTT(30), SMTT(45) DEF Structure, TypeOK, Revs
  <2>4. d \in File /\ d.jid = auditJid
    BY <2>1, <2>2, <2>3 DEF Structure, Lineage, Goto, File
  <2> HIDE DEF d
  <2>5. Announce(d) /\ UNCHANGED <<central, main, auditFile, auditJid, hist, recorded, lock, at>>
        /\ pc' = [pc EXCEPT ![p] = "prepared"]
    BY <1>4 DEF Structure, Lineage, Goto, Prepare, d
  <2> QED BY <2>1, <2>2, <2>4, <2>5, AnnounceKeeps DEF Structure, Lineage
<1>5. CASE CommitTransaction(p)
  <2>1. /\ pc[p] \in {"prepared", "announced"} /\ CommitImage(at[p])
        /\ UNCHANGED <<main, auditFile, auditJid, gate, head, outcome, snap, recorded, lock, at>>
        /\ pc' = [pc EXCEPT ![p] = "committed"]
    BY <1>5 DEF Structure, Lineage, Goto, CommitTransaction
  <2> QED BY <2>1, CommitKeeps DEF Structure, Lineage
<1>6. CASE Committed(p)
  <2> DEFINE d == central[at[p]]
  <2>1. /\ lock = p /\ at[p] \in Paths /\ IsFile(d) /\ d \in File /\ auditFile = "published"
        /\ d.rev = head
    <3>1. pc[p] = "committed"
      BY <1>6 DEF Committed
    <3>2. lock = p /\ lock # None /\ at[p] \in Paths /\ IsFile(d) /\ d \in File /\ auditFile = "published"
      BY <3>1, OwnerAudit DEF Owning, Audited, Labels
    <3> QED BY <3>1, <3>2 DEF Structure, TransactionExists
  <2>2. d.jid = auditJid
    BY <1>6, <2>1, ConstantsAssumption DEF Lineage, Committed, OwnerKnows
  <2>3. hist[head] # None
    <3>1. hist[head] = d.content /\ d.content \in Content
      BY <2>1, <2>2 DEF Structure, Lineage, Goto, FilesKnown, Known, Recorded, File
    <3> QED BY <3>1, ConstantsAssumption
  <2>4. /\ UNCHANGED <<central, auditFile, auditJid, head, hist, recorded>>
        /\ Disconnect(at[p])
        /\ outcome' = [outcome EXCEPT ![head] = "committed"] /\ snap' = ReleaseSuperseded(head)
    BY <1>6, <2>1 DEF Structure, Lineage, Goto, Committed
  <2>5. main' = main \/ main' = [main EXCEPT ![at[p]] = central[at[p]]]
    BY <2>4 DEF Structure, Lineage, Goto, Disconnect, Standalone
  <2>6. FilesKnown'
    BY <2>1, <2>4, <2>5, SameFiles DEF Structure, Lineage, Goto, TypeOK
  <2>7. snap'[head] = snap[head] /\ head \in Revs
    BY <2>4, SMTT(30), SMTT(45) DEF Structure, Lineage, Goto, ReleaseSuperseded, TypeOK, Revs
  <2>8. HeadKnown' /\ NoHistory' /\ ApprovalKnown'
    BY <2>1, <2>3, <2>4, <2>7 DEF Structure, Lineage, Goto, HeadKnown, NoHistory, ApprovalKnown
  <2>9. OwnerKnows'
    BY <1>6, <2>1, <2>2 DEF Structure, Lineage, Goto, Committed, OwnerKnows, TypeOK
  <2> QED BY <2>6, <2>8, <2>9 DEF Structure, Lineage
<1>7. CASE TransactionFails(p)
  <2>1. lock = p
    BY <1>7 DEF TransactionFails, Structure, LockDiscipline, Owning, Labels
  <2>2. OwnerKnows'
    BY <1>7, <2>1 DEF TransactionFails, Goto, Structure, TypeOK, Lineage, OwnerKnows
  <2>3. main' = main \/ main' = [main EXCEPT ![at[p]] = central[at[p]]]
    BY <1>7 DEF TransactionFails, Disconnect, Standalone
  <2> QED BY <1>7, <2>2, <2>3, OwnerReads DEF TransactionFails
<1>8. CASE Shutdown(p)
  <2>1. lock = p
    BY <1>8 DEF Shutdown, Structure, LockDiscipline, Owning, Labels
  <2> QED BY <1>8, <2>1, ExitReads DEF Shutdown, Standalone
<1> QED BY <1>1, <1>2, <1>3, <1>4, <1>5, <1>6, <1>7, <1>8 DEF Serve

(* journal-recover. *)
LEMMA RecoverKeepsLineage ==
  ASSUME Structure, Lineage, NEW p \in Procs, Recover(p)
  PROVE  Lineage'
<1> USE DEF central_vars, audit_vars, hist_vars
<1>1. CASE Close(p)
  <2>1. lock = p
    BY <1>1 DEF Close, Structure, LockDiscipline, Owning, Labels
  <2> QED BY <1>1, <2>1, ExitReads DEF Close, Standalone
<1>2. ASSUME NEW dst \in Paths, BackupReserve(p, dst) PROVE Lineage'
  <2>1. /\ lock = p /\ at[p] \in Paths
        /\ UNCHANGED <<auditFile, auditJid, head, hist, outcome, snap, recorded>>
    BY <1>2 DEF Structure, Lineage, Goto, BackupReserve, LockDiscipline, PlacesExist, Owning, Labels, TypeOK
  <2>2. FilesKnown'
    <3>1. \A f \in Paths :
           /\ IsFile(central'[f]) =>
                \E g \in Paths : \/ IsFile(central[g]) /\ central'[f] = central[g]
                                 \/ main[g] # None /\ central'[f] = main[g]
           /\ main'[f] # None =>
                \E g \in Paths : \/ IsFile(central[g]) /\ main'[f] = central[g]
                                 \/ main[g] # None /\ main'[f] = main[g]
      BY <1>2, <2>1 DEF Structure, Lineage, Goto, BackupReserve, PlacesExist, TypeOK, IsFile, Reserving
    <3> QED BY <2>1, <3>1, FilesFrame DEF Structure, Lineage
  <2>3. OwnerKnows'
    BY <1>2, <2>1 DEF Structure, Lineage, Goto, BackupReserve, OwnerKnows, TypeOK
  <2> QED BY <2>1, <2>2, <2>3, AuditFrame DEF Structure, Lineage
<1>3. CASE BackupCopy(p)
  <2>1. /\ lock = p /\ at[p] \in Paths
        /\ UNCHANGED <<auditFile, auditJid, head, hist, outcome, snap, recorded>>
    BY <1>3 DEF Structure, Lineage, Goto, BackupCopy, LockDiscipline, PlacesExist, Owning, Labels, TypeOK
  <2>2. FilesKnown'
    <3>1. \A f \in Paths :
           /\ IsFile(central'[f]) =>
                \E g \in Paths : \/ IsFile(central[g]) /\ central'[f] = central[g]
                                 \/ main[g] # None /\ central'[f] = main[g]
           /\ main'[f] # None =>
                \E g \in Paths : \/ IsFile(central[g]) /\ main'[f] = central[g]
                                 \/ main[g] # None /\ main'[f] = main[g]
      BY <1>3, <2>1 DEF Structure, Lineage, Goto, BackupCopy, PlacesExist, TypeOK, IsFile, Reserving
    <3> QED BY <2>1, <3>1, FilesFrame DEF Structure, Lineage
  <2>3. OwnerKnows'
    BY <1>3, <2>1 DEF Structure, Lineage, Goto, BackupCopy, OwnerKnows, TypeOK
  <2> QED BY <2>1, <2>2, <2>3, AuditFrame DEF Structure, Lineage
<1>4. CASE BackupRecord(p)
  <2>1. lock = p
    BY <1>4 DEF BackupRecord, Structure, LockDiscipline, Owning, Labels
  <2> QED BY <1>4, <2>1, ExitReads DEF BackupRecord, Standalone
<1>5. ASSUME NEW backup \in Paths, NEW dst \in Paths, RestoreBegin(p, backup, dst) PROVE Lineage'
  <2>1. lock = p
    BY <1>5 DEF RestoreBegin, Structure, LockDiscipline, Owning, Labels
  <2>2. OwnerKnows'
    BY <1>5, <2>1 DEF RestoreBegin, Goto, Structure, TypeOK, OwnerKnows
  <2> QED BY <1>5, <2>2, OwnerReads DEF RestoreBegin
<1>6. CASE RestoreReserve(p)
  <2>1. /\ lock = p /\ at[p] \in Paths
        /\ UNCHANGED <<auditFile, auditJid, head, hist, outcome, snap, recorded>>
    BY <1>6 DEF Structure, Lineage, Goto, RestoreReserve, LockDiscipline, PlacesExist, Owning, Labels, TypeOK
  <2>2. FilesKnown'
    <3>1. \A f \in Paths :
           /\ IsFile(central'[f]) =>
                \E g \in Paths : \/ IsFile(central[g]) /\ central'[f] = central[g]
                                 \/ main[g] # None /\ central'[f] = main[g]
           /\ main'[f] # None =>
                \E g \in Paths : \/ IsFile(central[g]) /\ main'[f] = central[g]
                                 \/ main[g] # None /\ main'[f] = main[g]
      BY <1>6, <2>1 DEF Structure, Lineage, Goto, RestoreReserve, PlacesExist, TypeOK, IsFile, Reserving
    <3> QED BY <2>1, <3>1, FilesFrame DEF Structure, Lineage
  <2>3. OwnerKnows'
    BY <1>6, <2>1 DEF Structure, Lineage, Goto, RestoreReserve, OwnerKnows, TypeOK
  <2> QED BY <2>1, <2>2, <2>3, AuditFrame DEF Structure, Lineage
<1>7. CASE RestoreCopy(p)
  <2>1. /\ lock = p /\ at[p] \in Paths
        /\ UNCHANGED <<auditFile, auditJid, head, hist, outcome, snap, recorded>>
    BY <1>7 DEF Structure, Lineage, Goto, RestoreCopy, LockDiscipline, PlacesExist, Owning, Labels, TypeOK
  <2>2. FilesKnown'
    <3>1. \A f \in Paths :
           /\ IsFile(central'[f]) =>
                \E g \in Paths : \/ IsFile(central[g]) /\ central'[f] = central[g]
                                 \/ main[g] # None /\ central'[f] = main[g]
           /\ main'[f] # None =>
                \E g \in Paths : \/ IsFile(central[g]) /\ main'[f] = central[g]
                                 \/ main[g] # None /\ main'[f] = main[g]
      BY <1>7, <2>1 DEF Structure, Lineage, Goto, RestoreCopy, PlacesExist, TypeOK, IsFile, Reserving
    <3> QED BY <2>1, <3>1, FilesFrame DEF Structure, Lineage
  <2>3. OwnerKnows'
    BY <1>7, <2>1 DEF Structure, Lineage, Goto, RestoreCopy, OwnerKnows, TypeOK
  <2> QED BY <2>1, <2>2, <2>3, AuditFrame DEF Structure, Lineage
<1>8. CASE ReconcileBegin(p)
  <2>1. lock = p
    BY <1>8 DEF ReconcileBegin, Structure, LockDiscipline, Owning, Labels
  <2>2. OwnerKnows'
    BY <1>8, <2>1 DEF ReconcileBegin, Goto, Structure, TypeOK, Lineage, OwnerKnows
  <2> QED BY <1>8, <2>2, OwnerReads DEF ReconcileBegin
<1>9. CASE ReconcilePrepare(p)
  <2> DEFINE d == central[at[p]]
             e == [d EXCEPT !.content = RestoreSecurity(d.content)]
             x == ReconciledAnchor(e)
  <2>1. /\ lock = p /\ auditFile = "published" /\ head < MaxRev /\ d \in File /\ d.jid = auditJid
    <3>1. pc[p] = "reconciling" /\ head < MaxRev /\ d.jid = auditJid
      BY <1>9 DEF ReconcilePrepare
    <3> QED BY <3>1, OwnerAudit DEF Owning, Audited, Labels
  <2>2. x \in File
    BY <2>1, ReconciledType DEF Structure, Lineage, Goto, TypeOK, AuditExists
  <2>3. e.jid = d.jid
    BY <2>1 DEF Structure, Lineage, Goto, File
  <2>4. x.jid = auditJid
    BY <2>1, <2>3 DEF Structure, Lineage, Goto, ReconciledAnchor, File
  <2> HIDE DEF x
  <2>5. Announce(x) /\ UNCHANGED <<central, main, auditFile, auditJid, hist, recorded, lock, at>>
        /\ pc' = [pc EXCEPT ![p] = "announced"]
    BY <1>9 DEF Structure, Lineage, Goto, ReconcilePrepare, Connect, x
  <2> QED BY <2>1, <2>2, <2>4, <2>5, AnnounceKeeps DEF Structure, Lineage
<1>10. CASE ReconcileCommit(p)
  <2>1. /\ pc[p] \in {"prepared", "announced"} /\ CommitImage(at[p])
        /\ UNCHANGED <<main, auditFile, auditJid, gate, head, outcome, snap, recorded, lock, at>>
        /\ pc' = [pc EXCEPT ![p] = "reconciled"]
    BY <1>10 DEF Structure, Lineage, Goto, ReconcileCommit
  <2> QED BY <2>1, CommitKeeps DEF Structure, Lineage
<1>11. CASE ReconcileRecord(p)
  <2>1. /\ lock = p /\ at[p] \in Paths /\ main' = main /\ auditFile = "published" /\ head > 0
        /\ UNCHANGED <<central, auditFile, auditJid, head, hist, outcome, snap>>
    <3>1. pc[p] = "reconciled"
      BY <1>11 DEF ReconcileRecord
    <3>2. lock = p /\ lock # None /\ at[p] \in Paths /\ auditFile = "published"
      BY <3>1, OwnerAudit DEF Owning, Audited, Labels
    <3>3. head > 0
      BY <3>1, <3>2 DEF Structure, TransactionExists
    <3> QED BY <1>11, <3>2, <3>3 DEF ReconcileRecord
  <2>2. FilesKnown'
    BY <2>1, SameFiles DEF Structure, Lineage, Goto, TypeOK
  <2>3. HeadKnown' /\ NoHistory'
    BY <2>1 DEF Structure, Lineage, Goto, HeadKnown, NoHistory
  <2>4. ApprovalKnown'
    BY <1>11, <2>1 DEF Structure, Lineage, Goto, ReconcileRecord, ApprovalKnown
  <2>5. OwnerKnows'
    BY <1>11, <2>1 DEF Structure, Lineage, Goto, ReconcileRecord, OwnerKnows, TypeOK
  <2> QED BY <2>2, <2>3, <2>4, <2>5 DEF Structure, Lineage
<1>12. CASE ReconcileFinish(p)
  <2>1. lock = p
    BY <1>12 DEF ReconcileFinish, Structure, LockDiscipline, Owning, Labels
  <2> QED BY <1>12, <2>1, ExitReads DEF ReconcileFinish, Standalone
<1>13. ASSUME NEW approval \in approvals, Reopen(p, approval) PROVE Lineage'
  <2> DEFINE d == central[at[p]]
  <2>1. /\ lock = p /\ at[p] \in Paths /\ IsFile(d) /\ d \in File /\ auditFile = "published"
        /\ d.rev = head /\ recorded = approval /\ approval.rev = head
    <3>1. pc[p] = "ready" /\ d.rev = head /\ recorded = approval /\ approval.rev = head
      BY <1>13 DEF Structure, Lineage, Goto, Reopen
    <3>2. lock = p /\ at[p] \in Paths /\ IsFile(d) /\ auditFile = "published"
      BY <3>1, OwnerAudit DEF Owning, Audited, Labels
    <3>3. d \in File
      BY <3>1, OwnerAudit DEF Owning, Audited, Labels
    <3> QED BY <3>1, <3>2, <3>3
  <2>2. d.rev > 0
    <3>1. recorded # None
      BY <1>13, <2>1, ConstantsAssumption DEF Structure, TypeOK
    <3> QED BY <2>1, <3>1 DEF Lineage, ApprovalKnown
  <2>3. hist[head] # None
    <3>1. Known(d)
      BY <2>1 DEF Structure, Lineage, Goto, FilesKnown
    <3>2. hist[head] = d.content /\ d.content \in Content
      BY <2>1, <2>2, <3>1, SMTT(30), SMTT(45) DEF Structure, Lineage, Goto, Known, Recorded, Pristine, File
    <3> QED BY <3>2, ConstantsAssumption
  <2>4. /\ UNCHANGED <<central, main, auditFile, auditJid, head, hist, recorded>>
        /\ outcome' = [outcome EXCEPT ![head] = "reconciled"] /\ snap' = ReleaseSuperseded(head)
    BY <1>13 DEF Structure, Lineage, Goto, Reopen, Connect
  <2>5. FilesKnown'
    BY <2>1, <2>4, SameFiles DEF Structure, Lineage, Goto, TypeOK
  <2>6. snap'[head] = snap[head] /\ head \in Revs
    BY <2>4, SMTT(30), SMTT(45) DEF Structure, Lineage, Goto, ReleaseSuperseded, TypeOK, Revs
  <2>7. HeadKnown' /\ NoHistory' /\ ApprovalKnown'
    BY <2>1, <2>3, <2>4, <2>6 DEF Structure, Lineage, Goto, HeadKnown, NoHistory, ApprovalKnown
  <2>8. OwnerKnows'
    BY <1>13, <2>1 DEF Structure, Lineage, Goto, Reopen, OwnerKnows, TypeOK
  <2> QED BY <2>5, <2>7, <2>8 DEF Structure, Lineage
<1>14. CASE ReopenDone(p)
  <2>1. lock = p
    BY <1>14 DEF ReopenDone, Structure, LockDiscipline, Owning, Labels
  <2> QED BY <1>14, <2>1, ExitReads DEF ReopenDone, Standalone
<1> QED BY <1>1, <1>2, <1>3, <1>4, <1>5, <1>6, <1>7, <1>8, <1>9, <1>10, <1>11, <1>12, <1>13, <1>14 DEF Recover

(* Refusals, errors and abrupt stops. *)
LEMMA FailureKeepsLineage ==
  ASSUME Structure, Lineage, NEW p \in Procs, Refuse(p) \/ DropDestination(p) \/ Crash(p)
  PROVE  Lineage'
<1> USE DEF central_vars, audit_vars, hist_vars
<1>1. CASE Refuse(p)
  <2>1. \/ main' = main
        \/ pc[p] \notin {"down", "validating"} /\ main' = [main EXCEPT ![at[p]] = central[at[p]]]
    BY <1>1 DEF Refuse, Connected, Standalone
  <2> QED BY <1>1, <2>1, ExitReads DEF Refuse
<1>2. CASE DropDestination(p)
  <2>1. /\ aux[p] \in Paths /\ central[aux[p]] = Torn /\ Exit(p) /\ main' = main
        /\ central' = [central EXCEPT ![aux[p]] = None]
        /\ UNCHANGED <<auditFile, auditJid, gate, head, hist, outcome, snap, recorded>>
    <3>1. pc[p] \in Reserving
      BY <1>2 DEF DropDestination
    <3>2. lock = p /\ lock # None
      BY <3>1, OwnerHas DEF Reserving, Owning, Labels
    <3> QED BY <1>2, <3>1, <3>2 DEF DropDestination, Structure, DestinationExists
  <2>2. \A f \in Paths : /\ IsFile(central'[f]) => central'[f] = central[f]
                         /\ IsFile(central[f]) => central'[f] = central[f]
    BY <2>1 DEF Structure, Lineage, Goto, IsFile, TypeOK
  <2>3. FilesKnown'
    <3>1. \A f \in Paths : IsFile(central'[f]) => IsFile(central[f])
      BY <2>1 DEF Structure, Lineage, Goto, IsFile, TypeOK
    <3> QED BY <2>1, <2>2, <3>1, FilesFrame DEF Structure, Lineage
  <2>4. OwnerKnows'
    BY <2>1, <2>2, ExitKeeps DEF Structure, Lineage
  <2> QED BY <2>1, <2>3, <2>4, AuditFrame DEF Structure, Lineage
<1>3. CASE Crash(p)
  BY <1>3, ExitReads DEF Crash
<1> QED BY <1>1, <1>2, <1>3

(* The loss of a WAL goes back to an earlier known content. *)
LEMMA LoseWalKeepsLineage ==
  ASSUME Structure, Lineage, NEW f \in Paths, LoseWal(f)
  PROVE  Lineage'
<1> USE ConstantsAssumption DEF Structure, Lineage, audit_vars, proc_vars, hist_vars
<1>1. /\ central' = [central EXCEPT ![f] = main[f]] /\ main[f] # None
      /\ lock # None => at[lock] # f
      /\ UNCHANGED <<main, auditFile, auditJid, gate, head, hist, outcome, snap, recorded,
                     lock, pc, at, tx>>
  BY DEF LoseWal, FilesExist
<1>2. FilesKnown'
  BY <1>1, FilesFrame DEF TypeOK
<1>3. OwnerKnows'
  <2>1. lock # None => lock \in Procs /\ at[lock] \in Paths
    BY DEF TypeOK, LockDiscipline, PlacesExist, Owning
  <2>2. lock # None => central'[at[lock]] = central[at[lock]]
    BY <1>1, <2>1 DEF TypeOK
  <2> QED BY <1>1, <2>2 DEF OwnerKnows
<1> QED BY <1>1, <1>2, <1>3, AuditFrame

(* Whatever the instance, Lineage holds in every reachable state. *)
THEOREM LineageInvariant == Spec => []Lineage
<1>1. Init => Lineage
  BY ConstantsAssumption, SMTT(30), SMTT(45) DEF Init, Lineage, FilesKnown, HeadKnown, NoHistory, OwnerKnows, ApprovalKnown, IsFile
<1>2. Structure /\ Lineage /\ [Next]_vars => Lineage'
  <2> SUFFICES ASSUME Structure, Lineage, [Next]_vars PROVE Lineage'
    OBVIOUS
  <2>1. ASSUME NEW p \in Procs, Start(p) \/ Open(p) \/ Serve(p) \/ Recover(p)
                                   \/ Refuse(p) \/ DropDestination(p) \/ Crash(p)
        PROVE  Lineage'
    BY <2>1, StartKeepsLineage, OpenKeepsLineage, ServeKeepsLineage, RecoverKeepsLineage,
       FailureKeepsLineage
  <2>2. ASSUME NEW f \in Paths, LoseWal(f) PROVE Lineage'
    BY <2>2, LoseWalKeepsLineage
  <2>3. CASE UNCHANGED vars
    BY <2>3 DEF vars, central_vars, audit_vars, proc_vars, hist_vars, Lineage, FilesKnown, Known,
                Recorded, Pristine, HeadKnown, NoHistory, OwnerKnows, ApprovalKnown, IsFile
  <2> QED BY <2>1, <2>2, <2>3 DEF Next
<1> QED BY <1>1, <1>2, StructureInvariant, PTL DEF Spec

(* No file of the journal is ever at a revision that the audit has not     *)
(* announced (prepare before transaction.commit).                          *)
THEOREM AuditIsWrittenAhead == Spec => []WriteAhead
<1>1. Structure /\ Lineage => WriteAhead
  <2> SUFFICES ASSUME Structure, Lineage, auditFile = "published", NEW f \in Paths,
                      NEW d \in {central[f], main[f]}, IsFile(d), d.jid = auditJid
               PROVE  d.rev <= head
    BY DEF WriteAhead
  <2>1. Known(d)
    BY DEF Lineage, FilesKnown, IsFile
  <2>2. d.rev \in 0..head
    BY <2>1 DEF Known, Recorded
  <2>3. head \in Nat
    BY ConstantsAssumption, SMTT(30), SMTT(45) DEF Structure, TypeOK, Revs
  <2> QED BY <2>2, <2>3, SMTT(30), SMTT(45)
<1> QED BY <1>1, StructureInvariant, LineageInvariant, PTL

(* Two files of one journal at the same revision hold the same content,    *)
(* through any sequence of backups, restores, crashes and reconciliations. *)
THEOREM RevisionsNeverFork == Spec => []NoFork
<1>1. Lineage => NoFork
  BY DEF Lineage, FilesKnown, Known, Recorded, Pristine, NoFork
<1> QED BY <1>1, LineageInvariant, PTL

(* The journal has one history, announced in the audit before any file     *)
(* holds it.                                                               *)
THEOREM HistoryIsOne == Spec => []OneHistory
<1>1. WriteAhead /\ NoFork => OneHistory
  BY DEF OneHistory
<1> QED BY <1>1, AuditIsWrittenAhead, RevisionsNeverFork, PTL

(* What ensure_open admits is the audited journal, although it compares    *)
(* revisions only.                                                         *)
THEOREM AdmittedIsAudited == Spec => []ServedIsAudited
<1>1. Structure /\ Lineage => ServedIsAudited
  <2> SUFFICES ASSUME Structure, Lineage, NEW p \in Procs, Serving(p)
               PROVE  LET d == central[at[p]] IN
                      /\ gate = "open"
                      /\ outcome[head] \in {"committed", "reconciled"}
                      /\ d.jid = auditJid
                      /\ d.rev = head
                      /\ Snapshot(d.content) = snap[head]
                      /\ d.content = hist[head]
    BY DEF ServedIsAudited
  <2> DEFINE d == central[at[p]]
  <2>1. /\ lock = p /\ lock # None /\ at[p] \in Paths /\ IsFile(d) /\ d \in File
        /\ auditFile = "published" /\ outcome[head] # "none"
    <3>1. pc[p] \in Owning /\ pc[p] \in Audited /\ pc[p] # "validating"
      BY DEF Serving, Owning, Audited, Labels
    <3> QED BY <3>1, OwnerAudit DEF Structure, AuditExists
  <2>2. gate = "open" /\ outcome[head] # "prepared" /\ d.rev = head /\ d.jid = auditJid
    BY <2>1 DEF Serving, Lineage, OwnerKnows
  <2>3. hist[head] = d.content /\ d.content \in Content
    BY <2>1, <2>2 DEF Lineage, FilesKnown, Known, Recorded, File
  <2>4. snap[head] = Snapshot(hist[head])
    BY <2>1, <2>3, ConstantsAssumption DEF Lineage, HeadKnown
  <2>5. outcome[head] \in {"committed", "reconciled"}
    BY <2>1, <2>2 DEF Structure, TypeOK
  <2> QED BY <2>2, <2>3, <2>4, <2>5
<1> QED BY <1>1, StructureInvariant, LineageInvariant, PTL

-----------------------------------------------------------------------------
(* Ahead is an order on the contents of databases. *)
LEMMA AheadOrder ==
  ASSUME NEW b \in Content, NEW c \in Content, NEW d \in Content
  PROVE  Ahead(c, c) /\ (Ahead(b, c) /\ Ahead(c, d) => Ahead(b, d))
<1>1. b.inbox \in Nat /\ c.inbox \in Nat /\ d.inbox \in Nat
  BY DEF Content
<1> QED BY <1>1, SMTT(30), SMTT(45) DEF Ahead

(* A service transaction takes nothing back, and adds itself to the log. *)
LEMMA OperatedAhead ==
  ASSUME NEW d \in File, NEW kind \in Kinds, NEW x \in Creds, Allowed(d.content, kind, x),
         head + 1 \in Revs
  PROVE  LET c == Operated(d, kind, x).content IN
         /\ c \in Content /\ Ahead(c, d.content)
         /\ c.epoch = d.content.epoch /\ c.log = d.content.log \cup {head + 1}
<1> DEFINE b == d.content
           m == Mutate(b, kind, x)
           c == [m EXCEPT !.log = m.log \cup {head + 1}]
<1>1. b \in Content
  BY DEF File
<1>2. m \in Content
  BY <1>1, MutateContent
<1>3. /\ m.epoch = b.epoch /\ m.log = b.log
      /\ m.inbox = b.inbox \/ m.inbox = b.inbox + 1
      /\ \/ m.creds = b.creds
         \/ kind = "issue" /\ m.creds = [b.creds EXCEPT ![x] = "live"]
         \/ m.creds = [b.creds EXCEPT ![x] = "revoked"]
  BY <1>1 DEF Mutate, Content, Kinds
<1>4. Ahead(m, b)
  BY <1>1, <1>3, SMTT(30), SMTT(45) DEF Ahead, Allowed, Content
<1> HIDE DEF m
<1>5. c \in Content /\ Ahead(c, b) /\ c.epoch = b.epoch /\ c.log = b.log \cup {head + 1}
  BY <1>2, <1>3, <1>4 DEF Content, Ahead
<1>6. Operated(d, kind, x).content = c
  BY DEF Operated, File, m
<1> QED BY <1>5, <1>6

(* Neither does a reconciliation, whatever backup it starts from: it takes *)
(* the identity tables from the audited snapshot of h.                     *)
LEMMA RestoredAhead ==
  ASSUME NEW d \in File, NEW h \in Content, snap[head] = Snapshot(h), head + 1 \in Revs
  PROVE  LET c == ReconciledAnchor([d EXCEPT !.content = RestoreSecurity(d.content)]).content IN
         /\ c \in Content /\ Ahead(c, h) /\ c.grant = h.grant /\ c.epoch = head + 1
<1> DEFINE b == d.content
           m == RestoreSecurity(b)
           e == [d EXCEPT !.content = m]
           c == [m EXCEPT !.epoch = head + 1]
<1>1. b \in Content
  BY DEF File
<1>2. /\ snap[head].creds = h.creds /\ snap[head].grant = h.grant /\ snap[head].inbox = h.inbox
      /\ h.creds \in [Creds -> CredStates] /\ h.inbox \in Nat /\ b.inbox \in Nat
  BY <1>1, SMTT(30), SMTT(45) DEF Snapshot, Content
<1>3. /\ m.creds = [x \in Creds |-> IF h.creds[x] = "none" THEN "none" ELSE "revoked"]
      /\ m.grant = h.grant /\ m.inbox = IF b.inbox < h.inbox THEN h.inbox ELSE b.inbox
  BY <1>1, <1>2 DEF RestoreSecurity, RestoreCredentialHistory, Content
<1>4. m \in Content
  BY <1>1, SnapshotType, RestoreContent
<1>5. c \in Content /\ Ahead(c, h) /\ c.grant = h.grant /\ c.epoch = head + 1
  <2> HIDE DEF m, b
  <2>1. c \in Content /\ c.creds = m.creds /\ c.grant = m.grant /\ c.inbox = m.inbox
        /\ c.epoch = head + 1
    BY <1>4 DEF Content
  <2>2. h.inbox <= m.inbox
    BY <1>2, <1>3, SMTT(30), SMTT(45)
  <2>3. \A x \in Creds : /\ h.creds[x] = "revoked" => m.creds[x] = "revoked"
                        /\ h.creds[x] # "none" => m.creds[x] # "none"
    BY <1>2, <1>3
  <2> HIDE DEF c
  <2> QED BY <1>3, <2>1, <2>2, <2>3 DEF Ahead
<1>6. ReconciledAnchor(e).content = c
  <2>1. e \in File /\ e.content = m
    BY <1>4 DEF File
  <2> HIDE DEF e, m
  <2> QED BY <2>1 DEF ReconciledAnchor, File
<1> HIDE DEF c
<1> QED BY <1>5, <1>6

(* What is ahead of the latest content is the latest itself. *)
LEMMA LatestStep ==
  ASSUME NEW h \in Content, NEW c \in Content, Latest(h), Ahead(c, h),
         h.epoch <= c.epoch \/ head <= c.epoch,
         hist \in [Revs -> Content \cup {None}], head \in Revs
  PROVE  Latest(c)
<1> SUFFICES ASSUME NEW r \in 0..head, hist[r] # None
             PROVE  Ahead(c, hist[r]) /\ (outcome[r] = "reconciled" => r <= c.epoch)
  BY DEF Latest
<1>1. r \in Revs /\ r \in Nat /\ hist[r] \in Content
  BY ConstantsAssumption, SMTT(30), SMTT(45) DEF Revs
<1>2. Ahead(h, hist[r]) /\ (outcome[r] = "reconciled" => r <= h.epoch)
  BY DEF Latest
<1>3. h.epoch \in Nat /\ c.epoch \in Nat
  BY ConstantsAssumption, SMTT(30), SMTT(45) DEF Content, Revs
<1> QED BY <1>1, <1>2, <1>3, AheadOrder, SMTT(30), SMTT(45)

-----------------------------------------------------------------------------
(* The steps at which OwnerKeeps says something of the owner. *)
Keeping == {"operated", "prepared", "announced", "committed", "reconciled", "evidenced"}

(* Ledger speaks of audit and history only. *)
LEMMA LedgerFrame ==
  ASSUME Ledger, UNCHANGED <<auditFile, head, outcome, snap, hist, recorded, confirmed>>
  PROVE  Ledger'
BY DEF Ledger, EventsOrdered, HeadIsLatest, Reconciliations, Reconciliation, Latest, Resolved

(* Steps that touch none of what History speaks of. *)
LEMMA QuietStep ==
  ASSUME Structure, History, NEW p \in Procs,
         UNCHANGED <<auditFile, head, outcome, snap, hist, recorded, confirmed>>,
         UNCHANGED <<recoveries, crashed, marker>>,
         \/ lock' = None
         \/ lock' = p /\ pc'[p] \notin Keeping
         \/ /\ lock # p /\ UNCHANGED <<lock, tx>>
            /\ \A q \in Procs \ {p} : pc'[q] = pc[q] /\ at'[q] = at[q]
  PROVE  History'
<1>1. Ledger'
  BY LedgerFrame DEF History
<1>2. Evidence'
  BY DEF History, Evidence
<1>3. OwnerKeeps'
  <2>1. CASE lock' = None
    BY <2>1 DEF OwnerKeeps
  <2>2. CASE lock' = p /\ pc'[p] \notin Keeping
    BY <2>2 DEF OwnerKeeps, Keeping
  <2>3. CASE /\ lock # p /\ UNCHANGED <<lock, tx>>
             /\ \A q \in Procs \ {p} : pc'[q] = pc[q] /\ at'[q] = at[q]
    <3>1. lock # None => lock \in Procs \ {p}
      BY <2>3 DEF Structure, TypeOK
    <3> QED BY <2>3, <3>1 DEF History, OwnerKeeps, Latest, Reconciliation
  <2> QED BY <2>1, <2>2, <2>3
<1> QED BY <1>1, <1>2, <1>3 DEF History

(* A process ends. *)
LEMMA ExitQuiet ==
  ASSUME Structure, History, NEW p \in Procs, Exit(p),
         UNCHANGED <<auditFile, head, outcome, snap, hist, recorded, confirmed>>,
         UNCHANGED <<recoveries, crashed, marker>>
  PROVE  History'
<1>1. CASE lock = p
  BY <1>1, QuietStep DEF Exit
<1>2. CASE lock # p
  <2>1. UNCHANGED <<lock, tx>> /\ \A q \in Procs \ {p} : pc'[q] = pc[q] /\ at'[q] = at[q]
    BY <1>2 DEF Exit, Goto, Structure, TypeOK
  <2> QED BY <1>2, <2>1, QuietStep
<1> QED BY <1>1, <1>2

(* The owner goes on to a step at which nothing is said of it. *)
LEMMA MoveQuiet ==
  ASSUME Structure, History, NEW p \in Procs, pc[p] \in Owning,
         NEW l \in Labels \ Keeping, Goto(p, l), UNCHANGED lock,
         UNCHANGED <<auditFile, head, outcome, snap, hist, recorded, confirmed>>,
         UNCHANGED <<recoveries, crashed, marker>>
  PROVE  History'
<1>1. lock = p
  BY DEF Structure, LockDiscipline
<1>2. pc'[p] = l
  BY DEF Goto, Structure, TypeOK
<1> QED BY <1>1, <1>2, QuietStep

(* Admission. *)
LEMMA StartKeepsHistory ==
  ASSUME Structure, History, NEW p \in Procs, Start(p)
  PROVE  History'
<1> USE DEF central_vars, audit_vars, hist_vars
<1>1. PICK f \in Paths : StartFresh(p, f) \/ StartCold(p, f) \/ StartHot(p, f) \/ StartTool(p, f)
  BY DEF Start
<1>2. /\ pc[p] = "down" /\ Goto(p, "admitted") /\ at' = [at EXCEPT ![p] = f]
      /\ UNCHANGED <<auditFile, head, outcome, snap, hist, recorded, confirmed>>
      /\ UNCHANGED <<recoveries, crashed, marker, lock, tx>>
  BY <1>1 DEF StartFresh, StartCold, StartHot, StartTool
<1>3. lock # p /\ \A q \in Procs \ {p} : pc'[q] = pc[q] /\ at'[q] = at[q]
  BY <1>2 DEF Structure, LockDiscipline, Owning, Labels, TypeOK, Goto
<1> QED BY <1>2, <1>3, QuietStep

(* Protected startup behind the lock. *)
LEMMA OpenKeepsHistory ==
  ASSUME Structure, Lineage, History, NEW p \in Procs, Open(p)
  PROVE  History'
<1> USE DEF central_vars, audit_vars, hist_vars
<1>1. CASE AcquireLock(p)
  <2>1. lock' = p /\ pc'[p] \notin Keeping
    BY <1>1 DEF AcquireLock, Goto, Structure, TypeOK, Keeping
  <2> QED BY <1>1, <2>1, QuietStep DEF AcquireLock
<1>2. CASE VerifyCopy(p)
  <2> DEFINE f == at[p]
  <2>1. /\ pc[p] = "recover" /\ marker[f] = None /\ recoveries < MaxRecoveries
        /\ recoveries' = recoveries + 1 /\ pc' = [pc EXCEPT ![p] = "replay"]
        /\ marker' = [marker EXCEPT ![f] = Verified(central[f])]
        /\ UNCHANGED <<lock, crashed>>
    BY <1>2 DEF VerifyCopy, Goto
  <2>2. lock = p /\ f \in Paths /\ central[f] \in File
    BY <2>1, OwnerHas DEF Owning, Labels
  <2>3. marker'[f] = [id |-> recoveries + 1, verification |-> central[f]] /\ marker'[f] \in Markers
    BY <2>1, <2>2, ConstantsAssumption, SMTT(30), SMTT(45) DEF Structure, TypeOK, Verified, Markers
  <2>4. OwnerKeeps'
    BY <2>1, <2>2 DEF OwnerKeeps, Structure, TypeOK
  <2>5. ASSUME NEW i \in 1..recoveries'
        PROVE  i \in crashed' \/ \E g \in Paths : marker'[g] # None /\ marker'[g].id = i
    <3>1. CASE i = recoveries + 1
      BY <2>2, <2>3, <3>1, ConstantsAssumption, SMTT(30), SMTT(45)
    <3>2. CASE i # recoveries + 1
      <4>1. i \in 1..recoveries
        BY <2>1, <3>2, ConstantsAssumption, SMTT(30), SMTT(45) DEF Structure, TypeOK
      <4>2. i \in crashed \/ \E g \in Paths : marker[g] # None /\ marker[g].id = i
        BY <4>1 DEF History, Evidence
      <4>3. \A g \in Paths : g # f => marker'[g] = marker[g]
        BY <2>1 DEF Structure, TypeOK
      <4> QED BY <2>1, <4>2, <4>3
    <3> QED BY <3>1, <3>2
  <2>6. Ledger'
    BY <1>2, LedgerFrame DEF VerifyCopy, History
  <2> QED BY <2>4, <2>5, <2>6 DEF History, Evidence
<1>3. CASE ResumeRecovery(p)
  BY <1>3, MoveQuiet DEF ResumeRecovery, Owning, Labels, Keeping
<1>4. CASE Replay(p)
  BY <1>4, MoveQuiet DEF Replay, Owning, Labels, Keeping
<1>5. CASE Probe(p)
  BY <1>5, MoveQuiet DEF Probe, Owning, Labels, Keeping
<1>6. CASE OpenForRecovery(p)
  BY <1>6, MoveQuiet DEF OpenForRecovery, Owning, Labels, Keeping
<1>7. CASE OpenWithLock(p)
  BY <1>7, MoveQuiet DEF OpenWithLock, Owning, Labels, Keeping
<1>8. CASE InitBegin(p)
  BY <1>8, MoveQuiet DEF InitBegin, Owning, Labels, Keeping
<1>9. CASE InitStage(p)
  <2>1. /\ pc[p] = "init" /\ auditFile' = "staging" /\ pc' = [pc EXCEPT ![p] = "staged"]
        /\ UNCHANGED <<head, outcome, snap, hist, recorded, confirmed, lock>>
        /\ UNCHANGED <<recoveries, crashed, marker>>
    BY <1>9 DEF InitStage, Goto
  <2>2. lock = p /\ auditFile # "published"
    BY <2>1, OwnerAudit DEF Owning, Labels
  <2>3. Ledger'
    BY <2>1, <2>2 DEF History, Ledger, EventsOrdered, HeadIsLatest, Reconciliations, Reconciliation,
                      Latest, Resolved
  <2>4. OwnerKeeps'
    BY <2>1, <2>2 DEF OwnerKeeps, Structure, TypeOK
  <2>5. Evidence'
    BY <2>1 DEF History, Evidence
  <2> QED BY <2>3, <2>4, <2>5 DEF History
<1>10. CASE InitPublish(p)
  <2> DEFINE d == central[at[p]]
  <2>1. /\ pc[p] = "staged" /\ auditFile' = "published" /\ head' = 0
        /\ outcome' = [outcome EXCEPT ![0] = "committed"]
        /\ hist' = [hist EXCEPT ![0] = d.content]
        /\ pc' = [pc EXCEPT ![p] = "baseline"]
        /\ UNCHANGED <<recorded, confirmed, lock, recoveries, crashed, marker>>
    BY <1>10 DEF InitPublish, Goto
  <2>2. lock = p /\ auditFile # "published" /\ d \in File
    BY <2>1, OwnerAudit DEF Owning, Labels
  <2>3. /\ hist'[0] = d.content /\ d.content \in Content /\ outcome'[0] = "committed"
        /\ recorded' = None /\ confirmed' = {} /\ 0..head' = {0}
    <3>1. 0 \in Revs /\ 0..0 = {0}
      BY Numbers DEF Structure
    <3>2. hist'[0] = d.content /\ outcome'[0] = "committed"
      BY <2>1, <3>1 DEF Structure, TypeOK
    <3>3. recorded = None /\ confirmed = {}
      BY <2>2 DEF Lineage, NoHistory, History, Ledger, EventsOrdered
    <3> QED BY <2>1, <2>2, <3>1, <3>2, <3>3 DEF File
  <2>4. EventsOrdered'
    BY <2>1, SMTT(30), SMTT(45) DEF EventsOrdered
  <2>5. HeadIsLatest'
    BY <2>1, <2>3, AheadOrder DEF HeadIsLatest, Latest, Resolved
  <2>6. Reconciliations'
    BY <2>3 DEF Reconciliations
  <2>7. OwnerKeeps'
    BY <2>1, <2>2 DEF OwnerKeeps, Structure, TypeOK
  <2>8. Evidence'
    BY <2>1 DEF History, Evidence
  <2> QED BY <2>4, <2>5, <2>6, <2>7, <2>8 DEF History, Ledger
<1>11. CASE AdoptBegin(p)
  BY <1>11, MoveQuiet DEF AdoptBegin, Owning, Labels, Keeping
<1>12. CASE Adopt(p)
  BY <1>12, MoveQuiet DEF Adopt, Owning, Labels, Keeping
<1>13. CASE AdoptDone(p)
  BY <1>13, MoveQuiet DEF AdoptDone, Owning, Labels, Keeping
<1>14. CASE FinishOpen(p)
  BY <1>14, MoveQuiet DEF FinishOpen, Owning, Labels, Keeping
<1>15. CASE RecordCrashRecovery(p)
  <2>1. /\ pc[p] = "opened" /\ crashed' = crashed \cup {marker[at[p]].id}
        /\ pc' = [pc EXCEPT ![p] = "evidenced"] /\ UNCHANGED <<lock, at, marker, recoveries>>
    BY <1>15 DEF RecordCrashRecovery, Goto
  <2>2. lock = p
    BY <2>1, OwnerHas DEF Owning, Labels
  <2>3. OwnerKeeps'
    BY <2>1, <2>2 DEF OwnerKeeps, Structure, TypeOK
  <2>4. Evidence'
    BY <2>1 DEF History, Evidence
  <2>5. Ledger'
    BY <1>15, LedgerFrame DEF RecordCrashRecovery, History
  <2> QED BY <2>3, <2>4, <2>5 DEF History
<1>16. CASE CompleteRecovery(p)
  <2>1. /\ pc[p] = "evidenced" /\ marker' = [marker EXCEPT ![at[p]] = None]
        /\ pc' = [pc EXCEPT ![p] = "up"] /\ UNCHANGED <<lock, at, crashed, recoveries>>
    BY <1>16 DEF CompleteRecovery, Goto
  <2>2. lock = p /\ lock # None
    BY <2>1, OwnerHas DEF Owning, Labels
  <2>3. marker[at[p]].id \in crashed
    BY <2>1, <2>2 DEF History, OwnerKeeps
  <2>4. OwnerKeeps'
    BY <2>1, <2>2 DEF OwnerKeeps, Structure, TypeOK
  <2>5. Evidence'
    <3>1. \A g \in Paths : g # at[p] => marker'[g] = marker[g]
      BY <2>1 DEF Structure, TypeOK
    <3> QED BY <2>1, <2>3, <3>1 DEF History, Evidence
  <2>6. Ledger'
    BY <1>16, LedgerFrame DEF CompleteRecovery, History
  <2> QED BY <2>4, <2>5, <2>6 DEF History
<1> QED BY <1>1, <1>2, <1>3, <1>4, <1>5, <1>6, <1>7, <1>8, <1>9, <1>10, <1>11, <1>12, <1>13, <1>14, <1>15, <1>16 DEF Open

-----------------------------------------------------------------------------
(* Announcing an image that is ahead of every revision. *)
LEMMA AnnounceKeepsLedger ==
  ASSUME Structure, Lineage, History, auditFile = "published", Resolved, head < MaxRev,
         NEW d \in File, Announce(d), Latest(d.content),
         UNCHANGED <<auditFile, hist, recorded, confirmed>>
  PROVE  Ledger' /\ Latest(tx.content)'
<1>1. head \in Nat /\ head + 1 \in Revs /\ head \in Revs /\ head' = head + 1
  BY Numbers DEF Structure, Announce
<1>2. /\ hist[head + 1] = None /\ hist[head] # None
      /\ outcome[head] \in {"committed", "reconciled"}
  <2>1. hist[head + 1] = None /\ hist[head] # None
    BY <1>1, Numbers DEF Structure, Lineage, HeadKnown, Resolved
  <2> QED BY <1>1, <2>1 DEF Structure, TypeOK, AuditExists, Resolved
<1>3. outcome'[head + 1] = "prepared" /\ \A r \in 0..head : outcome'[r] = outcome[r]
  BY <1>1, SMTT(30), SMTT(45) DEF Structure, TypeOK, Announce, Revs
<1>4. EventsOrdered'
  <2>1. \A r \in 0..head : outcome[r] \in {"committed", "reconciled"}
    BY <1>1, <1>2, SMTT(30), SMTT(45) DEF History, Ledger, EventsOrdered
  <2> QED BY <1>1, <1>2, <1>3, <2>1, SMTT(30), SMTT(45) DEF EventsOrdered, Resolved
<1>5. HeadIsLatest'
  BY <1>1, <1>2, <1>3 DEF HeadIsLatest, Resolved
<1>6. Reconciliations'
  <2>1. \A r \in 0..head : Reconciliation(r) => Reconciliation(r)'
    BY <1>1, SMTT(30), SMTT(45) DEF Reconciliation
  <2>2. ASSUME NEW r \in 0..head', outcome'[r] = "reconciled" PROVE Reconciliation(r)'
    BY <1>1, <1>3, <2>1, <2>2, SMTT(30), SMTT(45) DEF History, Ledger, Reconciliations
  <2>3. recorded # None => Reconciliation(recorded.rev) /\ recorded.rev \in 0..head
    BY <1>1, SMTT(30), SMTT(45) DEF History, Ledger, Reconciliations, Reconciliation
  <2> QED BY <2>1, <2>2, <2>3 DEF Reconciliations
<1>7. Latest(tx.content)'
  <2>1. tx' = d
    BY DEF Announce
  <2> QED BY <1>1, <1>2, <1>3, <2>1, SMTT(30), SMTT(45) DEF Latest
<1> QED BY <1>4, <1>5, <1>6, <1>7 DEF Ledger

(* Committing the announced image. *)
LEMMA CommitKeepsLedger ==
  ASSUME Structure, Lineage, History, NEW p \in Procs, pc[p] \in {"prepared", "announced"},
         CommitImage(at[p]), UNCHANGED <<auditFile, head, outcome, snap, recorded, confirmed>>
  PROVE  /\ Ledger' /\ head \in Revs /\ hist[head - 1] # None
         /\ hist'[head] = tx.content /\ tx.content \in Content
         /\ head > 0 /\ hist'[head - 1] = hist[head - 1]
<1>1. lock = p /\ lock # None /\ auditFile = "published"
  BY OwnerAudit DEF Owning, Audited, Labels
<1>2. /\ tx \in File /\ tx.rev = head /\ head > 0 /\ head \in Revs /\ head \in Nat
      /\ tx.content \in Content
  BY <1>1, Numbers DEF Structure, TransactionExists, File
<1>3. outcome[head] = "prepared" /\ hist[head] = None
  BY <1>1 DEF Lineage, OwnerKnows
<1>4. Latest(tx.content)
  BY <1>1 DEF History, OwnerKeeps
<1>5. hist'[head] = tx.content /\ \A r \in Revs \ {head} : hist'[r] = hist[r]
  BY <1>2 DEF CommitImage, Structure, TypeOK
<1>6. head - 1 \in Revs \ {head} /\ \A r \in 0..head : r \in Revs
  BY <1>2, ConstantsAssumption, SMTT(30), SMTT(45) DEF Revs
<1>7. hist[head - 1] # None /\ hist'[head - 1] = hist[head - 1]
  BY <1>1, <1>2, <1>5, <1>6 DEF History, Ledger, EventsOrdered
<1>8. EventsOrdered'
  BY <1>1, <1>2, <1>7 DEF History, Ledger, EventsOrdered, Resolved
<1>9. HeadIsLatest'
  <2>1. ASSUME NEW r \in 0..head, hist'[r] # None
        PROVE  Ahead(tx.content, hist'[r]) /\ (outcome[r] = "reconciled" => r <= tx.content.epoch)
    BY <1>2, <1>3, <1>4, <1>5, <1>6, <2>1, AheadOrder DEF Latest
  <2> QED BY <1>3, <1>5, <2>1 DEF HeadIsLatest, Latest, Resolved
<1>10. Reconciliations'
  <2>1. ASSUME NEW r, Reconciliation(r) PROVE Reconciliation(r)'
    <3>1. r \in 1..head /\ hist[r] # None /\ hist[r - 1] # None
      BY <2>1 DEF Reconciliation
    <3>2. r \in Revs \ {head} /\ r - 1 \in Revs \ {head}
      BY <1>2, <1>3, <3>1, ConstantsAssumption, SMTT(30), SMTT(45) DEF Revs
    <3> QED BY <1>5, <2>1, <3>1, <3>2 DEF Reconciliation
  <2> QED BY <2>1 DEF History, Ledger, Reconciliations
<1> QED BY <1>2, <1>5, <1>7, <1>8, <1>9, <1>10 DEF Ledger

(* Resolving a head that was committed. *)
LEMMA ResolveKeepsLedger ==
  ASSUME Structure, Lineage, History, auditFile = "published", hist[head] # None,
         NEW o \in {"committed", "reconciled"}, outcome' = [outcome EXCEPT ![head] = o],
         o = "reconciled" => Reconciliation(head),
         snap' = ReleaseSuperseded(head), confirmed' \subseteq hist[head].log,
         UNCHANGED <<auditFile, head, hist, recorded>>
  PROVE  Ledger'
<1>1. /\ head \in Nat /\ head \in Revs /\ hist[head] \in Content
      /\ \A r \in 0..head : r \in Revs /\ r \in Nat
  <2>1. head \in Revs
    BY Numbers DEF Structure
  <2> QED BY <2>1, Numbers DEF Structure, TypeOK
<1>2. outcome'[head] = o /\ \A r \in 0..head : r # head => outcome'[r] = outcome[r]
  BY <1>1 DEF Structure, TypeOK
<1>3. \A r \in 0..(head - 1) : snap'[r] = None
  BY <1>1, SMTT(30), SMTT(45) DEF ReleaseSuperseded, Revs
<1>4. EventsOrdered'
  BY <1>1, <1>2, <1>3, SMTT(30), SMTT(45) DEF History, Ledger, EventsOrdered
<1>5. HeadIsLatest'
  <2>1. o = "reconciled" => head <= hist[head].epoch
    BY <1>1, SMTT(30), SMTT(45) DEF Reconciliation
  <2> QED BY <1>1, <1>2, <2>1 DEF History, Ledger, HeadIsLatest, Latest
<1>6. Reconciliations'
  <2>1. \A r : Reconciliation(r)' <=> Reconciliation(r)
    BY DEF Reconciliation
  <2> QED BY <1>1, <1>2, <2>1 DEF History, Ledger, Reconciliations
<1> QED BY <1>4, <1>5, <1>6 DEF Ledger

(* The resolved head holds what the owner's file holds, and that is ahead  *)
(* of all before it.                                                       *)
LEMMA ResolvedHead ==
  ASSUME Structure, Lineage, History, auditFile = "published", Resolved
  PROVE  /\ head \in Revs /\ head \in Nat
         /\ hist[head] # None /\ hist[head] \in Content /\ Latest(hist[head])
         /\ snap[head] = Snapshot(hist[head]) /\ confirmed \subseteq hist[head].log
<1>1. head \in Revs /\ head \in Nat /\ hist[head] # None
  BY ConstantsAssumption, SMTT(30), SMTT(45) DEF Structure, TypeOK, Revs, Lineage, HeadKnown, Resolved
<1> QED BY <1>1 DEF Structure, TypeOK, Lineage, HeadKnown, History, Ledger, HeadIsLatest

(* Service transactions. *)
LEMMA ServeKeepsHistory ==
  ASSUME Structure, Lineage, History, NEW p \in Procs, Serve(p)
  PROVE  History'
<1> USE DEF central_vars, audit_vars, hist_vars
<1>1. CASE BeginRead(p)
  BY <1>1, MoveQuiet DEF BeginRead, Owning, Labels, Keeping
<1>2. CASE EndRead(p)
  BY <1>2, MoveQuiet DEF EndRead, Owning, Labels, Keeping
<1>3. CASE BeginTransaction(p)
  <2> DEFINE d == central[at[p]]
  <2>1. /\ pc[p] = "up" /\ gate = "open" /\ Resolved /\ head = d.rev /\ head < MaxRev
        /\ pc' = [pc EXCEPT ![p] = "operated"] /\ UNCHANGED <<lock, recoveries, crashed, marker>>
        /\ UNCHANGED <<auditFile, head, outcome, snap, hist, recorded, confirmed>>
    BY <1>3 DEF BeginTransaction, EnsureOpen, Goto
  <2>2. lock = p /\ lock # None /\ at[p] \in Paths /\ IsFile(d) /\ d \in File /\ auditFile = "published"
    BY <2>1, OwnerAudit DEF Owning, Audited, Labels
  <2>3. d.jid = auditJid
    BY <2>1, <2>2 DEF Lineage, OwnerKnows
  <2>4. d.content = hist[head]
    BY <2>1, <2>2, <2>3 DEF Lineage, FilesKnown, Known, Recorded
  <2>5. /\ head \in Revs /\ head \in Nat /\ d.content \in Content /\ Latest(d.content)
        /\ confirmed \subseteq d.content.log
    BY <2>1, <2>2, <2>4, ResolvedHead
  <2>6. PICK kind \in UsedKinds, x \in Creds :
          Allowed(d.content, kind, x) /\ tx' = Operated(d, kind, x)
    BY <1>3 DEF BeginTransaction
  <2>7. /\ tx'.content \in Content /\ Ahead(tx'.content, d.content)
        /\ tx'.content.epoch = d.content.epoch /\ tx'.content.log = d.content.log \cup {head + 1}
    <3>1. kind \in Kinds /\ head + 1 \in Revs
      BY <2>1, <2>5, ConstantsAssumption, SMTT(30), SMTT(45) DEF Revs
    <3> QED BY <2>2, <2>6, <3>1, OperatedAhead
  <2>8. d.content.epoch <= tx'.content.epoch
    <3>1. d.content.epoch \in Revs
      BY <2>5 DEF Content
    <3> QED BY <2>7, <3>1, Numbers DEF Structure
  <2>9. Latest(tx'.content)
    BY <2>5, <2>7, <2>8, LatestStep DEF Structure, TypeOK
  <2>10. OwnerKeeps'
    <3>1. Latest(tx.content)'
      BY <2>1, <2>9 DEF Latest
    <3>2. pc'[p] = "operated"
      BY <2>1 DEF Structure, TypeOK
    <3> QED BY <2>1, <2>2, <2>5, <2>7, <3>1, <3>2 DEF OwnerKeeps
  <2>11. Evidence'
    BY <2>1 DEF History, Evidence
  <2> QED BY <2>1, <2>10, <2>11, LedgerFrame DEF History
<1>4. CASE Prepare(p)
  <2> DEFINE d == [tx EXCEPT !.rev = head + 1]
  <2>1. /\ pc[p] = "operated" /\ Resolved /\ Announce(d) /\ pc' = [pc EXCEPT ![p] = "prepared"]
        /\ UNCHANGED <<auditFile, hist, recorded, confirmed, lock, recoveries, crashed, marker>>
    BY <1>4 DEF Prepare, Goto
  <2>2. lock = p /\ lock # None /\ auditFile = "published"
    BY <2>1, OwnerAudit DEF Owning, Audited, Labels
  <2>3. head < MaxRev /\ tx \in File /\ head \in Nat /\ head + 1 \in Revs
    BY <2>1, <2>2, ConstantsAssumption, SMTT(30), SMTT(45) DEF Structure, TransactionExists, TypeOK, Revs
  <2>4. Latest(tx.content) /\ confirmed \cup {head + 1} \subseteq tx.content.log
    BY <2>1, <2>2 DEF History, OwnerKeeps
  <2>5. d \in File /\ d.content = tx.content
    BY <2>3 DEF File
  <2> HIDE DEF d
  <2>6. Ledger' /\ Latest(tx.content)'
    BY <2>1, <2>2, <2>3, <2>4, <2>5, AnnounceKeepsLedger
  <2>7. tx' = d /\ head' = head + 1 /\ pc'[p] = "prepared"
    BY <2>1 DEF Announce, Structure, TypeOK
  <2>8. OwnerKeeps'
    BY <2>1, <2>2, <2>4, <2>5, <2>6, <2>7 DEF OwnerKeeps
  <2>9. Evidence'
    BY <2>1 DEF History, Evidence
  <2> QED BY <2>6, <2>8, <2>9 DEF History
<1>5. CASE CommitTransaction(p)
  <2>1. /\ pc[p] = "prepared" /\ CommitImage(at[p]) /\ pc' = [pc EXCEPT ![p] = "committed"]
        /\ UNCHANGED <<auditFile, head, outcome, snap, recorded, confirmed, lock>>
        /\ UNCHANGED <<recoveries, crashed, marker>>
    BY <1>5 DEF CommitTransaction, Goto
  <2>2. lock = p /\ lock # None
    BY <2>1, OwnerHas DEF Owning, Labels
  <2>3. Ledger' /\ hist'[head] = tx.content
    BY <2>1, CommitKeepsLedger
  <2>4. confirmed \cup {head} \subseteq tx.content.log
    BY <2>1, <2>2 DEF History, OwnerKeeps
  <2>5. OwnerKeeps'
    BY <2>1, <2>2, <2>3, <2>4 DEF OwnerKeeps, Structure, TypeOK
  <2>6. Evidence'
    BY <2>1 DEF History, Evidence
  <2> QED BY <2>3, <2>5, <2>6 DEF History
<1>6. CASE Committed(p)
  <2>1. pc[p] = "committed" /\ pc' = [pc EXCEPT ![p] = "up"]
        /\ UNCHANGED <<auditFile, head, hist, recorded, lock, recoveries, crashed, marker>>
    BY <1>6 DEF Committed, Goto
  <2>2. lock = p /\ lock # None /\ at[p] \in Paths /\ IsFile(central[at[p]])
        /\ central[at[p]] \in File /\ auditFile = "published"
    BY <2>1, OwnerAudit DEF Owning, Audited, Labels
  <2>3. central[at[p]].rev = head /\ central[at[p]].jid = auditJid
    BY <2>1, <2>2 DEF Structure, TransactionExists, Lineage, OwnerKnows
  <2>4. /\ outcome' = [outcome EXCEPT ![head] = "committed"] /\ snap' = ReleaseSuperseded(head)
        /\ confirmed' = confirmed \cup {head}
    BY <1>6, <2>3 DEF Committed
  <2>5. hist[head] # None
    <3>1. hist[head] \in Content
      BY <2>2, <2>3 DEF Lineage, FilesKnown, Known, Recorded, File
    <3> QED BY <3>1, ConstantsAssumption
  <2>6. confirmed \cup {head} \subseteq hist[head].log
    BY <2>1, <2>2 DEF History, OwnerKeeps
  <2>7. Ledger'
    BY <2>1, <2>2, <2>4, <2>5, <2>6, ResolveKeepsLedger
  <2>8. OwnerKeeps'
    BY <2>1, <2>2 DEF OwnerKeeps, Structure, TypeOK
  <2>9. Evidence'
    BY <2>1 DEF History, Evidence
  <2> QED BY <2>7, <2>8, <2>9 DEF History
<1>7. CASE TransactionFails(p)
  BY <1>7, MoveQuiet DEF TransactionFails, Owning, Labels, Keeping
<1>8. CASE Shutdown(p)
  BY <1>8, ExitQuiet DEF Shutdown
<1> QED BY <1>1, <1>2, <1>3, <1>4, <1>5, <1>6, <1>7, <1>8 DEF Serve

(* journal-recover. *)
LEMMA RecoverKeepsHistory ==
  ASSUME Structure, Lineage, History, NEW p \in Procs, Recover(p)
  PROVE  History'
<1> USE DEF central_vars, audit_vars, hist_vars
<1>1. CASE Close(p)
  BY <1>1, ExitQuiet DEF Close
<1>2. ASSUME NEW dst \in Paths, BackupReserve(p, dst) PROVE History'
  BY <1>2, MoveQuiet DEF BackupReserve, Owning, Labels, Keeping
<1>3. CASE BackupCopy(p)
  BY <1>3, MoveQuiet DEF BackupCopy, Owning, Labels, Keeping
<1>4. CASE BackupRecord(p)
  BY <1>4, ExitQuiet DEF BackupRecord
<1>5. ASSUME NEW backup \in Paths, NEW dst \in Paths, RestoreBegin(p, backup, dst) PROVE History'
  BY <1>5, MoveQuiet DEF RestoreBegin, Owning, Labels, Keeping
<1>6. CASE RestoreReserve(p)
  BY <1>6, MoveQuiet DEF RestoreReserve, Owning, Labels, Keeping
<1>7. CASE RestoreCopy(p)
  BY <1>7, MoveQuiet DEF RestoreCopy, Owning, Labels, Keeping
<1>8. CASE ReconcileBegin(p)
  BY <1>8, MoveQuiet DEF ReconcileBegin, Owning, Labels, Keeping
<1>9. CASE ReconcilePrepare(p)
  <2> DEFINE d == central[at[p]]
             x == ReconciledAnchor([d EXCEPT !.content = RestoreSecurity(d.content)])
  <2>1. /\ pc[p] = "reconciling" /\ Resolved /\ head < MaxRev /\ Announce(x)
        /\ pc' = [pc EXCEPT ![p] = "announced"]
        /\ UNCHANGED <<auditFile, hist, recorded, confirmed, lock, recoveries, crashed, marker>>
    BY <1>9 DEF ReconcilePrepare, Goto
  <2>2. lock = p /\ lock # None /\ d \in File /\ auditFile = "published"
    BY <2>1, OwnerAudit DEF Owning, Audited, Labels
  <2>3. /\ head \in Revs /\ head \in Nat /\ hist[head] \in Content /\ Latest(hist[head])
        /\ snap[head] = Snapshot(hist[head])
    BY <2>1, <2>2, ResolvedHead
  <2>4. head + 1 \in Revs /\ snap[head] # None
    BY <2>1, <2>2, <2>3, ConstantsAssumption, SMTT(30), SMTT(45) DEF Structure, AuditExists, Revs
  <2>5. x \in File
    BY <2>1, <2>2, <2>4, ReconciledType DEF Structure
  <2>6. /\ x.content \in Content /\ Ahead(x.content, hist[head])
        /\ x.content.grant = hist[head].grant /\ x.content.epoch = head + 1
    BY <2>2, <2>3, <2>4, RestoredAhead
  <2> HIDE DEF x
  <2>7. Latest(x.content)
    <3>1. head <= x.content.epoch
      BY <2>3, <2>6, SMTT(30), SMTT(45)
    <3> QED BY <2>3, <2>6, <3>1, LatestStep DEF Structure, TypeOK
  <2>8. Ledger' /\ Latest(tx.content)'
    BY <2>1, <2>2, <2>5, <2>7, AnnounceKeepsLedger
  <2>9. tx' = x /\ head' = head + 1 /\ pc'[p] = "announced" /\ head' - 1 = head
    BY <2>1, <2>3, SMTT(30), SMTT(45) DEF Announce, Structure, TypeOK
  <2>10. OwnerKeeps'
    BY <2>1, <2>2, <2>6, <2>8, <2>9 DEF OwnerKeeps
  <2>11. Evidence'
    BY <2>1 DEF History, Evidence
  <2> QED BY <2>8, <2>10, <2>11 DEF History
<1>10. CASE ReconcileCommit(p)
  <2>1. /\ pc[p] = "announced" /\ CommitImage(at[p]) /\ pc' = [pc EXCEPT ![p] = "reconciled"]
        /\ UNCHANGED <<auditFile, head, outcome, snap, recorded, confirmed, lock>>
        /\ UNCHANGED <<recoveries, crashed, marker>>
    BY <1>10 DEF ReconcileCommit, Goto
  <2>2. lock = p /\ lock # None
    BY <2>1, OwnerHas DEF Owning, Labels
  <2>3. /\ Ledger' /\ head \in Revs /\ head > 0 /\ hist'[head] = tx.content
        /\ tx.content \in Content /\ hist[head - 1] # None /\ hist'[head - 1] = hist[head - 1]
    BY <2>1, CommitKeepsLedger
  <2>4. tx.content.grant = hist[head - 1].grant /\ tx.content.epoch = head
    BY <2>1, <2>2 DEF History, OwnerKeeps
  <2>5. Reconciliation(head)'
    BY <2>1, <2>3, <2>4, ConstantsAssumption, SMTT(30), SMTT(45) DEF Reconciliation, Revs
  <2>6. OwnerKeeps'
    BY <2>1, <2>2, <2>5 DEF OwnerKeeps, Structure, TypeOK
  <2>7. Evidence'
    BY <2>1 DEF History, Evidence
  <2> QED BY <2>3, <2>6, <2>7 DEF History
<1>11. CASE ReconcileRecord(p)
  <2>1. /\ pc[p] = "reconciled" /\ recorded' = [rev |-> head, verification |-> central[at[p]]]
        /\ pc' = [pc EXCEPT ![p] = "templated"] /\ UNCHANGED <<lock, recoveries, crashed, marker>>
        /\ UNCHANGED <<auditFile, head, outcome, snap, hist, confirmed>>
    BY <1>11 DEF ReconcileRecord, Goto
  <2>2. lock = p /\ lock # None
    BY <2>1, OwnerHas DEF Owning, Labels
  <2>3. Reconciliation(head)
    BY <2>1, <2>2 DEF History, OwnerKeeps
  <2>4. Reconciliations'
    BY <2>1, <2>3 DEF History, Ledger, Reconciliations, Reconciliation
  <2>5. EventsOrdered' /\ HeadIsLatest'
    BY <2>1 DEF History, Ledger, EventsOrdered, HeadIsLatest, Latest, Resolved
  <2>6. OwnerKeeps'
    BY <2>1, <2>2 DEF OwnerKeeps, Structure, TypeOK
  <2>7. Evidence'
    BY <2>1 DEF History, Evidence
  <2> QED BY <2>4, <2>5, <2>6, <2>7 DEF History, Ledger
<1>12. CASE ReconcileFinish(p)
  BY <1>12, ExitQuiet DEF ReconcileFinish
<1>13. ASSUME NEW approval \in approvals, Reopen(p, approval) PROVE History'
  <2> DEFINE d == central[at[p]]
  <2>1. /\ pc[p] = "ready" /\ approval.rev = head /\ d.rev = head /\ recorded = approval
        /\ outcome' = [outcome EXCEPT ![head] = "reconciled"] /\ snap' = ReleaseSuperseded(head)
        /\ confirmed' = confirmed \cap d.content.log /\ pc' = [pc EXCEPT ![p] = "reopened"]
        /\ UNCHANGED <<auditFile, head, hist, recorded, lock, recoveries, crashed, marker>>
    BY <1>13 DEF Reopen, Goto
  <2>2. lock = p /\ at[p] \in Paths /\ IsFile(d) /\ auditFile = "published"
    BY <2>1, OwnerAudit DEF Owning, Audited, Labels
  <2>3. recorded # None /\ recorded.rev = head
    BY <1>13, <2>1, ConstantsAssumption DEF Structure, TypeOK
  <2>4. Reconciliation(head) /\ head > 0 /\ hist[head] # None
    BY <2>3 DEF History, Ledger, Reconciliations, Reconciliation, Lineage, ApprovalKnown
  <2>5. hist[head] = d.content
    <3>1. Known(d)
      BY <2>2 DEF Lineage, FilesKnown
    <3>2. d.rev # 0
      BY <2>1, <2>4, Numbers DEF Structure
    <3> QED BY <2>1, <2>2, <3>1, <3>2 DEF Known, Recorded, Pristine
  <2>6. Ledger'
    BY <2>1, <2>2, <2>4, <2>5, ResolveKeepsLedger
  <2>7. OwnerKeeps'
    BY <2>1, <2>2 DEF OwnerKeeps, Structure, TypeOK
  <2>8. Evidence'
    BY <2>1 DEF History, Evidence
  <2> QED BY <2>6, <2>7, <2>8 DEF History
<1>14. CASE ReopenDone(p)
  BY <1>14, ExitQuiet DEF ReopenDone
<1> QED BY <1>1, <1>2, <1>3, <1>4, <1>5, <1>6, <1>7, <1>8, <1>9, <1>10, <1>11, <1>12, <1>13, <1>14 DEF Recover

(* Refusals, errors, abrupt stops and the loss of a WAL. *)
LEMMA FailureKeepsHistory ==
  ASSUME Structure, History, NEW p \in Procs, Refuse(p) \/ DropDestination(p) \/ Crash(p)
  PROVE  History'
BY ExitQuiet DEF Refuse, DropDestination, Crash, audit_vars, hist_vars

LEMMA LoseWalKeepsHistory ==
  ASSUME History, NEW f \in Paths, LoseWal(f)
  PROVE  History'
<1>1. /\ UNCHANGED <<auditFile, head, outcome, snap, hist, recorded, confirmed>>
      /\ UNCHANGED <<recoveries, crashed, marker, lock, pc, at, tx>>
  BY DEF LoseWal, audit_vars, proc_vars, hist_vars
<1>2. OwnerKeeps' /\ Evidence'
  BY <1>1 DEF History, OwnerKeeps, Evidence, Latest, Reconciliation
<1> QED BY <1>1, <1>2, LedgerFrame DEF History

-----------------------------------------------------------------------------
(* Whatever the instance, History holds in every reachable state. *)
THEOREM HistoryInvariant == Spec => []History
<1>1. Init => History
  BY ConstantsAssumption, SMTT(30), SMTT(45)
  DEF Init, History, Ledger, EventsOrdered, HeadIsLatest, Reconciliations, OwnerKeeps, Evidence, Revs
<1>2. Structure /\ Lineage /\ History /\ [Next]_vars => History'
  <2> SUFFICES ASSUME Structure, Lineage, History, [Next]_vars PROVE History'
    OBVIOUS
  <2>1. ASSUME NEW p \in Procs, Start(p) \/ Open(p) \/ Serve(p) \/ Recover(p)
                                   \/ Refuse(p) \/ DropDestination(p) \/ Crash(p)
        PROVE  History'
    BY <2>1, StartKeepsHistory, OpenKeepsHistory, ServeKeepsHistory, RecoverKeepsHistory,
       FailureKeepsHistory
  <2>2. ASSUME NEW f \in Paths, LoseWal(f) PROVE History'
    BY <2>2, LoseWalKeepsHistory
  <2>3. CASE UNCHANGED vars
    BY <2>3, LedgerFrame DEF vars, central_vars, audit_vars, proc_vars, hist_vars, History,
                             OwnerKeeps, Evidence, Latest, Reconciliation
  <2> QED BY <2>1, <2>2, <2>3 DEF Next
<1> QED BY <1>1, <1>2, StructureInvariant, LineageInvariant, PTL DEF Spec

(* What is served is the head of the history. *)
LEMMA ServedIsHead ==
  ASSUME Structure, Lineage, History, ServedIsAudited, NEW p \in Procs, Serving(p)
  PROVE  /\ auditFile = "published" /\ Resolved
         /\ central[at[p]].content = hist[head] /\ hist[head] # None
<1>1. gate = "open" /\ outcome[head] \in {"committed", "reconciled"} /\ central[at[p]].content = hist[head]
  BY DEF ServedIsAudited
<1>2. auditFile = "published" /\ Resolved
  BY <1>1 DEF Structure, AuditExists, Resolved
<1> QED BY <1>1, <1>2, ResolvedHead

(* A mutation whose caller was told Ok is in whatever is served later,     *)
(* unless an operator accepted its loss with reopen.                       *)
THEOREM ConfirmedMutationsSurvive == Spec => []ConfirmedSurvives
<1>1. Structure /\ Lineage /\ History /\ ServedIsAudited => ConfirmedSurvives
  BY ServedIsHead DEF ConfirmedSurvives, History, Ledger, HeadIsLatest
<1> QED BY <1>1, StructureInvariant, LineageInvariant, HistoryInvariant, AdmittedIsAudited, PTL

(* No backup that is restored and reopened brings back a revoked           *)
(* credential, frees a bound one, hands out an inbox number twice or       *)
(* accepts a cursor of an earlier epoch.                                   *)
THEOREM SecurityNeverRegresses == Spec => []NoRegression
<1>1. Structure /\ Lineage /\ History /\ ServedIsAudited => NoRegression
  <2> SUFFICES ASSUME Structure, Lineage, History, ServedIsAudited, NEW p \in Procs, Serving(p),
                      NEW r \in 0..head, hist[r] # None
               PROVE  LET c == central[at[p]].content IN
                      /\ \A x \in Creds : /\ hist[r].creds[x] = "revoked" => c.creds[x] = "revoked"
                                          /\ hist[r].creds[x] # "none" => c.creds[x] # "none"
                      /\ hist[r].inbox <= c.inbox
                      /\ outcome[r] = "reconciled" => hist[r].grant = hist[r - 1].grant /\ r <= c.epoch
    BY DEF NoRegression
  <2>1. Latest(hist[head]) /\ central[at[p]].content = hist[head]
    BY ServedIsHead DEF History, Ledger, HeadIsLatest
  <2>2. outcome[r] = "reconciled" => hist[r].grant = hist[r - 1].grant
    BY DEF History, Ledger, Reconciliations, Reconciliation
  <2> QED BY <2>1, <2>2 DEF Latest, Ahead
<1> QED BY <1>1, StructureInvariant, LineageInvariant, HistoryInvariant, AdmittedIsAudited, PTL

(* What committed and reopen leave passes the lineage rules of the next    *)
(* protected start, and every verified recovery leaves its evidence.       *)
THEOREM AuditStaysSound == Spec => []AuditIsSound
<1>1. Structure /\ History => AuditIsSound
  <2> SUFFICES ASSUME Structure, History PROVE AuditIsSound
    OBVIOUS
  <2>1. ASSUME auditFile = "published", gate = "open", Resolved PROVE OpenLineage
    <3>1. head \in Nat /\ head \in Revs
      BY Numbers DEF Structure
    <3>2. outcome[head] \in {"committed", "reconciled"} /\ snap[head] # None
      BY <2>1, <3>1 DEF Structure, TypeOK, AuditExists, Resolved
    <3>3. \A r \in 0..(head - 1) : outcome[r] \in {"committed", "reconciled"} /\ snap[r] = None
      BY <2>1 DEF History, Ledger, EventsOrdered
    <3>4. \A r \in 0..head : r # head => r \in 0..(head - 1)
      BY Numbers DEF Structure
    <3>5. head \notin 0..(head - 1)
      BY <3>1, SMTT(30), SMTT(45)
    <3> QED BY <2>1, <3>2, <3>3, <3>4, <3>5 DEF OpenLineage
  <2> QED BY <2>1 DEF AuditIsSound, History, Evidence
<1> QED BY <1>1, StructureInvariant, HistoryInvariant, PTL

(* The file an owner at p works on holds exactly what the head announced. *)
Holds(p) ==
  LET d == central[at[p]] IN
  at[p] \in Paths /\ IsFile(d) /\ d.rev = head /\ Snapshot(d.content) = snap[head]

LEMMA HeadInFile ==
  ASSUME Structure, Lineage, NEW p \in Procs, pc[p] \in Audited, pc[p] # "validating",
         central[at[p]].rev = head, head > 0
  PROVE  Holds(p)
<1> DEFINE d == central[at[p]]
<1>1. at[p] \in Paths /\ IsFile(d) /\ d \in File /\ auditFile = "published"
  BY OwnerAudit DEF Audited
<1>2. hist[head] = d.content /\ d.content \in Content
  <2>1. Known(d)
    BY <1>1 DEF Lineage, FilesKnown
  <2>2. d.rev # 0
    BY Numbers DEF Structure
  <2> QED BY <1>1, <2>1, <2>2 DEF Known, Recorded, Pristine, File
<1>3. snap[head] = Snapshot(d.content)
  BY <1>1, <1>2, ConstantsAssumption DEF Lineage, HeadKnown
<1> QED BY <1>1, <1>3 DEF Holds

(* The steps that write an outcome: the baseline, an intent, or the        *)
(* resolution of the head by the owner of the file that holds it.          *)
LEMMA OutcomeSteps ==
  ASSUME Structure, Lineage, NEW p \in Procs,
         Start(p) \/ Open(p) \/ Serve(p) \/ Recover(p) \/ Refuse(p) \/ DropDestination(p) \/ Crash(p)
  PROVE  \/ outcome' = outcome
         \/ auditFile # "published"
         \/ \E r : outcome' = [outcome EXCEPT ![r] = "prepared"]
         \/ \E o : outcome' = [outcome EXCEPT ![head] = o] /\ Holds(p)
<1> USE DEF audit_vars
<1>1. CASE Start(p)
  BY <1>1 DEF Start, StartFresh, StartCold, StartHot, StartTool
<1>2. CASE Open(p)
  <2>1. CASE InitPublish(p)
    BY <2>1, OwnerAudit DEF InitPublish, Owning, Labels
  <2>2. CASE ~InitPublish(p)
    BY <1>2, <2>2 DEF Open, AcquireLock, VerifyCopy, ResumeRecovery, Replay, Probe, OpenForRecovery,
      OpenWithLock, InitBegin, InitStage, AdoptBegin, Adopt, AdoptDone, FinishOpen,
      RecordCrashRecovery, CompleteRecovery
  <2> QED BY <2>1, <2>2
<1>3. CASE Serve(p)
  <2>1. CASE Committed(p)
    <3>1. pc[p] = "committed" /\ outcome' = [outcome EXCEPT ![central[at[p]].rev] = "committed"]
      BY <2>1 DEF Committed
    <3>2. lock = p /\ lock # None
      BY <3>1, OwnerHas DEF Owning, Labels
    <3>3. central[at[p]].rev = head /\ head > 0
      BY <3>1, <3>2 DEF Structure, TransactionExists
    <3> QED BY <3>1, <3>3, HeadInFile DEF Owning, Audited, Labels
  <2>2. CASE Prepare(p)
    BY <2>2 DEF Prepare, Announce
  <2>3. CASE ~Committed(p) /\ ~Prepare(p)
    BY <1>3, <2>3 DEF Serve, BeginRead, EndRead, BeginTransaction, CommitTransaction,
      TransactionFails, Shutdown
  <2> QED BY <2>1, <2>2, <2>3
<1>4. CASE Recover(p)
  <2>1. ASSUME NEW approval \in approvals, Reopen(p, approval)
        PROVE  outcome' = [outcome EXCEPT ![head] = "reconciled"] /\ Holds(p)
    <3>1. /\ pc[p] = "ready" /\ central[at[p]].rev = head /\ recorded = approval
          /\ approval.rev = head /\ outcome' = [outcome EXCEPT ![head] = "reconciled"]
      BY <2>1 DEF Reopen
    <3>2. recorded # None
      BY <2>1, <3>1, ConstantsAssumption DEF Structure, TypeOK
    <3>3. head > 0
      BY <3>1, <3>2 DEF Lineage, ApprovalKnown
    <3> QED BY <3>1, <3>3, HeadInFile DEF Owning, Audited, Labels
  <2>2. CASE ReconcilePrepare(p)
    BY <2>2 DEF ReconcilePrepare, Announce
  <2>3. CASE ~ReconcilePrepare(p) /\ ~\E approval \in approvals : Reopen(p, approval)
    BY <1>4, <2>3 DEF Recover, Close, BackupReserve, BackupCopy, BackupRecord, RestoreBegin,
      RestoreReserve, RestoreCopy, ReconcileBegin, ReconcileCommit, ReconcileRecord,
      ReconcileFinish, ReopenDone
  <2> QED BY <2>1, <2>2, <2>3
<1>5. CASE Refuse(p) \/ DropDestination(p) \/ Crash(p)
  BY <1>5 DEF Refuse, DropDestination, Crash
<1> QED BY <1>1, <1>2, <1>3, <1>4, <1>5

(* Neither committed nor reopen resolves an intent whose central commit    *)
(* did not happen.                                                         *)
THEOREM IntentsResolveAfterCommit == Spec => IntentResolution
<1> DEFINE A == \A r \in Revs :
                  outcome[r] = "prepared" /\ outcome'[r] # "prepared" =>
                    \E f \in Paths : /\ IsFile(central[f])
                                     /\ central[f].rev = r
                                     /\ Snapshot(central[f].content) = snap[r]
<1>1. Structure /\ Lineage /\ History /\ [Next]_vars => [A]_vars
  <2> SUFFICES ASSUME Structure, Lineage, History, Next, NEW r \in Revs,
                      outcome[r] = "prepared", outcome'[r] # "prepared"
               PROVE  \E f \in Paths : /\ IsFile(central[f])
                                       /\ central[f].rev = r
                                       /\ Snapshot(central[f].content) = snap[r]
    OBVIOUS
  <2>1. auditFile = "published"
    BY DEF History, Ledger, EventsOrdered
  <2>2. ASSUME NEW p \in Procs,
               \E o : outcome' = [outcome EXCEPT ![head] = o] /\ Holds(p)
        PROVE  \E f \in Paths : /\ IsFile(central[f])
                                /\ central[f].rev = r
                                /\ Snapshot(central[f].content) = snap[r]
    <3>1. r = head
      BY <2>2 DEF Structure, TypeOK
    <3> QED BY <2>2, <3>1 DEF Holds
  <2>3. ~\E q : outcome' = [outcome EXCEPT ![q] = "prepared"]
    BY DEF Structure, TypeOK
  <2>4. ASSUME NEW f \in Paths, LoseWal(f) PROVE FALSE
    BY <2>4 DEF LoseWal, audit_vars
  <2> QED BY <2>1, <2>2, <2>3, <2>4, OutcomeSteps DEF Next
<1>2. IntentResolution <=> [][A]_vars
  BY DEF IntentResolution
<1> QED BY <1>1, <1>2, StructureInvariant, LineageInvariant, HistoryInvariant, PTL DEF Spec
=============================================================================
