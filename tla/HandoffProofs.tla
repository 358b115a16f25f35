--------------------------- MODULE HandoffProofs ----------------------------
(***************************************************************************)
(* Proofs about the two kinds of runtime, for any number of clients,       *)
(* items, chats, keys, sessions, requests in flight, faults and stops: both*)
(* implement the contract of Handoff, a drop that reports success is       *)
(* durable and leaves no staging file, and the Runs API starts one run per *)
(* item and names only sessions that exist.                                *)
(***************************************************************************)
EXTENDS MuseDrop, HermesRuns, TLAPS

(* The time a leaf may take on a busy machine; a leaf with arithmetic has *)
(* a second attempt.                                                      *)
USE ZenonT(60)

-----------------------------------------------------------------------------
(* The drop directory: its inductive invariant.                            *)

\* A client has a staging name exactly between the creation and the removal
\* of its staging file; the two syncs come after a publication with one and
\* after a replay without.
NamedWhileStaged ==
    \A w \in Publishers :
      /\ at[w] \in {"idle", "reading", "naming", "returning"} => name[w] = 0
      /\ at[w] \in {"writing", "linking", "comparing", "unlinking", "cleaning"}
           => name[w] # 0

\* A staging file in use is there and belongs to one client.
NamesAreOwned ==
    /\ \A w \in Publishers : name[w] # 0 => staging[name[w]] # None
    /\ \A v, w \in Publishers : v # w /\ name[v] # 0 => name[v] # name[w]

\* What is about to be published is the whole payload.
StagedIsWritten ==
    \A w \in Publishers : at[w] = "linking" => staging[name[w]] = chat[w]

\* A payload found or published under the name is there until it is taken ...
Published(i, c) == file[i] = c \/ <<i, c>> \in taken

\* ... and after a sync of the directory it outlives the machine as well.
Durable(i, c) == (file[i] = c /\ disk[i] = c) \/ <<i, c>> \in taken

PublishedIsKept ==
    \A w \in Publishers :
      /\ at[w] \in {"syncfile", "syncdir", "unlinking"} => Published(item[w], chat[w])
      /\ at[w] = "returning" => Durable(item[w], chat[w])

ConfirmedIsKept ==
    \A i \in Items, c \in Chats : <<i, c>> \in confirmed => Durable(i, c)

DropInv ==
    /\ DropTypeOK /\ NamedWhileStaged /\ NamesAreOwned /\ StagedIsWritten
    /\ PublishedIsKept /\ ConfirmedIsKept /\ StagingIsRemoved

-----------------------------------------------------------------------------
(* Staging names.                                                          *)

(* create_staging_file_at only tries names of the directory's own kind. *)
LEMMA CandidateIsName ==
  ASSUME NEW s \in Int, NEW k \in Int
  PROVE  Candidate(s, k) \in StagingNames
BY DropAssumption, SMTT(30), SMTT(45) DEF Candidate, StagingNames

(* 0 is not a staging name. *)
LEMMA NameIsNotZero == StagingNames \subseteq 0 .. Names /\ 0 \notin StagingNames
                       /\ 0 \in 0 .. Names /\ \A n \in 0 .. Names : n = 0 \/ n \in StagingNames
BY DropAssumption, SMTT(30), SMTT(45) DEF StagingNames

-----------------------------------------------------------------------------
(* One lemma per group of actions.                                         *)

(* Steps of inject that neither touch a staging file nor the drop file. *)
LEMMA ReadingSteps ==
  ASSUME DropInv, NEW w \in Publishers,
         Inject(w) \/ ReadExisting(w) \/ Compare(w) \/ SyncFile(w)
  PROVE  DropInv'
<1> USE DEF directory, call, history
<1>1. DropTypeOK'
  BY SMTT(30), SMTT(45) DEF DropInv, DropTypeOK, Inject, ReadExisting, Compare, SyncFile, At, Abort, Labels
<1>2. NamedWhileStaged' /\ NamesAreOwned' /\ StagingIsRemoved'
  BY SMTT(30), SMTT(45) DEF DropInv, DropTypeOK, Inject, ReadExisting, Compare, SyncFile, At, Abort,
         NamedWhileStaged, NamesAreOwned, StagingIsRemoved
<1>3. StagedIsWritten'
  BY DEF DropInv, DropTypeOK, Inject, ReadExisting, Compare, SyncFile, At, Abort, StagedIsWritten
<1>4. PublishedIsKept'
  BY SMTT(30), SMTT(45) DEF DropInv, DropTypeOK, Inject, ReadExisting, Compare, SyncFile, At, Abort, PublishedIsKept,
         Published, Durable, read_drop_file
<1>5. ConfirmedIsKept'
  BY DEF DropInv, Inject, ReadExisting, Compare, SyncFile, ConfirmedIsKept, Durable
<1> QED BY <1>1, <1>2, <1>3, <1>4, <1>5 DEF DropInv

(* A new staging file: the name was free, so nobody else uses it. *)
LEMMA CreateStagingStep ==
  ASSUME DropInv, NEW w \in Publishers, CreateStaging(w)
  PROVE  DropInv'
<1> USE DEF directory, call, history
<1>1. \/ at' = [at EXCEPT ![w] = "idle"] /\ UNCHANGED <<staging, name>>
      \/ \E n \in StagingNames :
           /\ staging[n] = None
           /\ staging' = [staging EXCEPT ![n] = Torn]
           /\ name' = [name EXCEPT ![w] = n]
           /\ at' = [at EXCEPT ![w] = "writing"]
  <2>1. name[w] = 0
    BY DEF DropInv, NamedWhileStaged, CreateStaging
  <2>2. PICK s \in 0 .. Names - 1 :
          LET free == {k \in 0 .. Attempts - 1 : staging[Candidate(s, k)] = None}
          IN  \/ free = {} /\ Abort(w) /\ UNCHANGED <<staging, name>>
              \/ \E k \in free :
                   /\ staging' = [staging EXCEPT ![Candidate(s, k)] = Torn]
                   /\ name' = [name EXCEPT ![w] = Candidate(s, k)]
                   /\ At(w, "writing")
    BY DEF CreateStaging
  <2>3. \A k \in 0 .. Attempts - 1 : Candidate(s, k) \in StagingNames
    BY CandidateIsName, DropAssumption, SMTT(30), SMTT(45)
  <2> QED BY <2>1, <2>2, <2>3 DEF Abort, At
<1>2. at[w] = "naming" /\ UNCHANGED <<file, disk, item, chat, taken, confirmed, faults, stops, orphans>>
  BY DEF CreateStaging
<1>3. DropTypeOK'
  BY <1>1, <1>2, NameIsNotZero, SMTT(30), SMTT(45) DEF DropInv, DropTypeOK, Labels
<1>4. NamedWhileStaged' /\ StagedIsWritten'
  <2>1. CASE UNCHANGED <<staging, name>> /\ at' = [at EXCEPT ![w] = "idle"]
    BY <2>1, <1>2 DEF DropInv, DropTypeOK, NamedWhileStaged, StagedIsWritten
  <2>2. ASSUME NEW n \in StagingNames, staging[n] = None,
               staging' = [staging EXCEPT ![n] = Torn], name' = [name EXCEPT ![w] = n],
               at' = [at EXCEPT ![w] = "writing"]
        PROVE  NamedWhileStaged' /\ StagedIsWritten'
    <3>1. NamedWhileStaged'
      BY <2>2, <1>2, SMTT(30), SMTT(45) DEF DropInv, DropTypeOK, NamedWhileStaged, StagingNames
    <3>2. StagedIsWritten'
      BY <2>2, <1>2, DropAssumption, SMTT(30), SMTT(45)
      DEF DropInv, DropTypeOK, StagedIsWritten, NamedWhileStaged, NamesAreOwned, StagingNames
    <3> QED BY <3>1, <3>2
  <2> QED BY <1>1, <2>1, <2>2
<1>5. NamesAreOwned'
  BY <1>1, <1>2, DropAssumption, NameIsNotZero, SMTT(30), SMTT(45) DEF DropInv, DropTypeOK, NamesAreOwned
<1>6. StagingIsRemoved'
  <2>1. CASE UNCHANGED <<staging, name>>
    BY <2>1, <1>2 DEF DropInv, StagingIsRemoved
  <2>2. ASSUME NEW n \in StagingNames, staging' = [staging EXCEPT ![n] = Torn],
               name' = [name EXCEPT ![w] = n]
        PROVE  StagingIsRemoved'
    <3> SUFFICES ASSUME NEW m \in StagingNames, staging'[m] # None
                 PROVE  m \in orphans \/ \E v \in Publishers : name'[v] = m
      BY <1>2 DEF StagingIsRemoved
    <3>1. CASE m = n
      BY <2>2, <3>1 DEF DropInv, DropTypeOK
    <3>2. CASE m # n
      <4>1. staging[m] # None /\ name[w] = 0 /\ m # 0
        BY <2>2, <3>2, <1>2, NameIsNotZero DEF DropInv, DropTypeOK, NamedWhileStaged
      <4>2. m \in orphans \/ \E v \in Publishers \ {w} : name[v] = m
        BY <4>1 DEF DropInv, StagingIsRemoved
      <4> QED BY <2>2, <4>2 DEF DropInv, DropTypeOK
    <3> QED BY <3>1, <3>2
  <2> QED BY <1>1, <2>1, <2>2
<1>7. PublishedIsKept' /\ ConfirmedIsKept'
  BY <1>1, <1>2 DEF DropInv, DropTypeOK, PublishedIsKept, Published, Durable, ConfirmedIsKept
<1> QED BY <1>3, <1>4, <1>5, <1>6, <1>7 DEF DropInv

(* The other steps that change a staging file change the client's own. *)
LEMMA StagingSteps ==
  ASSUME DropInv, NEW w \in Publishers,
         WriteStaging(w) \/ RemoveStaging(w) \/ Clean(w)
  PROVE  DropInv'
<1> USE DEF directory, call, history
<1>1. /\ name[w] \in StagingNames
      /\ \A v \in Publishers : v # w => name[v] # name[w]
  BY DropAssumption, SMTT(30), SMTT(45) DEF DropInv, DropTypeOK, NamedWhileStaged, NamesAreOwned, WriteStaging,
                        RemoveStaging, Clean, StagingNames
<1>2. /\ \/ /\ staging' = [staging EXCEPT ![name[w]] = chat[w]] /\ name' = name
            /\ at' = [at EXCEPT ![w] = "linking"]
         \/ /\ staging' = [staging EXCEPT ![name[w]] = None] /\ name' = [name EXCEPT ![w] = 0]
            /\ at' = [at EXCEPT ![w] = "syncdir"] /\ at[w] = "unlinking"
         \/ /\ staging' = [staging EXCEPT ![name[w]] = None] /\ name' = [name EXCEPT ![w] = 0]
            /\ at' = [at EXCEPT ![w] = "idle"]
      /\ UNCHANGED <<file, disk, item, chat, taken, confirmed, faults, stops, orphans>>
  BY DEF WriteStaging, RemoveStaging, Clean, At
<1>3. DropTypeOK'
  <2>1. at' \in [Publishers -> Labels] /\ staging' \in [StagingNames -> Chats \cup {None, Torn}]
    BY <1>1, <1>2 DEF DropInv, DropTypeOK, Labels
  <2>2. name' \in [Publishers -> 0 .. Names]
    BY <1>2, NameIsNotZero, SMTT(30), SMTT(45) DEF DropInv, DropTypeOK
  <2> QED BY <1>2, <2>1, <2>2 DEF DropInv, DropTypeOK
<1>4. NamedWhileStaged'
  BY <1>1, <1>2, NameIsNotZero, SMTT(30), SMTT(45) DEF DropInv, DropTypeOK, NamedWhileStaged
<1>5. NamesAreOwned'
  BY <1>1, <1>2, NameIsNotZero, DropAssumption, SMTT(30), SMTT(45) DEF DropInv, DropTypeOK, NamesAreOwned
<1>6. StagingIsRemoved'
  <2> SUFFICES ASSUME NEW n \in StagingNames, staging'[n] # None
               PROVE  n \in orphans \/ \E v \in Publishers : name'[v] = n
    BY <1>2 DEF StagingIsRemoved
  <2>1. CASE n = name[w]
    BY <2>1, <1>1, <1>2 DEF DropInv, DropTypeOK
  <2>2. CASE n # name[w]
    BY <2>2, <1>1, <1>2 DEF DropInv, DropTypeOK, StagingIsRemoved
  <2> QED BY <2>1, <2>2
<1>7. StagedIsWritten'
  <2> SUFFICES ASSUME NEW v \in Publishers, at'[v] = "linking"
               PROVE  staging'[name'[v]] = chat[v]
    BY <1>2 DEF StagedIsWritten
  <2>1. CASE v = w
    BY <2>1, <1>1, <1>2 DEF DropInv, DropTypeOK
  <2>2. CASE v # w
    <3>1. at[v] = "linking" /\ name'[v] = name[v] /\ name[v] # 0
      BY <2>2, <1>2 DEF DropInv, DropTypeOK, NamedWhileStaged
    <3>2. name[v] \in StagingNames /\ name[v] # name[w]
      BY <1>1, <2>2, <3>1, NameIsNotZero DEF DropInv, DropTypeOK
    <3> QED BY <1>1, <1>2, <3>1, <3>2 DEF DropInv, DropTypeOK, StagedIsWritten
  <2> QED BY <2>1, <2>2
<1>8. PublishedIsKept' /\ ConfirmedIsKept'
  BY <1>2 DEF DropInv, DropTypeOK, PublishedIsKept, Published, Durable, ConfirmedIsKept
<1> QED BY <1>3, <1>4, <1>5, <1>6, <1>7, <1>8 DEF DropInv

(* hard_link gives a free name the whole payload, or finds it taken. *)
LEMMA LinkStep ==
  ASSUME DropInv, NEW w \in Publishers, Link(w)
  PROVE  DropInv'
<1> USE DEF directory, call, history
<1>1. /\ at[w] = "linking" /\ staging[name[w]] = chat[w]
      /\ UNCHANGED <<disk, staging, item, chat, name, taken, confirmed, faults, stops, orphans>>
  BY DEF DropInv, StagedIsWritten, Link
<1>2. \/ /\ file[item[w]] = None
         /\ file' = [file EXCEPT ![item[w]] = chat[w]]
         /\ at' = [at EXCEPT ![w] = "unlinking"]
      \/ at' = [at EXCEPT ![w] = "comparing"] /\ file' = file
  BY <1>1 DEF Link, At
<1>3. DropTypeOK'
  BY <1>1, <1>2 DEF DropInv, DropTypeOK, Labels, DropPayloads
<1>4. NamedWhileStaged' /\ NamesAreOwned' /\ StagedIsWritten' /\ StagingIsRemoved'
  BY <1>1, <1>2, SMTT(30), SMTT(45)
  DEF DropInv, DropTypeOK, NamedWhileStaged, NamesAreOwned, StagedIsWritten, StagingIsRemoved
<1>5. PublishedIsKept'
  BY <1>1, <1>2, DropAssumption, SMTT(30), SMTT(45) DEF DropInv, DropTypeOK, PublishedIsKept, Published, Durable
<1>6. ConfirmedIsKept'
  BY <1>1, <1>2, DropAssumption DEF DropInv, DropTypeOK, ConfirmedIsKept, Durable
<1> QED BY <1>3, <1>4, <1>5, <1>6 DEF DropInv

(* A sync of the directory makes every published name durable; success is  *)
(* only returned after one.                                                *)
LEMMA SyncAndReturnSteps ==
  ASSUME DropInv, NEW w \in Publishers, SyncDirectory(w) \/ Return(w)
  PROVE  DropInv'
<1> USE DEF directory, call, history
<1>1. DropTypeOK'
  BY SMTT(30), SMTT(45) DEF DropInv, DropTypeOK, SyncDirectory, Return, At, Labels
<1>2. NamedWhileStaged' /\ NamesAreOwned' /\ StagedIsWritten' /\ StagingIsRemoved'
  BY SMTT(30), SMTT(45) DEF DropInv, DropTypeOK, SyncDirectory, Return, At, NamedWhileStaged, NamesAreOwned,
         StagedIsWritten, StagingIsRemoved
<1>3. PublishedIsKept'
  BY DEF DropInv, DropTypeOK, SyncDirectory, Return, At, PublishedIsKept, Published, Durable
<1>4. ConfirmedIsKept'
  <2>1. CASE SyncDirectory(w)
    BY <2>1 DEF DropInv, SyncDirectory, ConfirmedIsKept, Durable
  <2>2. CASE Return(w)
    BY <2>2 DEF DropInv, DropTypeOK, Return, ConfirmedIsKept, PublishedIsKept, Durable
  <2> QED BY <2>1, <2>2
<1> QED BY <1>1, <1>2, <1>3, <1>4 DEF DropInv

(* A failed call leads to the removal of the staging file; a client that   *)
(* is killed, or whose removal fails, leaves an orphan.                    *)
LEMMA FailureSteps ==
  ASSUME DropInv, NEW w \in Publishers, FailCall(w) \/ KillClient(w)
  PROVE  DropInv'
<1> USE DEF directory, call, history
<1>1. /\ UNCHANGED <<file, disk, staging, item, chat, taken, confirmed>>
      /\ \/ name[w] = 0 /\ at' = [at EXCEPT ![w] = "idle"] /\ UNCHANGED <<name, orphans>>
         \/ name[w] # 0 /\ at' = [at EXCEPT ![w] = "cleaning"] /\ UNCHANGED <<name, orphans>>
         \/ /\ name[w] # 0
            /\ at' = [at EXCEPT ![w] = "idle"] /\ name' = [name EXCEPT ![w] = 0]
            /\ orphans' = orphans \cup {name[w]}
  BY SMTT(30), SMTT(45) DEF DropInv, DropTypeOK, NamedWhileStaged, FailCall, KillClient, Abort, At
<1>2. faults' \in 0 .. MaxFaults /\ stops' \in 0 .. MaxStops
  BY DropAssumption, SMTT(30), SMTT(45) DEF DropInv, DropTypeOK, FailCall, KillClient
<1>3. DropTypeOK'
  <2>1. at' \in [Publishers -> Labels]
    BY <1>1 DEF DropInv, DropTypeOK, Labels
  <2>2. name' \in [Publishers -> 0 .. Names]
    BY <1>1, NameIsNotZero DEF DropInv, DropTypeOK
  <2>3. name[w] # 0 => name[w] \in StagingNames
    BY NameIsNotZero DEF DropInv, DropTypeOK
  <2>4. orphans' \in SUBSET StagingNames
    BY <1>1, <2>3 DEF DropInv, DropTypeOK
  <2> QED BY <1>1, <1>2, <2>1, <2>2, <2>4 DEF DropInv, DropTypeOK
<1>4. NamedWhileStaged' /\ NamesAreOwned' /\ StagedIsWritten' /\ StagingIsRemoved'
  BY <1>1, SMTT(30), SMTT(45)
  DEF DropInv, DropTypeOK, NamedWhileStaged, NamesAreOwned, StagedIsWritten, StagingIsRemoved
<1>5. PublishedIsKept' /\ ConfirmedIsKept'
  BY <1>1 DEF DropInv, DropTypeOK, PublishedIsKept, Published, Durable, ConfirmedIsKept
<1> QED BY <1>3, <1>4, <1>5 DEF DropInv

(* The hook, other programs and the file system change one name at a time. *)
LEMMA EnvironmentSteps ==
  ASSUME DropInv, NEW i \in Items, WriteBack(i) \/ TakeDrop(i) \/ PlaceJunk(i)
  PROVE  DropInv'
<1> USE DEF directory, call, history
<1>1. /\ UNCHANGED <<staging, at, item, chat, name, confirmed, faults, stops, orphans>>
      /\ \/ disk' = [disk EXCEPT ![i] = file[i]] /\ UNCHANGED <<file, taken>>
         \/ /\ file[i] # None /\ file' = [file EXCEPT ![i] = None]
            /\ taken' = taken \cup {<<i, file[i]>>} /\ disk' = disk
         \/ file[i] = None /\ file' = [file EXCEPT ![i] = Junk] /\ UNCHANGED <<disk, taken>>
  BY DEF WriteBack, TakeDrop, PlaceJunk
<1>2. DropTypeOK'
  BY <1>1, SMTT(30), SMTT(45) DEF DropInv, DropTypeOK, DropPayloads
<1>3. NamedWhileStaged' /\ NamesAreOwned' /\ StagedIsWritten' /\ StagingIsRemoved'
  BY <1>1 DEF DropInv, NamedWhileStaged, NamesAreOwned, StagedIsWritten, StagingIsRemoved
<1>4. PublishedIsKept'
  BY <1>1, DropAssumption, SMTT(30), SMTT(45) DEF DropInv, DropTypeOK, PublishedIsKept, Published, Durable
<1>5. ConfirmedIsKept'
  BY <1>1, DropAssumption DEF DropInv, DropTypeOK, ConfirmedIsKept, Durable
<1> QED BY <1>2, <1>3, <1>4, <1>5 DEF DropInv

(* A stop of the machine leaves what is durable, and nobody running. *)
LEMMA StopMachineStep ==
  ASSUME DropInv, StopMachine
  PROVE  DropInv'
<1> USE DEF directory, call, history
<1>1. DropTypeOK'
  BY DropAssumption, SMTT(30), SMTT(45) DEF DropInv, DropTypeOK, StopMachine, Labels, StagingNames
<1>2. NamedWhileStaged' /\ NamesAreOwned' /\ StagedIsWritten' /\ StagingIsRemoved'
  BY DEF StopMachine, NamedWhileStaged, NamesAreOwned, StagedIsWritten, StagingIsRemoved
<1>3. PublishedIsKept' /\ ConfirmedIsKept'
  BY DEF DropInv, StopMachine, PublishedIsKept, ConfirmedIsKept, Durable
<1> QED BY <1>1, <1>2, <1>3 DEF DropInv

-----------------------------------------------------------------------------
(* DropInv holds in every behaviour. *)
THEOREM DropInvariant == DropSpec => []DropInv
<1>1. DropInit => DropInv
  BY DropAssumption, SMTT(30), SMTT(45)
  DEF DropInit, DropInv, DropTypeOK, NamedWhileStaged, NamesAreOwned, StagedIsWritten,
      PublishedIsKept, ConfirmedIsKept, StagingIsRemoved, Labels, StagingNames, DropPayloads
<1>2. DropInv /\ [DropNext]_dropVars => DropInv'
  <2> SUFFICES ASSUME DropInv, [DropNext]_dropVars PROVE DropInv'
    OBVIOUS
  <2>1. CASE UNCHANGED dropVars
    BY <2>1 DEF dropVars, directory, call, history, DropInv, DropTypeOK, NamedWhileStaged,
                NamesAreOwned, StagedIsWritten, PublishedIsKept, ConfirmedIsKept,
                StagingIsRemoved, Published, Durable
  <2>2. ASSUME NEW w \in Publishers,
               Inject(w) \/ ReadExisting(w) \/ Compare(w) \/ SyncFile(w)
        PROVE  DropInv'
    BY <2>2, ReadingSteps
  <2>3. ASSUME NEW w \in Publishers, CreateStaging(w) PROVE DropInv'
    BY <2>3, CreateStagingStep
  <2>4. ASSUME NEW w \in Publishers, WriteStaging(w) \/ RemoveStaging(w) \/ Clean(w)
        PROVE  DropInv'
    BY <2>4, StagingSteps
  <2>5. ASSUME NEW w \in Publishers, Link(w) PROVE DropInv'
    BY <2>5, LinkStep
  <2>6. ASSUME NEW w \in Publishers, SyncDirectory(w) \/ Return(w) PROVE DropInv'
    BY <2>6, SyncAndReturnSteps
  <2>7. ASSUME NEW w \in Publishers, FailCall(w) \/ KillClient(w) PROVE DropInv'
    BY <2>7, FailureSteps
  <2>8. ASSUME NEW i \in Items, WriteBack(i) \/ TakeDrop(i) \/ PlaceJunk(i) PROVE DropInv'
    BY <2>8, EnvironmentSteps
  <2>9. CASE StopMachine
    BY <2>9, StopMachineStep
  <2> QED BY <2>1, <2>2, <2>3, <2>4, <2>5, <2>6, <2>7, <2>8, <2>9 DEF DropNext
<1> QED BY <1>1, <1>2, PTL DEF DropSpec

(* MuseRuntime::inject: success means the payload is durable or was taken, *)
(* for any number of clients that race, fail, are killed or lose the       *)
(* machine.                                                                *)
THEOREM SuccessIsDurable == DropSpec => []ConfirmedIsHandedOver
<1>1. DropInv => ConfirmedIsHandedOver
  <2> SUFFICES ASSUME DropInv, NEW c \in confirmed
               PROVE  disk[c[1]] = c[2] \/ c \in taken
    BY DEF ConfirmedIsHandedOver
  <2>1. c = <<c[1], c[2]>> /\ c[1] \in Items /\ c[2] \in Chats
    BY SMTT(30), SMTT(45) DEF DropInv, DropTypeOK
  <2> QED BY <2>1 DEF DropInv, ConfirmedIsKept, Durable
<1> QED BY <1>1, DropInvariant, PTL

(* write_drop_file: a staging file that is left belongs to a client at     *)
(* work, or to one that was killed or could not remove it.                 *)
THEOREM NoStagingLeak == DropSpec => []StagingIsRemoved
<1>1. DropInv => StagingIsRemoved
  BY DEF DropInv
<1> QED BY <1>1, DropInvariant, PTL

(* Publication implements the contract that Handoff states: what is under  *)
(* a name is never overwritten, and success is only returned for a payload *)
(* that is durable or was taken.                                           *)
THEOREM DropRefinesHandoff == DropSpec => DropImplementsHandoff
<1> USE DEF directory, call, history
<1>1. DropInit => DropHandoff!Init
  BY DEF DropInit, DropHandoff!Init
<1>2. DropInv /\ [DropNext]_dropVars => [DropHandoff!Next]_(DropHandoff!vars)
  <2> SUFFICES ASSUME DropInv, [DropNext]_dropVars
               PROVE  DropHandoff!Next \/ UNCHANGED <<file, disk, taken, confirmed>>
    BY DEF DropHandoff!vars
  <2>1. CASE UNCHANGED dropVars
    BY <2>1 DEF dropVars
  <2>2. ASSUME NEW w \in Publishers,
               \/ Inject(w) \/ ReadExisting(w) \/ CreateStaging(w) \/ WriteStaging(w)
               \/ Compare(w) \/ SyncFile(w) \/ RemoveStaging(w) \/ Clean(w)
               \/ FailCall(w) \/ KillClient(w)
        PROVE  UNCHANGED <<file, disk, taken, confirmed>>
    BY <2>2 DEF Inject, ReadExisting, CreateStaging, WriteStaging, Compare, SyncFile,
                RemoveStaging, Clean, FailCall, KillClient
  <2>3. ASSUME NEW w \in Publishers, Link(w)
        PROVE  DropHandoff!Next \/ UNCHANGED <<file, disk, taken, confirmed>>
    <3>1. CASE file[item[w]] = None
      <4>1. DropHandoff!Offer(item[w], chat[w])
        BY <2>3, <3>1 DEF Link, DropInv, StagedIsWritten, DropHandoff!Offer
      <4> QED BY <4>1 DEF DropInv, DropTypeOK, DropPayloads, DropHandoff!Next
    <3>2. CASE file[item[w]] # None
      BY <2>3, <3>2 DEF Link
    <3> QED BY <3>1, <3>2
  <2>4. ASSUME NEW w \in Publishers, SyncDirectory(w) PROVE DropHandoff!Settle
    <3>1. file = [i \in Items |-> IF i \in Items THEN file[i] ELSE disk[i]]
      BY DEF DropInv, DropTypeOK
    <3> QED BY <2>4, <3>1 DEF SyncDirectory, DropHandoff!Settle
  <2>5. ASSUME NEW w \in Publishers, Return(w) PROVE DropHandoff!Confirm(item[w], chat[w])
    BY <2>5 DEF Return, DropInv, PublishedIsKept, Durable, DropHandoff!Confirm
  <2>6. ASSUME NEW i \in Items, WriteBack(i) PROVE DropHandoff!Settle
    <3>1. disk' = [j \in Items |-> IF j \in {i} THEN file[j] ELSE disk[j]]
      BY <2>6 DEF WriteBack, DropInv, DropTypeOK
    <3> QED BY <2>6, <3>1 DEF WriteBack, DropHandoff!Settle
  <2>7. ASSUME NEW i \in Items, TakeDrop(i) PROVE DropHandoff!Take(i)
    BY <2>7 DEF TakeDrop, DropHandoff!Take
  <2>8. ASSUME NEW i \in Items, PlaceJunk(i) PROVE DropHandoff!Offer(i, Junk)
    BY <2>8 DEF PlaceJunk, DropHandoff!Offer
  <2>9. CASE StopMachine
    BY <2>9 DEF StopMachine, DropHandoff!Crash, DropHandoff!Next
  <2>10. \A w \in Publishers : item[w] \in Items /\ chat[w] \in DropPayloads
    BY DEF DropInv, DropTypeOK, DropPayloads
  <2>11. Junk \in DropPayloads
    BY DEF DropPayloads
  <2> QED BY <2>1, <2>2, <2>3, <2>4, <2>5, <2>6, <2>7, <2>8, <2>9, <2>10, <2>11
          DEF DropNext, DropHandoff!Next
<1> QED BY <1>1, <1>2, DropInvariant, PTL DEF DropSpec, DropHandoff!Spec, DropImplementsHandoff

-----------------------------------------------------------------------------
(* The Runs API: its inductive invariant.                                  *)

\* A client that is past the preflight, or ever was, has a capable vendor.
PreflightHolds ==
    ~capable => /\ \A w \in Clients : doing[w] \in {"down", "health", "capabilities"}
                /\ late = {}

\* The runs made for a key, while it is retained, are the one it stands for.
MadeIsAdmitted == \A i \in Keys : made[i] = (IF admitted[i] = NoRun THEN 0 ELSE 1)

\* Sessions stay: one that was made for a client is there when it submits.
SessionsAreMade ==
    \A w \in Clients :
      /\ doing[w] = "run" => asking[w][2] \in sessions
      /\ doing[w] = "session" /\ answer[w] = "done" => asking[w][2] \in sessions

\* An accepted run is the one its key stands for, until the key expires.
AcceptedIsAdmitted ==
    \A w \in Clients :
      doing[w] = "run" /\ answer[w] = "accepted"
        => admitted[asking[w][1]] = asking[w][2] \/ asking[w] \in finished

\* A client that waits for no answer has none.
AnswersAreAwaited == \A w \in Clients : doing[w] \notin {"session", "run"} => answer[w] = NoRun

RunsInv ==
    /\ RunsTypeOK /\ PreflightHolds /\ MadeIsAdmitted /\ SessionsAreMade /\ AcceptedIsAdmitted
    /\ AnswersAreAwaited

-----------------------------------------------------------------------------
(* The vendor.                                                             *)

(* Requests are pairs of a key and a session. *)
LEMMA RequestParts ==
  ASSUME NEW r \in Requests
  PROVE  r[1] \in Keys /\ r[2] \in Sessions /\ r = <<r[1], r[2]>>
BY SMTT(30), SMTT(45) DEF Requests

(* What the vendor does with a run: nothing, or the first of its key. *)
LEMMA MakeRunEffect ==
  ASSUME RunsInv, capable, NEW r \in Requests, MakeRun(r)
  PROVE  /\ UNCHANGED <<capable, sessions>>
         /\ \/ UNCHANGED <<admitted, made>>
            \/ /\ admitted[r[1]] = NoRun
               /\ admitted' = [admitted EXCEPT ![r[1]] = r[2]]
               /\ made' = [made EXCEPT ![r[1]] = 1]
         /\ Acceptable(r) => admitted'[r[1]] = r[2]
<1>1. r[1] \in Keys /\ r[2] \in Sessions
  BY RequestParts
<1>2. admitted[r[1]] = NoRun => made[r[1]] = 0
  BY <1>1 DEF RunsInv, MadeIsAdmitted
<1> QED BY <1>1, <1>2, SMTT(30), SMTT(45) DEF MakeRun, Acceptable, RunsInv, RunsTypeOK

(* Any change that the vendor makes for one request keeps what the clients *)
(* rely on.                                                                *)
LEMMA VendorStep ==
  ASSUME RunsInv, NEW r \in Requests, capable,
         MakeSession(r) \/ MakeRun(r) \/ UNCHANGED vendor
  PROVE  /\ capable' = capable /\ sessions \subseteq sessions'
         /\ sessions' \in SUBSET Sessions
         /\ admitted' \in [Keys -> Sessions \cup {NoRun}] /\ made' \in [Keys -> 0 .. 2]
         /\ \A i \in Keys : admitted[i] # NoRun => admitted'[i] = admitted[i]
         /\ MadeIsAdmitted'
<1>1. r[1] \in Keys /\ r[2] \in Sessions
  BY RequestParts
<1>2. CASE MakeSession(r)
  BY <1>1, <1>2 DEF MakeSession, RunsInv, RunsTypeOK, MadeIsAdmitted
<1>3. CASE MakeRun(r)
  <2>1. \/ UNCHANGED <<admitted, made>>
        \/ /\ admitted[r[1]] = NoRun
           /\ admitted' = [admitted EXCEPT ![r[1]] = r[2]]
           /\ made' = [made EXCEPT ![r[1]] = 1]
    BY <1>3, MakeRunEffect
  <2>2. UNCHANGED <<capable, sessions>>
    BY <1>3 DEF MakeRun
  <2> QED BY <1>1, <2>1, <2>2, RunsAssumption, SMTT(30), SMTT(45) DEF RunsInv, RunsTypeOK, MadeIsAdmitted
<1>4. CASE UNCHANGED vendor
  BY <1>4 DEF vendor, RunsInv, RunsTypeOK, MadeIsAdmitted
<1> QED BY <1>2, <1>3, <1>4

(* A client that waits is answered. *)
LEMMA ServeSteps ==
  ASSUME RunsInv, NEW w \in Clients, ServeSession(w) \/ ServeRun(w)
  PROVE  RunsInv'
<1>1. capable /\ asking[w] \in Requests /\ doing[w] \in {"session", "run"}
  BY DEF RunsInv, RunsTypeOK, PreflightHolds, ServeSession, ServeRun
<1>2. /\ MakeSession(asking[w]) \/ MakeRun(asking[w]) \/ UNCHANGED vendor
      /\ \E a \in {"done", "accepted", "garbled", "unavailable", "rejected"} :
           /\ answer' = [answer EXCEPT ![w] = a]
           /\ doing[w] = "session" /\ a = "done" => MakeSession(asking[w])
           /\ a = "accepted" /\ doing[w] = "run" => MakeRun(asking[w]) /\ Acceptable(asking[w])
      /\ UNCHANGED <<late, given, doing, asking, finished, receipts>>
  <2>1. CASE ServeSession(w)
    BY <2>1 DEF ServeSession, Answer
  <2>2. CASE ServeRun(w)
    BY <2>2 DEF ServeRun, Answer
  <2> QED BY <2>1, <2>2
<1>3. /\ capable' = capable /\ sessions \subseteq sessions' /\ sessions' \in SUBSET Sessions
      /\ admitted' \in [Keys -> Sessions \cup {NoRun}] /\ made' \in [Keys -> 0 .. 2]
      /\ \A i \in Keys : admitted[i] # NoRun => admitted'[i] = admitted[i]
      /\ MadeIsAdmitted'
  BY <1>1, <1>2, VendorStep
<1>4. RunsTypeOK'
  BY <1>2, <1>3 DEF RunsInv, RunsTypeOK, Answers
<1>5. PreflightHolds' /\ AnswersAreAwaited'
  BY <1>1, <1>2, <1>3 DEF RunsInv, RunsTypeOK, PreflightHolds, AnswersAreAwaited
<1>6. SessionsAreMade'
  BY <1>2, <1>3 DEF RunsInv, RunsTypeOK, SessionsAreMade, MakeSession
<1>7. AcceptedIsAdmitted'
  <2> SUFFICES ASSUME NEW v \in Clients, doing[v] = "run", answer'[v] = "accepted"
               PROVE  admitted'[asking[v][1]] = asking[v][2] \/ asking[v] \in finished
    BY <1>2 DEF AcceptedIsAdmitted
  <2>1. CASE v = w
    <3>1. MakeRun(asking[w]) /\ Acceptable(asking[w])
      BY <1>2, <2>1 DEF RunsInv, RunsTypeOK
    <3> QED BY <1>1, <2>1, <3>1, MakeRunEffect
  <2>2. CASE v # w
    <3>1. answer[v] = "accepted" /\ asking[v][1] \in Keys /\ asking[v][2] \in Sessions
      BY <1>2, <2>2, RequestParts DEF RunsInv, RunsTypeOK
    <3> QED BY <1>3, <3>1, RunsAssumption DEF RunsInv, AcceptedIsAdmitted
  <2> QED BY <2>1, <2>2
<1> QED BY <1>3, <1>4, <1>5, <1>6, <1>7 DEF RunsInv

(* A request that nobody waits for changes no more than one that somebody  *)
(* does.                                                                   *)
LEMMA ServeLateStep ==
  ASSUME RunsInv, NEW q \in late, ServeLate(q)
  PROVE  RunsInv'
<1>1. capable /\ q.what \in Requests
  BY DEF RunsInv, RunsTypeOK, PreflightHolds
<1>2. /\ MakeSession(q.what) \/ MakeRun(q.what) \/ UNCHANGED vendor
      /\ late' = late \ {q}
      /\ UNCHANGED <<given, doing, asking, answer, finished, receipts>>
  BY DEF ServeLate
<1>3. /\ capable' = capable /\ sessions \subseteq sessions' /\ sessions' \in SUBSET Sessions
      /\ admitted' \in [Keys -> Sessions \cup {NoRun}] /\ made' \in [Keys -> 0 .. 2]
      /\ \A i \in Keys : admitted[i] # NoRun => admitted'[i] = admitted[i]
      /\ MadeIsAdmitted'
  BY <1>1, <1>2, VendorStep
<1>4. RunsTypeOK'
  BY <1>2, <1>3 DEF RunsInv, RunsTypeOK
<1>5. PreflightHolds' /\ SessionsAreMade' /\ AnswersAreAwaited'
  BY <1>1, <1>2, <1>3 DEF RunsInv, PreflightHolds, SessionsAreMade, AnswersAreAwaited
<1>6. AcceptedIsAdmitted'
  <2>1. \A v \in Clients : asking[v][1] \in Keys /\ asking[v][2] \in Sessions
    BY RequestParts DEF RunsInv, RunsTypeOK
  <2> QED BY <1>2, <1>3, <2>1, RunsAssumption, SMTT(30), SMTT(45) DEF RunsInv, AcceptedIsAdmitted
<1> QED BY <1>3, <1>4, <1>5, <1>6 DEF RunsInv

(* An expired key is remembered as finished. *)
LEMMA ExpireStep ==
  ASSUME RunsInv, NEW i \in Keys, Expire(i)
  PROVE  RunsInv'
<1>1. /\ admitted[i] \in Sessions /\ finished' = finished \cup {<<i, admitted[i]>>}
      /\ admitted' = [admitted EXCEPT ![i] = NoRun] /\ made' = [made EXCEPT ![i] = 0]
      /\ UNCHANGED <<capable, sessions, late, given, doing, asking, answer, receipts>>
  BY DEF Expire, RunsInv, RunsTypeOK
<1>2. RunsTypeOK'
  BY <1>1, SMTT(30), SMTT(45) DEF RunsInv, RunsTypeOK, Requests
<1>3. PreflightHolds' /\ MadeIsAdmitted' /\ SessionsAreMade' /\ AnswersAreAwaited'
  BY <1>1
  DEF RunsInv, RunsTypeOK, PreflightHolds, MadeIsAdmitted, SessionsAreMade, AnswersAreAwaited
<1>4. AcceptedIsAdmitted'
  <2> SUFFICES ASSUME NEW w \in Clients, doing[w] = "run", answer[w] = "accepted"
               PROVE  admitted'[asking[w][1]] = asking[w][2] \/ asking[w] \in finished'
    BY <1>1 DEF AcceptedIsAdmitted
  <2>1. asking[w][1] \in Keys /\ asking[w] = <<asking[w][1], asking[w][2]>>
    BY RequestParts DEF RunsInv, RunsTypeOK
  <2>2. admitted[asking[w][1]] = asking[w][2] \/ asking[w] \in finished
    BY DEF RunsInv, AcceptedIsAdmitted
  <2> QED BY <1>1, <2>1, <2>2 DEF RunsInv, RunsTypeOK
<1> QED BY <1>2, <1>3, <1>4 DEF RunsInv

-----------------------------------------------------------------------------
(* The client.                                                             *)

(* Starting, the preflight and a new inject. *)
LEMMA StartSteps ==
  ASSUME RunsInv, NEW w \in Clients,
         New(w) \/ Health(w) \/ Capabilities(w) \/ InjectRun(w)
  PROVE  RunsInv'
<1> USE DEF vendor
<1>1. RunsTypeOK'
  <2>1. \A i \in Keys, s \in Sessions : <<i, s>> \in Requests
    BY SMTT(30), SMTT(45) DEF Requests
  <2>2. doing' \in [Clients -> {"down", "health", "capabilities", "idle", "session", "run"}]
    BY DEF RunsInv, RunsTypeOK, New, Health, Capabilities, InjectRun, Doing
  <2>3. asking' \in [Clients -> Requests]
    BY <2>1, SMTT(30), SMTT(45) DEF RunsInv, RunsTypeOK, New, Health, Capabilities, InjectRun
  <2> QED BY <2>2, <2>3 DEF RunsInv, RunsTypeOK, New, Health, Capabilities, InjectRun
<1>2. PreflightHolds'
  BY DEF RunsInv, RunsTypeOK, PreflightHolds, New, Health, Capabilities, InjectRun, Doing
<1>3. MadeIsAdmitted'
  BY DEF RunsInv, MadeIsAdmitted, New, Health, Capabilities, InjectRun
<1>4. SessionsAreMade' /\ AcceptedIsAdmitted' /\ AnswersAreAwaited'
  BY RunsAssumption, SMTT(30), SMTT(45)
  DEF RunsInv, SessionsAreMade, AcceptedIsAdmitted, AnswersAreAwaited, New, Health, Capabilities,
      InjectRun, Doing, RunsTypeOK, Answers
<1> QED BY <1>1, <1>2, <1>3, <1>4 DEF RunsInv

(* What the client makes of an answer. *)
LEMMA AnswerSteps ==
  ASSUME RunsInv, NEW w \in Clients, EnsureSession(w) \/ Receipt(w)
  PROVE  RunsInv'
<1> USE DEF vendor
<1>1. RunsTypeOK'
  BY SMTT(30), SMTT(45) DEF RunsInv, RunsTypeOK, EnsureSession, Receipt, Doing, Answer
<1>2. PreflightHolds' /\ MadeIsAdmitted'
  BY DEF RunsInv, RunsTypeOK, PreflightHolds, MadeIsAdmitted, EnsureSession, Receipt, Doing
<1>3. SessionsAreMade'
  BY DEF RunsInv, RunsTypeOK, SessionsAreMade, EnsureSession, Receipt, Doing, Answer
<1>4. AcceptedIsAdmitted' /\ AnswersAreAwaited'
  BY RunsAssumption, SMTT(30), SMTT(45)
  DEF RunsInv, RunsTypeOK, AcceptedIsAdmitted, AnswersAreAwaited, EnsureSession, Receipt, Doing,
      Answer, Answers
<1> QED BY <1>1, <1>2, <1>3, <1>4 DEF RunsInv

(* A client that gives up leaves its request in flight. *)
LEMMA LeaveStep ==
  ASSUME RunsInv, NEW w \in Clients, NEW label \in {"idle", "down"}, Leave(w, label)
  PROVE  RunsInv'
<1> USE DEF vendor
<1>1. capable
  BY DEF RunsInv, PreflightHolds, Leave
<1>2. RunsTypeOK'
  BY RunsAssumption, SMTT(30), SMTT(45) DEF RunsInv, RunsTypeOK, Leave, Doing, Answer
<1>3. PreflightHolds' /\ MadeIsAdmitted'
  BY <1>1 DEF RunsInv, PreflightHolds, MadeIsAdmitted, Leave
<1>4. SessionsAreMade' /\ AcceptedIsAdmitted' /\ AnswersAreAwaited'
  BY DEF RunsInv, RunsTypeOK, SessionsAreMade, AcceptedIsAdmitted, AnswersAreAwaited, Leave,
         Doing, Answer
<1> QED BY <1>2, <1>3, <1>4 DEF RunsInv

-----------------------------------------------------------------------------
(* RunsInv holds in every behaviour. *)
THEOREM RunsInvariant == RunsSpec => []RunsInv
<1>1. RunsInit => RunsInv
  BY RunsAssumption, SMTT(30), SMTT(45)
  DEF RunsInit, RunsInv, RunsTypeOK, PreflightHolds, MadeIsAdmitted, SessionsAreMade,
      AcceptedIsAdmitted, AnswersAreAwaited
<1>2. RunsInv /\ [RunsNext]_runsVars => RunsInv'
  <2> SUFFICES ASSUME RunsInv, [RunsNext]_runsVars PROVE RunsInv'
    OBVIOUS
  <2>1. CASE UNCHANGED runsVars
    BY <2>1 DEF runsVars, vendor, RunsInv, RunsTypeOK, PreflightHolds, MadeIsAdmitted,
                SessionsAreMade, AcceptedIsAdmitted, AnswersAreAwaited
  <2>2. ASSUME NEW w \in Clients, New(w) \/ Health(w) \/ Capabilities(w) \/ InjectRun(w)
        PROVE  RunsInv'
    BY <2>2, StartSteps
  <2>3. ASSUME NEW w \in Clients, EnsureSession(w) \/ Receipt(w) PROVE RunsInv'
    BY <2>3, AnswerSteps
  <2>4. ASSUME NEW w \in Clients, TimeOut(w) \/ KillRunsClient(w) PROVE RunsInv'
    BY <2>4, LeaveStep DEF TimeOut, KillRunsClient
  <2>5. ASSUME NEW w \in Clients, ServeSession(w) \/ ServeRun(w) PROVE RunsInv'
    BY <2>5, ServeSteps
  <2>6. ASSUME NEW q \in late, ServeLate(q) PROVE RunsInv'
    BY <2>6, ServeLateStep
  <2>7. ASSUME NEW i \in Keys, Expire(i) PROVE RunsInv'
    BY <2>7, ExpireStep
  <2> QED BY <2>1, <2>2, <2>3, <2>4, <2>5, <2>6, <2>7 DEF RunsNext
<1> QED BY <1>1, <1>2, PTL DEF RunsSpec

(* HermesRuntime: however often an item is retried, and whatever answers   *)
(* are lost or requests served late, one run is made while its key is      *)
(* retained.                                                               *)
THEOREM AtMostOneRun == RunsSpec => []OneRunPerItem
<1>1. RunsInv => OneRunPerItem
  <2>1. RunsInv => \A i \in Keys : made[i] = 0 \/ made[i] = 1
    BY DEF RunsInv, MadeIsAdmitted
  <2>2. 0 <= 1 /\ 1 <= 1
    BY SMTT(30), SMTT(45)
  <2> QED BY <2>1, <2>2 DEF OneRunPerItem
<1> QED BY <1>1, RunsInvariant, PTL

(* ensure_session: a run names a session that exists. *)
THEOREM RunsNameSessions == RunsSpec => []SessionBeforeRun
<1>1. RunsInv => SessionBeforeRun
  BY DEF RunsInv, SessionsAreMade, SessionBeforeRun
<1> QED BY <1>1, RunsInvariant, PTL

(* The Runs API client implements the contract that Handoff states: an     *)
(* admitted run is never replaced by another, and a receipt is returned    *)
(* only for a run that was admitted.                                       *)
THEOREM RunsRefineHandoff == RunsSpec => RunsImplementHandoff
<1>1. RunsInit => RunsHandoff!Init
  BY DEF RunsInit, RunsHandoff!Init
<1>2. RunsInv /\ [RunsNext]_runsVars => [RunsHandoff!Next]_(RunsHandoff!vars)
  <2> SUFFICES ASSUME RunsInv, [RunsNext]_runsVars
               PROVE  RunsHandoff!Next \/ UNCHANGED <<admitted, finished, receipts>>
    BY DEF RunsHandoff!vars
  <2>1. CASE UNCHANGED runsVars
    BY <2>1 DEF runsVars, vendor
  <2>2. ASSUME NEW w \in Clients,
               \/ New(w) \/ Health(w) \/ Capabilities(w) \/ InjectRun(w) \/ EnsureSession(w)
               \/ TimeOut(w) \/ KillRunsClient(w)
        PROVE  UNCHANGED <<admitted, finished, receipts>>
    BY <2>2 DEF vendor, New, Health, Capabilities, InjectRun, EnsureSession, TimeOut,
                KillRunsClient, Leave
  <2>3. ASSUME NEW r \in Requests, capable, UNCHANGED <<finished, receipts>>,
               MakeSession(r) \/ MakeRun(r) \/ UNCHANGED vendor
        PROVE  RunsHandoff!Next \/ UNCHANGED <<admitted, finished, receipts>>
    <3>1. r[1] \in Keys /\ r[2] \in Sessions
      BY <2>3, RequestParts
    <3>2. \/ UNCHANGED admitted
          \/ admitted[r[1]] = NoRun /\ admitted' = [admitted EXCEPT ![r[1]] = r[2]]
      BY <2>3, MakeRunEffect DEF MakeSession, vendor
    <3>3. CASE UNCHANGED admitted
      BY <2>3, <3>3
    <3>4. CASE admitted[r[1]] = NoRun /\ admitted' = [admitted EXCEPT ![r[1]] = r[2]]
      <4>1. RunsHandoff!Offer(r[1], r[2])
        BY <2>3, <3>4 DEF RunsHandoff!Offer
      <4> QED BY <3>1, <4>1 DEF RunsHandoff!Next
    <3> QED BY <3>2, <3>3, <3>4
  <2>4. ASSUME NEW w \in Clients, ServeSession(w) \/ ServeRun(w)
        PROVE  RunsHandoff!Next \/ UNCHANGED <<admitted, finished, receipts>>
    <3>1. capable /\ asking[w] \in Requests
      BY <2>4 DEF RunsInv, RunsTypeOK, PreflightHolds, ServeSession, ServeRun
    <3>2. /\ MakeSession(asking[w]) \/ MakeRun(asking[w]) \/ UNCHANGED vendor
          /\ UNCHANGED <<finished, receipts>>
      BY <2>4 DEF ServeSession, ServeRun
    <3> QED BY <2>3, <3>1, <3>2
  <2>5. ASSUME NEW q \in late, ServeLate(q)
        PROVE  RunsHandoff!Next \/ UNCHANGED <<admitted, finished, receipts>>
    <3>1. capable /\ q.what \in Requests
      BY <2>5 DEF RunsInv, RunsTypeOK, PreflightHolds
    <3>2. /\ MakeSession(q.what) \/ MakeRun(q.what) \/ UNCHANGED vendor
          /\ UNCHANGED <<finished, receipts>>
      BY <2>5 DEF ServeLate
    <3> QED BY <2>3, <3>1, <3>2
  <2>6. ASSUME NEW w \in Clients, Receipt(w)
        PROVE  RunsHandoff!Next \/ UNCHANGED <<admitted, finished, receipts>>
    <3>1. asking[w][1] \in Keys /\ asking[w][2] \in Sessions
          /\ asking[w] = <<asking[w][1], asking[w][2]>>
      BY RequestParts DEF RunsInv, RunsTypeOK
    <3>2. CASE answer[w] = "accepted"
      <4>1. RunsHandoff!Confirm(asking[w][1], asking[w][2])
        BY <2>6, <3>1, <3>2
        DEF Receipt, HasRunId, vendor, RunsInv, AcceptedIsAdmitted, RunsHandoff!Confirm
      <4> QED BY <3>1, <4>1 DEF RunsHandoff!Next
    <3>3. CASE answer[w] # "accepted"
      BY <2>6, <3>3 DEF Receipt, HasRunId, vendor
    <3> QED BY <3>2, <3>3
  <2>7. ASSUME NEW i \in Keys, Expire(i) PROVE RunsHandoff!Next
    <3>1. RunsHandoff!Take(i)
      BY <2>7 DEF Expire, RunsHandoff!Take
    <3> QED BY <3>1 DEF RunsHandoff!Next
  <2> QED BY <2>1, <2>2, <2>4, <2>5, <2>6, <2>7 DEF RunsNext
<1> QED BY <1>1, <1>2, RunsInvariant, PTL DEF RunsSpec, RunsHandoff!Spec, RunsImplementHandoff
=============================================================================
