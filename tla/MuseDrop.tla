------------------------------ MODULE MuseDrop ------------------------------
(***************************************************************************)
(* MuseRuntime::inject: publication of one drop file per inbox item in a   *)
(* private directory that a hook worker watches.  Several clients publish  *)
(* into one directory, are killed between any two system calls and race on *)
(* one item with different chats; the hook removes files; the machine      *)
(* stops and forgets names that no directory sync made durable.  The file  *)
(* runtime publishes with the same sequence of calls.                      *)
(*                                                                         *)
(* The payload of an item is told apart by the chat it is for; Junk is a   *)
(* file that some other program left under the name.                       *)
(***************************************************************************)
EXTENDS Integers, FiniteSets

CONSTANTS
    Items,        \* inbox items
    Chats,        \* route targets that pass validate_chat_id
    Junk,         \* the contents of a file this runtime did not write
    Torn,         \* contents not all written and synced
    None,         \* no file
    Publishers,   \* clients that share the directory
    Names,        \* bound: 1 .. Names staging names
    Attempts,     \* STAGING_CREATE_ATTEMPTS (128 in the code)
    MaxFaults,    \* bound: failed system calls
    MaxStops      \* bound: kills of a client and stops of the machine

ASSUME DropAssumption ==
    /\ Junk \notin Chats /\ Torn \notin Chats \cup {Junk}
    /\ None \notin Chats \cup {Junk, Torn}
    /\ Names \in Nat \ {0} /\ Attempts \in Nat \ {0}
    /\ MaxFaults \in Nat /\ MaxStops \in Nat

VARIABLES
    file,       \* what each item's drop file holds
    disk,       \* the files a stop of the machine would leave
    staging,    \* staging names in use: the payload written so far
    at,         \* where each client is
    item, chat, \* what it is injecting, and for which chat
    name,       \* its staging name, 0 when it has none
    taken,      \* history: what the hook took
    confirmed,  \* history: what inject returned success for
    faults, stops,
    orphans     \* history: staging files that nobody will remove

directory == <<file, disk>>
call == <<item, chat>>
history == <<taken, confirmed>>
dropVars == <<directory, staging, at, call, name, history, faults, stops, orphans>>

DropPayloads == Chats \cup {Junk}
StagingNames == 1 .. Names

\* What is under the name of an item; Junk stands for anything unreadable,
\* oversized or of another payload.
read_drop_file(i) == file[i]

At(w, label) == at' = [at EXCEPT ![w] = label]

DropInit ==
    /\ file = [i \in Items |-> None]
    /\ disk = [i \in Items |-> None]
    /\ staging = [n \in StagingNames |-> None]
    /\ at = [w \in Publishers |-> "idle"]
    /\ item \in [Publishers -> Items] /\ chat \in [Publishers -> Chats]
    /\ name = [w \in Publishers |-> 0]
    /\ taken = {} /\ confirmed = {}
    /\ faults = 0 /\ stops = 0 /\ orphans = {}

-----------------------------------------------------------------------------
(* inject                                                                  *)

\* A disabled route, a bad chat id, a rendering that is not the envelope's
\* or an oversized payload returns at once; any other call reads the file.
Inject(w) ==
    /\ at[w] = "idle"
    /\ \E i \in Items, c \in Chats :
         /\ item' = [item EXCEPT ![w] = i]
         /\ chat' = [chat EXCEPT ![w] = c]
    /\ At(w, "reading")
    /\ UNCHANGED <<directory, staging, name, history, faults, stops, orphans>>

\* inject returns an error; what was staged is removed on the way.
Abort(w) ==
    At(w, IF name[w] = 0 THEN "idle" ELSE "cleaning")

\* read_drop_file: exact replay, conflict or free.
ReadExisting(w) ==
    /\ at[w] = "reading"
    /\ \/ read_drop_file(item[w]) = chat[w] /\ At(w, "syncfile")
       \/ read_drop_file(item[w]) \notin {chat[w], None} /\ Abort(w)
       \/ read_drop_file(item[w]) = None /\ At(w, "naming")
    /\ UNCHANGED <<directory, staging, call, name, history, faults, stops, orphans>>

\* create_staging_file_at: create_new under up to Attempts names, skipping
\* the ones that an earlier client left.
Candidate(s, k) == ((s + k) % Names) + 1

CreateStaging(w) ==
    /\ at[w] = "naming"
    /\ \E s \in 0 .. Names - 1 :
         LET free == {k \in 0 .. Attempts - 1 : staging[Candidate(s, k)] = None}
         IN  \/ /\ free = {}
                /\ Abort(w)
                /\ UNCHANGED <<staging, name>>
             \/ \E k \in free :
                  /\ \A j \in free : k <= j
                  /\ staging' = [staging EXCEPT ![Candidate(s, k)] = Torn]
                  /\ name' = [name EXCEPT ![w] = Candidate(s, k)]
                  /\ At(w, "writing")
    /\ UNCHANGED <<directory, call, history, faults, stops, orphans>>

\* write_all and sync_all: the contents are on disk before they get a name.
WriteStaging(w) ==
    /\ at[w] = "writing"
    /\ staging' = [staging EXCEPT ![name[w]] = chat[w]]
    /\ At(w, "linking")
    /\ UNCHANGED <<directory, call, name, history, faults, stops, orphans>>

BugLink(w) ==
    /\ at[w] = "linking"
    /\ file' = [file EXCEPT ![item[w]] = staging[name[w]]]
    /\ At(w, "unlinking")
    /\ UNCHANGED <<disk, staging, call, name, history, faults, stops, orphans>>

\* hard_link publishes without clobbering.
Link(w) ==
    /\ at[w] = "linking"
    /\ IF file[item[w]] = None
       THEN /\ file' = [file EXCEPT ![item[w]] = staging[name[w]]]
            /\ At(w, "unlinking")
       ELSE At(w, "comparing") /\ UNCHANGED file
    /\ UNCHANGED <<disk, staging, call, name, history, faults, stops, orphans>>

\* The name was taken meanwhile: by the same payload, or by another.
Compare(w) ==
    /\ at[w] = "comparing"
    /\ IF read_drop_file(item[w]) = chat[w] THEN At(w, "syncfile") ELSE Abort(w)
    /\ UNCHANGED <<directory, staging, call, name, history, faults, stops, orphans>>

\* sync_drop_file, first half: the file may be gone by now.
SyncFile(w) ==
    /\ at[w] = "syncfile"
    /\ IF file[item[w]] = None
       THEN Abort(w)
       ELSE At(w, "syncdir")
    /\ UNCHANGED <<file, disk, staging, call, name, history, faults, stops, orphans>>

\* The directory sync of sync_drop_file, and the one that ends
\* write_drop_file: names become durable.
SyncDirectory(w) ==
    /\ at[w] = "syncdir"
    /\ disk' = file
    /\ At(w, IF name[w] = 0 THEN "returning" ELSE "unlinking")
    /\ UNCHANGED <<file, staging, call, name, history, faults, stops, orphans>>

RemoveStaging(w) ==
    /\ at[w] = "unlinking"
    /\ staging' = [staging EXCEPT ![name[w]] = None]
    /\ name' = [name EXCEPT ![w] = 0]
    /\ At(w, "syncdir")
    /\ UNCHANGED <<directory, call, history, faults, stops, orphans>>

\* inject returns the receipt.
Return(w) ==
    /\ at[w] = "returning"
    /\ confirmed' = confirmed \cup {<<item[w], chat[w]>>}
    /\ At(w, "idle")
    /\ UNCHANGED <<directory, staging, call, name, taken, faults, stops, orphans>>

\* The error path removes the staging file.
Clean(w) ==
    /\ at[w] = "cleaning"
    /\ staging' = [staging EXCEPT ![name[w]] = None]
    /\ name' = [name EXCEPT ![w] = 0]
    /\ At(w, "idle")
    /\ UNCHANGED <<directory, call, history, faults, stops, orphans>>

-----------------------------------------------------------------------------
(* Faults and the environment.                                             *)

\* A system call fails.  A failed removal on the error path is ignored.
FailCall(w) ==
    /\ faults < MaxFaults
    /\ faults' = faults + 1
    /\ at[w] \notin {"idle", "returning"}
    /\ IF at[w] = "cleaning"
       THEN /\ orphans' = orphans \cup {name[w]}
            /\ name' = [name EXCEPT ![w] = 0]
            /\ At(w, "idle")
       ELSE Abort(w) /\ UNCHANGED <<orphans, name>>
    /\ UNCHANGED <<directory, staging, call, history, stops>>

\* A client is killed; its staging file stays.
KillClient(w) ==
    /\ stops < MaxStops
    /\ stops' = stops + 1
    /\ at[w] # "idle"
    /\ At(w, "idle")
    /\ name' = [name EXCEPT ![w] = 0]
    /\ orphans' = IF name[w] = 0 THEN orphans ELSE orphans \cup {name[w]}
    /\ UNCHANGED <<directory, staging, call, history, faults>>

\* The machine stops: names not yet durable are gone, removals not yet
\* durable are undone.
StopMachine ==
    /\ stops < MaxStops
    /\ stops' = stops + 1
    /\ file' = disk
    /\ at' = [w \in Publishers |-> "idle"]
    /\ name' = [w \in Publishers |-> 0]
    /\ orphans' = {n \in StagingNames : staging[n] # None}
    /\ UNCHANGED <<disk, staging, call, history, faults>>

\* The system writes the directory back on its own.
WriteBack(i) ==
    /\ disk[i] # file[i]
    /\ disk' = [disk EXCEPT ![i] = file[i]]
    /\ UNCHANGED <<file, staging, at, call, name, history, faults, stops, orphans>>

\* The hook picks the file up and removes it.
TakeDrop(i) ==
    /\ file[i] # None
    /\ file' = [file EXCEPT ![i] = None]
    /\ taken' = taken \cup {<<i, file[i]>>}
    /\ UNCHANGED <<disk, staging, at, call, name, confirmed, faults, stops, orphans>>

\* Another program leaves a file of its own under a free name.
PlaceJunk(i) ==
    /\ file[i] = None
    /\ file' = [file EXCEPT ![i] = Junk]
    /\ UNCHANGED <<disk, staging, at, call, name, history, faults, stops, orphans>>

DropNext ==
    \/ \E w \in Publishers :
         \/ Inject(w) \/ ReadExisting(w) \/ CreateStaging(w) \/ WriteStaging(w)
         \/ Link(w) \/ Compare(w) \/ SyncFile(w) \/ SyncDirectory(w)
         \/ RemoveStaging(w) \/ Return(w) \/ Clean(w)
         \/ FailCall(w) \/ KillClient(w)
    \/ \E i \in Items : WriteBack(i) \/ TakeDrop(i) \/ PlaceJunk(i)
    \/ StopMachine

DropSpec == DropInit /\ [][DropNext]_dropVars

-----------------------------------------------------------------------------
(* Properties.                                                             *)

Labels == {"idle", "reading", "naming", "writing", "linking", "comparing", "syncfile",
           "syncdir", "unlinking", "returning", "cleaning"}

\* Every variable keeps to the values the runtime gives it; in particular a
\* file never gets an item's name before its contents are on disk.
DropTypeOK ==
    /\ file \in [Items -> DropPayloads \cup {None}]
    /\ disk \in [Items -> DropPayloads \cup {None}]
    /\ staging \in [StagingNames -> Chats \cup {None, Torn}]
    /\ at \in [Publishers -> Labels]
    /\ item \in [Publishers -> Items] /\ chat \in [Publishers -> Chats]
    /\ name \in [Publishers -> 0 .. Names]
    /\ taken \in SUBSET (Items \X DropPayloads)
    /\ confirmed \in SUBSET (Items \X Chats)
    /\ faults \in 0 .. MaxFaults /\ stops \in 0 .. MaxStops
    /\ orphans \in SUBSET StagingNames

\* Success of inject "means the drop file is durably on disk": whatever
\* stops afterwards, the payload is still there unless the hook took it.
ConfirmedIsHandedOver ==
    \A c \in confirmed : disk[c[1]] = c[2] \/ c \in taken

\* A staging file outlives its inject only when the client was killed or
\* the removal itself failed.
StagingIsRemoved ==
    \A n \in StagingNames :
      staging[n] # None => n \in orphans \/ \E w \in Publishers : name[w] = n

DropHandoff == INSTANCE Handoff
                 WITH Payloads <- DropPayloads, offered <- file, durable <- disk

\* Publication refines the contract of inject: it never overwrites what is
\* under a name, and success implies durability, along every interleaving.
DropImplementsHandoff == DropHandoff!Spec
=============================================================================
