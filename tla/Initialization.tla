--------------------------- MODULE Initialization ---------------------------
(***************************************************************************)
(* Opening the central database: Database::open, Database::open_existing   *)
(* and ConnectionFactory of journal-storage-sqlite.  Several processes     *)
(* open one path.  The one that finds it absent creates the                *)
(* `<database>.initializing` marker, creates the file, applies the         *)
(* baseline schema in WAL mode, checkpoints, closes and only then removes  *)
(* the marker; the others wait for it and admit the file cold.  A factory  *)
(* remembers the file it admitted and refuses every other one.             *)
(*                                                                         *)
(* A file is an inode 1 .. MaxInodes; the main file holds the exact schema *)
(* ("ready") or not ("empty"), and wal says that the schema is committed   *)
(* but still only in the WAL.                                              *)
(***************************************************************************)
EXTENDS Integers, FiniteSets

CONSTANTS
    Openers,     \* processes that open the database
    None,        \* no process holds the marker, and there is none
    Stale,       \* the marker of a process that was killed
    MaxInodes,   \* bound: files ever created at the path
    MaxPolls,    \* polls of wait_for_initialization (100 in the code)
    MaxKills,    \* bound: processes killed
    MaxFaults,   \* bound: failed SQLite calls while initializing
    MaxTouches   \* bound: acts of the operator on the path

ASSUME InitializationAssumption ==
    /\ None \notin Openers
    /\ Stale \notin Openers \cup {None}
    /\ MaxInodes \in Nat /\ MaxPolls \in Nat \ {0}
    /\ MaxKills \in Nat /\ MaxFaults \in Nat /\ MaxTouches \in Nat

VARIABLES
    path,      \* the inode at the path, 0 when there is none
    content,   \* the main file of each inode
    linked,    \* the inode at the path has a second name
    wal,       \* the baseline is committed and only in the WAL
    side,      \* there are sidecar entries beside the path
    marker,    \* who holds the initialization marker
    pc,        \* where each process is
    mode,      \* what its connection is for: "init", "cold" or "use"
    admission, \* the inode its factory admitted, or Unbound or Refused
    conn,      \* the inode its connection has open, 0 when none
    polls,     \* polls made of the current wait
    kills, faults, touches,
    quiet      \* history: nobody was killed, failed, wrote or intervened

disk == <<path, content, linked, wal, side>>
process == <<pc, mode, admission, conn, polls>>
bounds == <<kills, faults, touches>>
vars == <<disk, marker, process, bounds, quiet>>

Inodes == 1 .. MaxInodes
Unbound == -1
Refused == 0

Opening == {"probe", "present", "absent", "waiting", "held", "checked",
            "verify", "open", "bind", "configure", "baseline", "checkpoint",
            "close", "return", "unwound", "existing", "admit", "cold",
            "inspect", "identity"}
Ended == {"idle", "refused", "timedout", "failed"}
Serving == {"opened", "connected"}

\* The steps of an initializer between taking the marker and releasing it.
Holding(o) == marker = o

-----------------------------------------------------------------------------
(* Observations of the file system.                                        *)

\* The identity of a regular file with one name; Refused for anything else.
current_central_identity == IF path # 0 /\ ~linked THEN path ELSE Refused

\* Sidecar entries are evidence of hot state, whatever they hold.
sqlite_sidecar_entries_exist == side

\* The exact schema, read from the main file.
verify_schema(i) == content[i] = "ready"

Admits(o) == admission[o] = Unbound \/ (admission[o] # Refused
                                         /\ admission[o] = current_central_identity)

\* Who has a configured (WAL) connection, and so keeps the sidecars alive.
Configured(o) == pc[o] \in {"baseline", "checkpoint", "close", "connected"}

Goto(o, label) == pc' = [pc EXCEPT ![o] = label]

\* SQLite closes the connection of o: the last one checkpoints the WAL into
\* the main file and removes the sidecars.
Disconnect(o) ==
    /\ conn' = [conn EXCEPT ![o] = 0]
    /\ IF Configured(o) /\ \A p \in Openers \ {o} : ~Configured(p)
       THEN /\ side' = FALSE
            /\ wal' = FALSE
            /\ content' = IF wal THEN [content EXCEPT ![conn[o]] = "ready"] ELSE content
       ELSE UNCHANGED <<side, wal, content>>

Init ==
    /\ path = 0 /\ content = [i \in Inodes |-> "none"]
    /\ linked = FALSE /\ wal = FALSE /\ side = FALSE
    /\ marker = None
    /\ pc = [o \in Openers |-> "idle"]
    /\ mode = [o \in Openers |-> "cold"]
    /\ admission = [o \in Openers |-> Unbound]
    /\ conn = [o \in Openers |-> 0]
    /\ polls = [o \in Openers |-> 0]
    /\ kills = 0 /\ faults = 0 /\ touches = 0
    /\ quiet = TRUE

-----------------------------------------------------------------------------
(* Database::open, up to the choice between initializing and admitting.    *)

Start(o) ==
    /\ pc[o] = "idle"
    /\ Goto(o, "probe")
    /\ UNCHANGED <<disk, marker, mode, admission, conn, polls, bounds, quiet>>

\* path.exists(), before the marker is looked at.
Probe(o) ==
    /\ pc[o] = "probe"
    /\ Goto(o, IF path # 0 THEN "present" ELSE "absent")
    /\ UNCHANGED <<disk, marker, mode, admission, conn, polls, bounds, quiet>>

BugProbeMarker(o) ==
    /\ pc[o] = "present"
    /\ Goto(o, "existing")
    /\ UNCHANGED <<disk, marker, mode, admission, conn, polls, bounds, quiet>>

\* The database is there: an initializer may still be at work on it.
ProbeMarker(o) ==
    /\ pc[o] = "present"
    /\ Goto(o, IF marker # None THEN "waiting" ELSE "existing")
    /\ UNCHANGED <<disk, marker, mode, admission, conn, polls, bounds, quiet>>

\* create_new on the marker: presence is ownership.
TryAcquire(o) ==
    /\ pc[o] = "absent"
    /\ IF marker = None
       THEN marker' = o /\ Goto(o, "held")
       ELSE Goto(o, "waiting") /\ UNCHANGED marker
    /\ UNCHANGED <<disk, mode, admission, conn, polls, bounds, quiet>>

BugPollForever(o) ==
    /\ pc[o] = "waiting"
    /\ IF marker = None
       THEN Goto(o, "probe") /\ polls' = [polls EXCEPT ![o] = 0]
       ELSE UNCHANGED <<pc, polls>>
    /\ UNCHANGED <<disk, marker, mode, admission, conn, bounds, quiet>>

\* wait_for_initialization: a bounded number of looks at the marker.
Poll(o) ==
    /\ pc[o] = "waiting"
    /\ IF marker = None
       THEN Goto(o, "probe") /\ polls' = [polls EXCEPT ![o] = 0]
       ELSE IF polls[o] + 1 < MaxPolls
       THEN polls' = [polls EXCEPT ![o] = @ + 1] /\ UNCHANGED pc
       ELSE Goto(o, "timedout") /\ polls' = [polls EXCEPT ![o] = 0]
    /\ UNCHANGED <<disk, marker, mode, admission, conn, bounds, quiet>>

BugRecheck(o) ==
    /\ pc[o] = "held"
    /\ IF side
       THEN Goto(o, "refused") /\ marker' = None
       ELSE Goto(o, "checked") /\ UNCHANGED marker
    /\ UNCHANGED <<disk, mode, admission, conn, polls, bounds, quiet>>

\* A later look under the marker; a database that appeared meanwhile is
\* admitted, after the marker is dropped, by the next round of the loop.
Recheck(o) ==
    /\ pc[o] = "held"
    /\ IF path # 0
       THEN Goto(o, "probe") /\ marker' = None
       ELSE IF sqlite_sidecar_entries_exist
       THEN Goto(o, "refused") /\ marker' = None
       ELSE Goto(o, "checked") /\ UNCHANGED marker
    /\ UNCHANGED <<disk, mode, admission, conn, polls, bounds, quiet>>

\* ConnectionFactory::new: unbound while there is no file.
NewFactory(o) ==
    /\ pc[o] = "checked"
    /\ admission' = [admission EXCEPT ![o] = IF path = 0 THEN Unbound
                                             ELSE current_central_identity]
    /\ mode' = [mode EXCEPT ![o] = "init"]
    /\ Goto(o, "verify")
    /\ UNCHANGED <<disk, marker, conn, polls, bounds, quiet>>

-----------------------------------------------------------------------------
(* One connection of a factory: the path is compared with the admitted     *)
(* file before SQLite opens it and again before any SQL reaches it.        *)

\* An error: the connection closes, then the marker of an initializer goes.
\* An open fails with it; a database that was open stays so.
Reject(o) ==
    /\ Disconnect(o)
    /\ Goto(o, IF mode[o] = "use" THEN "opened" ELSE "refused")
    /\ admission' = [admission EXCEPT ![o] = IF mode[o] = "use" THEN @ ELSE Unbound]
    /\ marker' = IF Holding(o) THEN None ELSE marker

verify_admitted_identity(o) ==
    /\ pc[o] = "verify"
    /\ IF Admits(o)
       THEN Goto(o, "open") /\ UNCHANGED <<marker, admission, conn, side, wal, content>>
       ELSE Reject(o)
    /\ UNCHANGED <<path, linked, mode, polls, bounds, quiet>>

\* SQLITE_OPEN_CREATE makes an empty file where there is none.
open_read_write(o) ==
    /\ pc[o] = "open" /\ mode[o] # "cold"
    /\ \E i \in Inodes :
         /\ IF path # 0
            THEN i = path /\ UNCHANGED <<path, content, linked>>
            ELSE /\ content[i] = "none" /\ \A j \in 1 .. i - 1 : content[j] # "none"
                 /\ path' = i
                 /\ content' = [content EXCEPT ![i] = "empty"]
                 /\ linked' = FALSE
         /\ conn' = [conn EXCEPT ![o] = i]
    /\ Goto(o, "bind")
    /\ UNCHANGED <<side, wal, marker, admission, mode, polls, bounds, quiet>>

\* The immutable connection looks for sidecars once more ...
ImmutableSidecars(o) ==
    /\ pc[o] = "cold"
    /\ IF sqlite_sidecar_entries_exist
       THEN Reject(o)
       ELSE Goto(o, "verify") /\ UNCHANGED <<marker, admission, conn, side, wal, content>>
    /\ UNCHANGED <<path, linked, mode, polls, bounds, quiet>>

\* ... and opens what is there, creating nothing.
open_immutable_read_only(o) ==
    /\ pc[o] = "open" /\ mode[o] = "cold"
    /\ IF path = 0
       THEN Reject(o)
       ELSE /\ conn' = [conn EXCEPT ![o] = path]
            /\ Goto(o, "bind")
            /\ UNCHANGED <<content, side, wal, marker, admission>>
    /\ UNCHANGED <<path, linked, mode, polls, bounds, quiet>>

BugBindAfterOpen(o) ==
    /\ pc[o] = "bind"
    /\ IF current_central_identity = Refused
       THEN Reject(o)
       ELSE /\ admission' = [admission EXCEPT ![o] = IF @ = Unbound THEN path ELSE @]
            /\ Goto(o, IF mode[o] = "cold" THEN "inspect" ELSE "configure")
            /\ UNCHANGED <<marker, conn, side, wal, content>>
    /\ UNCHANGED <<path, linked, mode, polls, bounds, quiet>>

bind_after_open(o) ==
    /\ pc[o] = "bind"
    /\ IF current_central_identity = Refused \/ ~Admits(o)
       THEN Reject(o)
       ELSE /\ admission' = [admission EXCEPT ![o] = current_central_identity]
            /\ Goto(o, IF mode[o] = "cold" THEN "inspect" ELSE "configure")
            /\ UNCHANGED <<marker, conn, side, wal, content>>
    /\ UNCHANGED <<path, linked, mode, polls, bounds, quiet>>

\* configure_connection: WAL mode, so sidecars appear.
Configure(o) ==
    /\ pc[o] = "configure"
    /\ side' = TRUE
    /\ Goto(o, IF mode[o] = "init" THEN "baseline" ELSE "connected")
    /\ quiet' = (quiet /\ mode[o] = "init")
    /\ UNCHANGED <<path, content, linked, wal, marker, mode, admission, conn, polls, bounds>>

\* The WAL pragma stays locked past its deadline, or the policy read back
\* is not the one that was set: the connection of an open database closes.
FailConnect(o) ==
    /\ pc[o] = "configure" /\ mode[o] = "use"
    /\ faults < MaxFaults
    /\ faults' = faults + 1
    /\ Reject(o)
    /\ quiet' = FALSE
    /\ UNCHANGED <<path, linked, mode, polls, kills, touches>>

-----------------------------------------------------------------------------
(* The initializer.                                                        *)

\* The schema transaction commits, in the WAL.
ApplyBaseline(o) ==
    /\ pc[o] = "baseline"
    /\ wal' = TRUE
    /\ Goto(o, "checkpoint")
    /\ UNCHANGED <<path, content, linked, side, marker, mode, admission, conn,
                   polls, bounds, quiet>>

\* wal_checkpoint(TRUNCATE), then verify_schema.
Checkpoint(o) ==
    /\ pc[o] = "checkpoint"
    /\ content' = [content EXCEPT ![conn[o]] = "ready"]
    /\ wal' = FALSE
    /\ Goto(o, "close")
    /\ UNCHANGED <<path, linked, side, marker, mode, admission, conn, polls, bounds, quiet>>

CloseInitializer(o) ==
    /\ pc[o] = "close"
    /\ Disconnect(o)
    /\ Goto(o, "return")
    /\ UNCHANGED <<path, linked, marker, mode, admission, polls, bounds, quiet>>

\* admit_existing binds what is there now; the marker drops with the frame.
Return(o) ==
    /\ pc[o] = "return"
    /\ marker' = None
    /\ IF current_central_identity = Refused
       THEN /\ Goto(o, "refused")
            /\ admission' = [admission EXCEPT ![o] = Unbound]
       ELSE /\ Goto(o, "opened")
            /\ admission' = [admission EXCEPT ![o] = current_central_identity]
    /\ UNCHANGED <<disk, mode, conn, polls, bounds, quiet>>

\* An SQLite call of the initializer fails: locals unwind in reverse order,
\* the connection first and the marker, in a step of its own, last.
FailInitializer(o) ==
    /\ Holding(o) /\ pc[o] \in {"open", "configure", "baseline", "checkpoint", "close"}
    /\ faults < MaxFaults
    /\ faults' = faults + 1
    /\ Disconnect(o)
    /\ Goto(o, "unwound")
    /\ quiet' = FALSE
    /\ UNCHANGED <<path, linked, marker, mode, admission, polls, kills, touches>>

Unwind(o) ==
    /\ pc[o] = "unwound"
    /\ marker' = None
    /\ Goto(o, "failed")
    /\ admission' = [admission EXCEPT ![o] = Unbound]
    /\ UNCHANGED <<disk, mode, conn, polls, bounds, quiet>>

-----------------------------------------------------------------------------
(* Database::open_existing: cold admission of a file that is there.        *)

\* Sidecars are evidence of hot state and refuse the file.
ExistingSidecars(o) ==
    /\ pc[o] = "existing"
    /\ Goto(o, IF sqlite_sidecar_entries_exist THEN "refused" ELSE "admit")
    /\ UNCHANGED <<disk, marker, mode, admission, conn, polls, bounds, quiet>>

\* ConnectionFactory::admitted.
Admit(o) ==
    /\ pc[o] = "admit"
    /\ IF current_central_identity = Refused
       THEN Goto(o, "refused") /\ UNCHANGED <<admission, mode>>
       ELSE /\ admission' = [admission EXCEPT ![o] = current_central_identity]
            /\ mode' = [mode EXCEPT ![o] = "cold"]
            /\ Goto(o, "cold")
    /\ UNCHANGED <<disk, marker, conn, polls, bounds, quiet>>

\* verify_schema on the immutable connection reads the main file alone.
Inspect(o) ==
    /\ pc[o] = "inspect"
    /\ IF verify_schema(conn[o])
       THEN Goto(o, "identity") /\ UNCHANGED <<marker, admission, conn, side, wal, content>>
       ELSE Reject(o)
    /\ UNCHANGED <<path, linked, mode, polls, bounds, quiet>>

\* The last comparison, after which the handle is returned.
FinalIdentity(o) ==
    /\ pc[o] = "identity"
    /\ IF Admits(o)
       THEN /\ Disconnect(o)
            /\ Goto(o, "opened")
            /\ UNCHANGED <<marker, admission>>
       ELSE Reject(o)
    /\ UNCHANGED <<path, linked, mode, polls, bounds, quiet>>

-----------------------------------------------------------------------------
(* Using an open database.                                                 *)

\* ConnectionFactory::connect begins with the identity check.
Connect(o) ==
    /\ pc[o] = "opened"
    /\ mode' = [mode EXCEPT ![o] = "use"]
    /\ Goto(o, "verify")
    /\ UNCHANGED <<disk, marker, admission, conn, polls, bounds, quiet>>

CloseConnection(o) ==
    /\ pc[o] = "connected"
    /\ Disconnect(o)
    /\ Goto(o, "opened")
    /\ UNCHANGED <<path, linked, marker, mode, admission, polls, bounds, quiet>>

\* The process ends, or starts over after an error.
Exit(o) ==
    /\ pc[o] \in {"opened", "refused", "timedout", "failed"}
    /\ Goto(o, "idle")
    /\ admission' = [admission EXCEPT ![o] = Unbound]
    /\ UNCHANGED <<disk, marker, mode, conn, polls, bounds, quiet>>

-----------------------------------------------------------------------------
(* Faults of the environment.                                              *)

\* The process is killed: its marker and its sidecars stay behind.
Kill(o) ==
    /\ kills < MaxKills
    /\ pc[o] \in Opening \cup {"connected"}
    /\ kills' = kills + 1
    /\ quiet' = FALSE
    /\ marker' = IF Holding(o) THEN Stale ELSE marker
    /\ Goto(o, "idle")
    /\ conn' = [conn EXCEPT ![o] = 0]
    /\ admission' = [admission EXCEPT ![o] = Unbound]
    /\ polls' = [polls EXCEPT ![o] = 0]
    /\ UNCHANGED <<disk, mode, faults, touches>>

\* The operator leaves an initializer and a configured connection alone.
Unattended ==
    /\ marker \notin Openers
    /\ \A o \in Openers : ~Configured(o) /\ pc[o] # "configure"

Touch ==
    /\ touches < MaxTouches
    /\ touches' = touches + 1
    /\ quiet' = FALSE
    /\ UNCHANGED <<process, kills, faults>>

\* Another database is moved over the path; the old file is never put back.
Replace ==
    /\ Touch /\ Unattended /\ path # 0 /\ ~side
    /\ \E i \in Inodes :
         /\ content[i] = "none" /\ \A j \in 1 .. i - 1 : content[j] # "none"
         /\ path' = i
         /\ content' = [content EXCEPT ![i] = "ready"]
    /\ linked' = FALSE
    /\ UNCHANGED <<wal, side, marker>>

\* A second name is given to the file, or taken from it.
Alias ==
    /\ Touch /\ Unattended /\ path # 0
    /\ linked' = ~linked
    /\ UNCHANGED <<path, content, wal, side, marker>>

\* Operator archive/reset: database, sidecars and marker are moved away.
Archive ==
    /\ Touch /\ Unattended
    /\ path' = 0 /\ linked' = FALSE /\ wal' = FALSE /\ side' = FALSE
    /\ marker' = None
    /\ UNCHANGED content

-----------------------------------------------------------------------------
Step(o) ==
    \/ Probe(o) \/ ProbeMarker(o) \/ TryAcquire(o) \/ Poll(o) \/ Recheck(o)
    \/ NewFactory(o) \/ verify_admitted_identity(o) \/ open_read_write(o)
    \/ ImmutableSidecars(o) \/ open_immutable_read_only(o) \/ bind_after_open(o) \/ Configure(o)
    \/ ApplyBaseline(o) \/ Checkpoint(o) \/ CloseInitializer(o) \/ Return(o)
    \/ Unwind(o)
    \/ ExistingSidecars(o) \/ Admit(o) \/ Inspect(o) \/ FinalIdentity(o)

Next ==
    \/ \E o \in Openers :
         \/ Step(o) \/ Start(o) \/ Connect(o) \/ CloseConnection(o) \/ Exit(o)
         \/ FailInitializer(o) \/ FailConnect(o) \/ Kill(o)
    \/ Replace \/ Alias \/ Archive

Spec == Init /\ [][Next]_vars

\* A process that runs goes on running; nobody has to start, use or end one.
Fairness == \A o \in Openers : WF_vars(Step(o))

FairSpec == Spec /\ Fairness

-----------------------------------------------------------------------------
(* Properties.                                                             *)

\* Every variable keeps to the values the code gives it.
TypeOK ==
    /\ path \in 0 .. MaxInodes
    /\ content \in [Inodes -> {"none", "empty", "ready"}]
    /\ linked \in BOOLEAN /\ wal \in BOOLEAN /\ side \in BOOLEAN
    /\ marker \in Openers \cup {None, Stale}
    /\ pc \in [Openers -> Opening \cup Ended \cup Serving]
    /\ mode \in [Openers -> {"init", "cold", "use"}]
    /\ admission \in [Openers -> {Unbound, Refused} \cup Inodes]
    /\ conn \in [Openers -> 0 .. MaxInodes]
    /\ polls \in [Openers -> 0 .. MaxPolls - 1]
    /\ kills \in 0 .. MaxKills /\ faults \in 0 .. MaxFaults
    /\ touches \in 0 .. MaxTouches
    /\ quiet \in BOOLEAN

\* "Never initialize twice": whoever is about to apply the baseline holds
\* the marker and writes to the file at the path, which holds no schema yet
\* and to which nobody else has a configured connection.
InitializesOnce ==
    \A o \in Openers :
      pc[o] = "baseline" =>
        /\ Holding(o) /\ conn[o] = path /\ content[path] = "empty" /\ ~wal
        /\ \A p \in Openers \ {o} : ~Configured(p)

\* A handle or a configured connection is to the file its factory admitted,
\* and the exact schema is in that main file ("the schema is always in the
\* main file: initialization checkpoints it before WAL use").
AdmittedIsReady ==
    \A o \in Openers :
      /\ pc[o] \in Serving => admission[o] \in Inodes /\ verify_schema(admission[o])
      /\ pc[o] = "connected" => conn[o] = admission[o]

\* Racing opens of a fresh path serialize: while nobody was killed, failed,
\* connected to write or intervened, no open is refused.
NoSpuriousRefusal == quiet => \A o \in Openers : pc[o] \notin {"refused", "failed"}

\* Every open ends, with a handle or with an error, even when the
\* initializer it waits for was killed.
OpenEnds == \A o \in Openers : pc[o] \in Opening ~> pc[o] \notin Opening
=============================================================================
