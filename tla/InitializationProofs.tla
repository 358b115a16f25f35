----------------------- MODULE InitializationProofs ------------------------
(***************************************************************************)
(* Proofs about Initialization, for any number of processes, files, kills, *)
(* failed calls and acts of the operator: the schema is applied once, only *)
(* a file with the exact schema is ever opened, and an open is not refused *)
(* for having raced with another.                                          *)
(***************************************************************************)
EXTENDS Initialization, TLAPS

(* The time a leaf may take on a busy machine; a leaf with arithmetic has *)
(* a second attempt.                                                      *)
USE ZenonT(60)

-----------------------------------------------------------------------------
(* The inductive invariant.                                                *)

\* The steps of a connection, for which mode says what it is for.
Connecting == {"verify", "open", "bind", "configure"}

\* Between taking the marker and releasing it.
Initializes(o) ==
    \/ pc[o] \in {"held", "checked", "baseline", "checkpoint", "close", "return", "unwound"}
    \/ pc[o] \in Connecting /\ mode[o] = "init"

\* ... and the schema is not yet in the main file.
Unfinished(o) ==
    \/ pc[o] \in {"checked", "baseline", "checkpoint"}
    \/ pc[o] \in Connecting /\ mode[o] = "init"

\* With a handle, or a connection made by one.
Uses(o) == pc[o] \in Serving \/ (pc[o] \in Connecting /\ mode[o] = "use")

\* On the way through open_existing, past Admit.
Examines(o) ==
    \/ pc[o] \in {"cold", "inspect", "identity"}
    \/ pc[o] \in Connecting /\ mode[o] = "cold"

DiskOK ==
    /\ path # 0 => content[path] # "none"
    /\ wal => side

\* The marker belongs to the process that initializes.
MarkerOK(o) == marker = o <=> Initializes(o)

ModeOK(o) ==
    /\ pc[o] \in {"cold", "inspect", "identity"} => mode[o] = "cold"
    /\ pc[o] \in {"configure", "connected"} => mode[o] # "cold"
    /\ pc[o] = "connected" => mode[o] = "use"

\* What a factory admitted is a file, with the schema once it is in use.
AdmissionOK(o) ==
    /\ admission[o] \in Inodes => content[admission[o]] # "none"
    /\ Examines(o) => admission[o] \in Inodes
    /\ Uses(o) => admission[o] \in Inodes /\ content[admission[o]] = "ready"

\* A connection past its checks is to the file at the path, or to the one
\* its factory admitted; before them a replaced file is not yet noticed.
ConnectionOK(o) ==
    /\ pc[o] = "bind" /\ path = admission[o] => conn[o] = path
    /\ pc[o] = "bind" /\ mode[o] = "init" => path # 0 /\ conn[o] = path
    /\ pc[o] \in {"inspect", "identity"} => conn[o] = admission[o]
    /\ pc[o] = "identity" => content[conn[o]] = "ready"
    /\ pc[o] = "configure" \/ Configured(o)
         => path # 0 /\ conn[o] = path /\ admission[o] = path
    /\ Configured(o) => side

\* Until the checkpoint the main file has no schema; afterwards it does.
ProgressOK(o) ==
    /\ Unfinished(o) /\ path # 0 => content[path] = "empty"
    /\ Unfinished(o) /\ pc[o] # "checkpoint" => ~wal
    /\ pc[o] \in {"close", "return"} => path # 0 /\ content[path] = "ready"

ProcessOK(o) ==
    /\ MarkerOK(o) /\ ModeOK(o) /\ AdmissionOK(o) /\ ConnectionOK(o) /\ ProgressOK(o)

InitInv ==
    /\ TypeOK
    /\ DiskOK
    /\ \A o \in Openers : ProcessOK(o)

-----------------------------------------------------------------------------
(* What a step of one process leaves alone.                                *)

\* Only the program state of o changes.
StepOf(o) ==
    \A p \in Openers \ {o} :
      /\ pc'[p] = pc[p] /\ mode'[p] = mode[p]
      /\ admission'[p] = admission[p] /\ conn'[p] = conn[p]

\* Neither the files nor, for the others, the marker changes.
Quietly(o) ==
    /\ UNCHANGED <<path, content, wal, side>>
    /\ \A p \in Openers \ {o} : marker' = p <=> marker = p

\* A step that is quiet for the others need only keep what concerns o.
LEMMA QuietStep ==
    ASSUME InitInv, NEW o \in Openers, StepOf(o), Quietly(o), TypeOK', ProcessOK(o)'
    PROVE  InitInv'
<1>1. DiskOK'
  BY DEF InitInv, DiskOK, Quietly
<1>2. ASSUME NEW p \in Openers, p # o  PROVE ProcessOK(p)'
  BY <1>2, SMTT(30), SMTT(45) DEF InitInv, StepOf, Quietly, ProcessOK, MarkerOK, ModeOK, AdmissionOK,
     ConnectionOK, ProgressOK, Initializes, Unfinished, Uses, Examines, Configured
<1> QED
  BY <1>1, <1>2 DEF InitInv

\* Outside the marker, a connection and a handle little is to be kept.
Inert == {"idle", "probe", "present", "absent", "waiting", "existing", "admit"} \cup Ended

\* ... so that a step that ends there keeps it.
LEMMA InertStep ==
    ASSUME NEW o \in Openers, pc'[o] \in Inert, marker' # o,
           admission'[o] \in Inodes => content'[admission'[o]] # "none"
    PROVE  ProcessOK(o)'
  BY DEF Inert, Ended, ProcessOK, MarkerOK, ModeOK, AdmissionOK, ConnectionOK, ProgressOK,
     Initializes, Unfinished, Uses, Examines, Configured, Connecting, Serving

\* ... and a process there does not hold the marker.
LEMMA InertIsFree ==
    ASSUME InitInv, NEW o \in Openers, pc[o] \in Inert
    PROVE  marker # o /\ (admission[o] \in Inodes => content[admission[o]] # "none")
  BY DEF InitInv, Inert, Ended, ProcessOK, MarkerOK, AdmissionOK, Initializes, Connecting

\* The same of an initializer that has not begun, or gives up.
LEMMA HolderStep ==
    ASSUME NEW o \in Openers, pc'[o] \in {"held", "unwound"}, marker' = o,
           admission'[o] \in Inodes => content'[admission'[o]] # "none"
    PROVE  ProcessOK(o)'
  BY DEF ProcessOK, MarkerOK, ModeOK, AdmissionOK, ConnectionOK, ProgressOK, Initializes,
     Unfinished, Uses, Examines, Configured, Connecting, Serving

\* ... and of a process that has the database open.
LEMMA HandleStep ==
    ASSUME NEW o \in Openers, pc'[o] = "opened", marker' # o,
           admission'[o] \in Inodes, content'[admission'[o]] = "ready"
    PROVE  ProcessOK(o)'
  BY DEF ProcessOK, MarkerOK, ModeOK, AdmissionOK, ConnectionOK, ProgressOK,
     Initializes, Unfinished, Uses, Examines, Configured, Connecting, Serving

\* An identity that is not refused is the file at the path.
LEMMA IdentityIsPath ==
    ASSUME TypeOK, current_central_identity # Refused
    PROVE  current_central_identity = path /\ path \in Inodes
  BY InitializationAssumption, SMTT(30), SMTT(45) DEF TypeOK, current_central_identity, Refused, Inodes

\* Start: a process begins to open.
LEMMA StartKeeps ==
    ASSUME InitInv, NEW o \in Openers, Start(o)
    PROVE  InitInv'
<1>1. TypeOK'
  BY InitializationAssumption DEF InitInv, TypeOK, Start, Goto, disk, process, bounds,
     Opening, Ended
<1>2. StepOf(o) /\ Quietly(o)
  BY InitializationAssumption DEF InitInv, TypeOK, Start, Goto, disk, process, bounds,
     StepOf, Quietly
<1>3. ProcessOK(o)'
  BY InertIsFree, InertStep, InitializationAssumption DEF InitInv, TypeOK, Start, Goto,
     disk, process, bounds, Inert, Ended
<1> QED
  BY <1>1, <1>2, <1>3, QuietStep

\* Probe looks at the path.
LEMMA ProbeKeeps ==
    ASSUME InitInv, NEW o \in Openers, Probe(o)
    PROVE  InitInv'
<1>1. TypeOK'
  BY InitializationAssumption DEF InitInv, TypeOK, Probe, Goto, disk, process, bounds,
     Opening, Ended
<1>2. StepOf(o) /\ Quietly(o)
  BY InitializationAssumption DEF InitInv, TypeOK, Probe, Goto, disk, process, bounds,
     StepOf, Quietly
<1>3. ProcessOK(o)'
  BY InertIsFree, InertStep, InitializationAssumption DEF InitInv, TypeOK, Probe, Goto,
     disk, process, bounds, Inert, Ended
<1> QED
  BY <1>1, <1>2, <1>3, QuietStep

\* ProbeMarker looks at the marker.
LEMMA ProbeMarkerKeeps ==
    ASSUME InitInv, NEW o \in Openers, ProbeMarker(o)
    PROVE  InitInv'
<1>1. TypeOK'
  BY InitializationAssumption DEF InitInv, TypeOK, ProbeMarker, Goto, disk, process,
     bounds, Opening, Ended
<1>2. StepOf(o) /\ Quietly(o)
  BY InitializationAssumption DEF InitInv, TypeOK, ProbeMarker, Goto, disk, process,
     bounds, StepOf, Quietly
<1>3. ProcessOK(o)'
  BY InertIsFree, InertStep, InitializationAssumption DEF InitInv, TypeOK, ProbeMarker,
     Goto, disk, process, bounds, Inert, Ended
<1> QED
  BY <1>1, <1>2, <1>3, QuietStep

\* Poll looks at the marker again, or gives up.
LEMMA PollKeeps ==
    ASSUME InitInv, NEW o \in Openers, Poll(o)
    PROVE  InitInv'
<1>1. TypeOK'
  BY InitializationAssumption, SMTT(30), SMTT(45) DEF InitInv, TypeOK, Poll, Goto, disk, process, bounds,
     Opening, Ended
<1>2. StepOf(o) /\ Quietly(o)
  BY InitializationAssumption DEF InitInv, TypeOK, Poll, Goto, disk, process, bounds,
     StepOf, Quietly
<1>3. ProcessOK(o)'
  BY InertIsFree, InertStep, InitializationAssumption DEF InitInv, TypeOK, Poll, Goto,
     disk, process, bounds, Inert, Ended
<1> QED
  BY <1>1, <1>2, <1>3, QuietStep

\* ExistingSidecars refuses a hot file.
LEMMA ExistingSidecarsKeeps ==
    ASSUME InitInv, NEW o \in Openers, ExistingSidecars(o)
    PROVE  InitInv'
<1>1. TypeOK'
  BY InitializationAssumption DEF InitInv, TypeOK, ExistingSidecars, Goto, disk, process,
     bounds, sqlite_sidecar_entries_exist, Opening, Ended
<1>2. StepOf(o) /\ Quietly(o)
  BY InitializationAssumption DEF InitInv, TypeOK, ExistingSidecars, Goto, disk, process,
     bounds, sqlite_sidecar_entries_exist, StepOf, Quietly
<1>3. ProcessOK(o)'
  BY InertIsFree, InertStep, InitializationAssumption DEF InitInv, TypeOK,
     ExistingSidecars, Goto, disk, process, bounds, sqlite_sidecar_entries_exist, Inert,
     Ended
<1> QED
  BY <1>1, <1>2, <1>3, QuietStep

\* Exit drops the handle.
LEMMA ExitKeeps ==
    ASSUME InitInv, NEW o \in Openers, Exit(o)
    PROVE  InitInv'
<1>1. TypeOK'
  BY InitializationAssumption DEF InitInv, TypeOK, Exit, Goto, disk, process, bounds,
     Opening, Ended, Serving, Inodes, Unbound
<1>2. StepOf(o) /\ Quietly(o)
  BY InitializationAssumption DEF InitInv, TypeOK, Exit, Goto, disk, process, bounds,
     StepOf, Quietly
<1>3. ProcessOK(o)'
  <2>1. marker # o
    BY InitializationAssumption DEF InitInv, TypeOK, Exit, Goto, disk, process, bounds,
       ProcessOK, MarkerOK, Initializes, Connecting
  <2> QED
    BY <2>1, InertStep, SMTT(30), SMTT(45) DEF InitInv, TypeOK, Exit, Goto, Inert, Ended, Inodes, Unbound
<1> QED
  BY <1>1, <1>2, <1>3, QuietStep

\* Unwind releases the marker.
LEMMA UnwindKeeps ==
    ASSUME InitInv, NEW o \in Openers, Unwind(o)
    PROVE  InitInv'
<1>1. TypeOK'
  BY InitializationAssumption DEF InitInv, TypeOK, Unwind, Goto, disk, process, bounds,
     Opening, Ended, Inodes, Unbound
<1>2. StepOf(o) /\ Quietly(o)
  BY InitializationAssumption DEF InitInv, TypeOK, Unwind, Goto, disk, process, bounds,
     StepOf, Quietly, ProcessOK, MarkerOK, Initializes
<1>3. ProcessOK(o)'
  BY InertStep, InitializationAssumption, SMTT(30), SMTT(45) DEF InitInv, TypeOK, Unwind, Goto, disk, process,
     bounds, Inert, Ended, Inodes, Unbound
<1> QED
  BY <1>1, <1>2, <1>3, QuietStep

\* TryAcquire takes a marker that nobody holds.
LEMMA TryAcquireKeeps ==
    ASSUME InitInv, NEW o \in Openers, TryAcquire(o)
    PROVE  InitInv'
<1>1. TypeOK'
  BY InitializationAssumption DEF InitInv, TypeOK, TryAcquire, Goto, disk, process,
     bounds, Opening, Ended, Serving, Inodes, Unbound, Refused
<1>2. StepOf(o) /\ Quietly(o)
  BY InitializationAssumption DEF InitInv, TypeOK, TryAcquire, Goto, disk, process,
     bounds, StepOf, Quietly, ProcessOK, MarkerOK, Initializes
<1>3. ProcessOK(o)'
  BY InitializationAssumption, SMTT(30), SMTT(45) DEF InitInv, TypeOK, TryAcquire, Goto, disk, process,
     bounds, ProcessOK, MarkerOK, ModeOK, AdmissionOK, ConnectionOK, ProgressOK, Initializes,
     Unfinished, Uses, Examines, Configured, Connecting, Serving, DiskOK, Inodes, Unbound,
     Refused
<1> QED
  BY <1>1, <1>2, <1>3, QuietStep

\* Recheck goes on only when there is neither a file nor a sidecar.
LEMMA RecheckKeeps ==
    ASSUME InitInv, NEW o \in Openers, Recheck(o)
    PROVE  InitInv'
<1>1. TypeOK'
  BY InitializationAssumption DEF InitInv, TypeOK, Recheck, Goto, disk, process, bounds,
     sqlite_sidecar_entries_exist, Opening, Ended, Serving, Inodes, Unbound, Refused
<1>2. StepOf(o) /\ Quietly(o)
  BY InitializationAssumption DEF InitInv, TypeOK, Recheck, Goto, disk, process, bounds,
     sqlite_sidecar_entries_exist, StepOf, Quietly, ProcessOK, MarkerOK, Initializes
<1>3. ProcessOK(o)'
  BY InitializationAssumption, SMTT(30), SMTT(45) DEF InitInv, TypeOK, Recheck, Goto, disk, process, bounds,
     sqlite_sidecar_entries_exist, ProcessOK, MarkerOK, ModeOK, AdmissionOK, ConnectionOK,
     ProgressOK, Initializes, Unfinished, Uses, Examines, Configured, Connecting, Serving,
     DiskOK, Inodes, Unbound, Refused
<1> QED
  BY <1>1, <1>2, <1>3, QuietStep

\* NewFactory admits what another connection may have created meanwhile.
LEMMA NewFactoryKeeps ==
    ASSUME InitInv, NEW o \in Openers, NewFactory(o)
    PROVE  InitInv'
<1>1. TypeOK'
  BY InitializationAssumption, SMTT(30), SMTT(45) DEF InitInv, TypeOK, NewFactory, Goto, disk, process,
     bounds, current_central_identity, Opening, Ended, Serving, Inodes, Unbound, Refused
<1>2. StepOf(o) /\ Quietly(o)
  BY InitializationAssumption DEF InitInv, TypeOK, NewFactory, Goto, disk, process,
     bounds, current_central_identity, StepOf, Quietly, ProcessOK, MarkerOK, Initializes
<1>3. ProcessOK(o)'
  BY InitializationAssumption, SMTT(30), SMTT(45) DEF InitInv, TypeOK, NewFactory, Goto, disk, process,
     bounds, current_central_identity, ProcessOK, MarkerOK, ModeOK, AdmissionOK,
     ConnectionOK, ProgressOK, Initializes, Unfinished, Uses, Examines, Configured,
     Connecting, Serving, DiskOK, Inodes, Unbound, Refused
<1> QED
  BY <1>1, <1>2, <1>3, QuietStep

\* Return admits the file that was just checkpointed.
LEMMA ReturnKeeps ==
    ASSUME InitInv, NEW o \in Openers, Return(o)
    PROVE  InitInv'
<1>1. StepOf(o) /\ Quietly(o)
  BY InitializationAssumption DEF InitInv, TypeOK, Return, Goto, disk, process, bounds,
     StepOf, Quietly, ProcessOK, MarkerOK, Initializes
<1>2. CASE current_central_identity = Refused
  <2>1. TypeOK'
    BY <1>2, InitializationAssumption DEF InitInv, TypeOK, Return, Goto, disk, process,
       bounds, Ended, Unbound
  <2>2. marker' # o /\ pc'[o] = "refused" /\ admission'[o] \notin Inodes
    BY <1>2, InitializationAssumption, SMTT(30), SMTT(45) DEF InitInv, TypeOK, Return, Goto, disk, process,
       bounds, Inodes, Unbound
  <2>3. ProcessOK(o)'
    BY <2>2, InertStep, InitializationAssumption DEF InitInv, TypeOK, Return, Goto, disk,
       process, bounds, Inert, Ended
  <2> QED
    BY <2>1, <2>3, <1>1, QuietStep
<1>3. CASE current_central_identity # Refused
  <2>1. current_central_identity = path /\ path \in Inodes
    BY <1>3, IdentityIsPath, InitializationAssumption DEF InitInv, TypeOK, Return, Goto,
       disk, process, bounds
  <2>2. TypeOK'
    BY <1>3, <2>1, InitializationAssumption DEF InitInv, TypeOK, Return, Goto, disk,
       process, bounds, Serving
  <2>3. ProcessOK(o)'
    BY <1>3, <2>1, InitializationAssumption, SMTT(30), SMTT(45) DEF InitInv, TypeOK, Return, Goto, disk,
       process, bounds, ProcessOK, MarkerOK, ModeOK, AdmissionOK, ConnectionOK, ProgressOK,
       Initializes, Unfinished, Uses, Examines, Configured, Connecting, Serving
  <2> QED
    BY <2>2, <2>3, <1>1, QuietStep
<1> QED
  BY <1>2, <1>3

\* Admit binds the file at the path.
LEMMA AdmitKeeps ==
    ASSUME InitInv, NEW o \in Openers, Admit(o)
    PROVE  InitInv'
<1>1. marker # o
  BY InertIsFree, InitializationAssumption DEF InitInv, TypeOK, Admit, Goto, disk,
     process, bounds, Inert
<1>2. StepOf(o) /\ Quietly(o)
  BY InitializationAssumption DEF InitInv, TypeOK, Admit, Goto, disk, process, bounds,
     StepOf, Quietly
<1>3. CASE current_central_identity = Refused
  <2>1. TypeOK'
    BY <1>3, InitializationAssumption DEF InitInv, TypeOK, Admit, Goto, disk, process,
       bounds, Ended
  <2>2. ProcessOK(o)'
    BY <1>3, InertIsFree, InertStep, InitializationAssumption DEF InitInv, TypeOK, Admit,
       Goto, disk, process, bounds, Inert, Ended
  <2> QED
    BY <2>1, <2>2, <1>2, QuietStep
<1>4. CASE current_central_identity # Refused
  <2>1. current_central_identity = path /\ path \in Inodes
    BY <1>4, IdentityIsPath, InitializationAssumption DEF InitInv, TypeOK, Admit, Goto,
       disk, process, bounds
  <2>2. TypeOK'
    BY <1>4, <2>1, InitializationAssumption, SMTT(30), SMTT(45) DEF InitInv, TypeOK, Admit, Goto, disk,
       process, bounds, Opening
  <2>3. ProcessOK(o)'
    BY <1>1, <1>4, <2>1, InitializationAssumption, SMTT(30), SMTT(45) DEF InitInv, TypeOK, Admit, Goto, disk,
       process, bounds, ProcessOK, MarkerOK, ModeOK, AdmissionOK, ConnectionOK, ProgressOK,
       Initializes, Unfinished, Uses, Examines, Configured, Connecting, Serving, DiskOK,
       Inodes
  <2> QED
    BY <2>2, <2>3, <1>2, QuietStep
<1> QED
  BY <1>3, <1>4

\* Connect goes through the checks again.
LEMMA ConnectKeeps ==
    ASSUME InitInv, NEW o \in Openers, Connect(o)
    PROVE  InitInv'
<1>1. TypeOK'
  BY InitializationAssumption DEF InitInv, TypeOK, Connect, Goto, disk, process, bounds,
     Opening
<1>2. StepOf(o) /\ Quietly(o)
  BY InitializationAssumption DEF InitInv, TypeOK, Connect, Goto, disk, process, bounds,
     StepOf, Quietly
<1>3. /\ marker # o
      /\ admission[o] \in Inodes /\ content[admission[o]] = "ready"
  BY InitializationAssumption DEF InitInv, TypeOK, Connect, Goto, disk, process, bounds,
     ProcessOK, MarkerOK, AdmissionOK, Initializes, Connecting, Uses, Serving
<1>4. ProcessOK(o)'
  BY <1>3, InitializationAssumption, SMTT(30), SMTT(45) DEF InitInv, TypeOK, Connect, Goto, disk, process,
     bounds, ProcessOK, MarkerOK, ModeOK, AdmissionOK, ConnectionOK, ProgressOK, Initializes,
     Unfinished, Uses, Examines, Configured, Connecting, Serving
<1> QED
  BY <1>1, <1>2, <1>4, QuietStep

-----------------------------------------------------------------------------
(* The checks of a connection.                                             *)

\* Before a connection is configured its close leaves the files alone.
LEMMA CloseUnconfigured ==
    ASSUME NEW o \in Openers, ~Configured(o), Disconnect(o)
    PROVE  conn' = [conn EXCEPT ![o] = 0] /\ UNCHANGED <<side, wal, content>>
  BY DEF Disconnect

\* The steps at which a check may fail.
Checking == {"verify", "cold", "open", "bind", "inspect", "identity", "configure"}

\* A rejected initializer gives up the marker, a rejected user keeps the
\* handle.
LEMMA RejectKeeps ==
    ASSUME InitInv, NEW o \in Openers, pc[o] \in Checking, Reject(o),
           UNCHANGED <<path, linked, mode, polls, kills, touches>>,
           faults' \in 0 .. MaxFaults, quiet' \in BOOLEAN
    PROVE  InitInv'
<1>1. conn' = [conn EXCEPT ![o] = 0] /\ UNCHANGED <<side, wal, content>>
  BY CloseUnconfigured, InitializationAssumption DEF InitInv, TypeOK, Reject, Goto,
     Checking, Configured
<1>2. TypeOK'
  BY <1>1, InitializationAssumption, SMTT(30), SMTT(45) DEF InitInv, TypeOK, Reject, Goto, Ended, Serving,
     Unbound, Holding
<1>3. StepOf(o) /\ Quietly(o)
  BY <1>1, InitializationAssumption DEF InitInv, TypeOK, Reject, Goto, StepOf, Quietly,
     Holding
<1>4. marker' # o
  BY InitializationAssumption DEF InitInv, TypeOK, Reject, Goto, Holding
<1>5. CASE mode[o] = "use"
  <2>1. admission[o] \in Inodes /\ content[admission[o]] = "ready"
    BY <1>5, InitializationAssumption DEF InitInv, TypeOK, Reject, Goto, ProcessOK,
       AdmissionOK, ModeOK, Uses, Connecting, Checking
  <2>2. ProcessOK(o)'
    BY <1>1, <1>4, <1>5, <2>1, InitializationAssumption, SMTT(30), SMTT(45) DEF InitInv, TypeOK, Reject, Goto,
       ProcessOK, MarkerOK, ModeOK, AdmissionOK, ConnectionOK, ProgressOK, Initializes,
       Unfinished, Uses, Examines, Configured, Connecting, Serving
  <2> QED
    BY <1>2, <1>3, <2>2, QuietStep
<1>6. CASE mode[o] # "use"
  <2>1. ProcessOK(o)'
    BY <1>4, <1>6, InertStep, InitializationAssumption, SMTT(30), SMTT(45) DEF InitInv, TypeOK, Reject, Goto,
       Inert, Ended, Inodes, Unbound
  <2> QED
    BY <1>2, <1>3, <2>1, QuietStep
<1> QED
  BY <1>5, <1>6

\* The first comparison of a connection.
LEMMA verify_admitted_identityKeeps ==
    ASSUME InitInv, NEW o \in Openers, verify_admitted_identity(o)
    PROVE  InitInv'
<1>1. CASE ~(Admits(o))
  BY <1>1, RejectKeeps, InitializationAssumption DEF InitInv, TypeOK,
     verify_admitted_identity, Goto, bounds, Checking
<1>2. CASE Admits(o)
  <2>1. TypeOK'
    BY <1>2, InitializationAssumption DEF InitInv, TypeOK, verify_admitted_identity, Goto,
       bounds, Opening
  <2>2. StepOf(o) /\ Quietly(o)
    BY <1>2, InitializationAssumption DEF InitInv, TypeOK, verify_admitted_identity, Goto,
       bounds, StepOf, Quietly
  <2>3. ProcessOK(o)'
    BY <1>2, InitializationAssumption, SMTT(30), SMTT(45) DEF InitInv, TypeOK, verify_admitted_identity, Goto,
       bounds, ProcessOK, MarkerOK, ModeOK, AdmissionOK, ConnectionOK, ProgressOK,
       Initializes, Unfinished, Uses, Examines, Configured, Connecting, Serving
  <2> QED
    BY <2>1, <2>2, <2>3, QuietStep
<1> QED
  BY <1>1, <1>2

\* The second look for sidecars.
LEMMA ImmutableSidecarsKeeps ==
    ASSUME InitInv, NEW o \in Openers, ImmutableSidecars(o)
    PROVE  InitInv'
<1>1. CASE ~(~side)
  BY <1>1, RejectKeeps, InitializationAssumption DEF InitInv, TypeOK, ImmutableSidecars,
     Goto, bounds, sqlite_sidecar_entries_exist, Checking
<1>2. CASE ~side
  <2>1. TypeOK'
    BY <1>2, InitializationAssumption DEF InitInv, TypeOK, ImmutableSidecars, Goto,
       bounds, sqlite_sidecar_entries_exist, Opening
  <2>2. StepOf(o) /\ Quietly(o)
    BY <1>2, InitializationAssumption DEF InitInv, TypeOK, ImmutableSidecars, Goto,
       bounds, sqlite_sidecar_entries_exist, StepOf, Quietly
  <2>3. ProcessOK(o)'
    BY <1>2, InitializationAssumption, SMTT(30), SMTT(45) DEF InitInv, TypeOK, ImmutableSidecars, Goto,
       bounds, sqlite_sidecar_entries_exist, ProcessOK, MarkerOK, ModeOK, AdmissionOK,
       ConnectionOK, ProgressOK, Initializes, Unfinished, Uses, Examines, Configured,
       Connecting, Serving
  <2> QED
    BY <2>1, <2>2, <2>3, QuietStep
<1> QED
  BY <1>1, <1>2

\* A cold open creates nothing.
LEMMA open_immutable_read_onlyKeeps ==
    ASSUME InitInv, NEW o \in Openers, open_immutable_read_only(o)
    PROVE  InitInv'
<1>1. CASE ~(path # 0)
  BY <1>1, RejectKeeps, InitializationAssumption DEF InitInv, TypeOK,
     open_immutable_read_only, Goto, bounds, Checking
<1>2. CASE path # 0
  <2>1. TypeOK'
    BY <1>2, InitializationAssumption, SMTT(30), SMTT(45) DEF InitInv, TypeOK, open_immutable_read_only, Goto,
       bounds, Opening
  <2>2. StepOf(o) /\ Quietly(o)
    BY <1>2, InitializationAssumption DEF InitInv, TypeOK, open_immutable_read_only, Goto,
       bounds, StepOf, Quietly
  <2>3. ProcessOK(o)'
    BY <1>2, InitializationAssumption, SMTT(30), SMTT(45) DEF InitInv, TypeOK, open_immutable_read_only, Goto,
       bounds, ProcessOK, MarkerOK, ModeOK, AdmissionOK, ConnectionOK, ProgressOK,
       Initializes, Unfinished, Uses, Examines, Configured, Connecting, Serving
  <2> QED
    BY <2>1, <2>2, <2>3, QuietStep
<1> QED
  BY <1>1, <1>2

\* The second comparison: the file that was opened is the one admitted.
LEMMA bind_after_openKeeps ==
    ASSUME InitInv, NEW o \in Openers, bind_after_open(o)
    PROVE  InitInv'
<1>1. CASE ~(current_central_identity # Refused /\ Admits(o))
  BY <1>1, RejectKeeps, InitializationAssumption DEF InitInv, TypeOK, bind_after_open,
     Goto, bounds, Checking
<1>2. CASE current_central_identity # Refused /\ Admits(o)
  <2>1. current_central_identity = path /\ path \in Inodes
    BY <1>2, IdentityIsPath, InitializationAssumption DEF InitInv, TypeOK,
       bind_after_open, Goto, bounds
  <2>2. conn[o] = path /\ (mode[o] # "init" => admission[o] = path)
    BY <1>2, <2>1, InitializationAssumption, SMTT(30), SMTT(45) DEF InitInv, TypeOK, bind_after_open, Goto,
       bounds, Admits, Unbound, Inodes, ProcessOK, AdmissionOK, ConnectionOK, Uses, Examines,
       Connecting
  <2>3. TypeOK'
    BY <1>2, <2>1, InitializationAssumption, SMTT(30), SMTT(45) DEF InitInv, TypeOK, bind_after_open, Goto,
       bounds, Opening
  <2>4. StepOf(o) /\ Quietly(o)
    BY <1>2, InitializationAssumption DEF InitInv, TypeOK, bind_after_open, Goto, bounds,
       StepOf, Quietly
  <2>5. ProcessOK(o)'
    BY <1>2, <2>1, <2>2, InitializationAssumption, SMTT(30), SMTT(45) DEF InitInv, TypeOK, bind_after_open,
       Goto, bounds, ProcessOK, MarkerOK, ModeOK, AdmissionOK, ConnectionOK, ProgressOK,
       Initializes, Unfinished, Uses, Examines, Configured, Connecting, Serving, DiskOK,
       Inodes
  <2> QED
    BY <2>3, <2>4, <2>5, QuietStep
<1> QED
  BY <1>1, <1>2

\* The schema is read from the file that was opened.
LEMMA InspectKeeps ==
    ASSUME InitInv, NEW o \in Openers, Inspect(o)
    PROVE  InitInv'
<1>1. CASE ~(verify_schema(conn[o]))
  BY <1>1, RejectKeeps, InitializationAssumption DEF InitInv, TypeOK, Inspect, Goto,
     bounds, Checking
<1>2. CASE verify_schema(conn[o])
  <2>1. TypeOK'
    BY <1>2, InitializationAssumption DEF InitInv, TypeOK, Inspect, Goto, bounds, Opening
  <2>2. StepOf(o) /\ Quietly(o)
    BY <1>2, InitializationAssumption DEF InitInv, TypeOK, Inspect, Goto, bounds, StepOf,
       Quietly
  <2>3. ProcessOK(o)'
    BY <1>2, InitializationAssumption, SMTT(30), SMTT(45) DEF InitInv, TypeOK, Inspect, Goto, bounds,
       ProcessOK, MarkerOK, ModeOK, AdmissionOK, ConnectionOK, ProgressOK, Initializes,
       Unfinished, Uses, Examines, Configured, Connecting, Serving, verify_schema
  <2> QED
    BY <2>1, <2>2, <2>3, QuietStep
<1> QED
  BY <1>1, <1>2

\* The last comparison returns the handle.
LEMMA FinalIdentityKeeps ==
    ASSUME InitInv, NEW o \in Openers, FinalIdentity(o)
    PROVE  InitInv'
<1>1. CASE ~(Admits(o))
  BY <1>1, RejectKeeps, InitializationAssumption DEF InitInv, TypeOK, FinalIdentity, Goto,
     bounds, Checking
<1>2. CASE Admits(o)
  <2>1. conn' = [conn EXCEPT ![o] = 0] /\ UNCHANGED <<side, wal, content>>
    BY <1>2, CloseUnconfigured, InitializationAssumption DEF InitInv, TypeOK,
       FinalIdentity, Goto, bounds, Configured
  <2>2. TypeOK'
    BY <1>2, <2>1, InitializationAssumption, SMTT(30), SMTT(45) DEF InitInv, TypeOK, FinalIdentity, Goto,
       bounds, Serving
  <2>3. StepOf(o) /\ Quietly(o)
    BY <1>2, <2>1, InitializationAssumption DEF InitInv, TypeOK, FinalIdentity, Goto,
       bounds, StepOf, Quietly
  <2>4. ProcessOK(o)'
    BY <1>2, <2>1, InitializationAssumption, SMTT(30), SMTT(45) DEF InitInv, TypeOK, FinalIdentity, Goto,
       bounds, ProcessOK, MarkerOK, ModeOK, AdmissionOK, ConnectionOK, ProgressOK,
       Initializes, Unfinished, Uses, Examines, Configured, Connecting, Serving
  <2> QED
    BY <2>2, <2>3, <2>4, QuietStep
<1> QED
  BY <1>1, <1>2

\* A connection that cannot be configured.
LEMMA FailConnectKeeps ==
    ASSUME InitInv, NEW o \in Openers, FailConnect(o)
    PROVE  InitInv'
<1>1. faults' \in 0 .. MaxFaults
  BY InitializationAssumption, SMTT(30), SMTT(45) DEF InitInv, TypeOK, FailConnect
<1> QED
  BY <1>1, RejectKeeps DEF FailConnect, Checking

-----------------------------------------------------------------------------
(* Steps that change the files.                                            *)

\* SQLite creates the file: no inode that was there before is at the path,
\* so no connection and no factory has to do with it.
LEMMA open_read_writeKeeps ==
    ASSUME InitInv, NEW o \in Openers, open_read_write(o)
    PROVE  InitInv'
<1>1. CASE path # 0
  <2>1. /\ path \in Inodes /\ conn' = [conn EXCEPT ![o] = path]
        /\ UNCHANGED <<path, content, linked>>
    BY <1>1, InitializationAssumption DEF InitInv, TypeOK, open_read_write, Goto, bounds,
       Inodes
  <2>2. TypeOK'
    BY <2>1, InitializationAssumption DEF InitInv, TypeOK, open_read_write, Goto, bounds,
       Opening
  <2>3. StepOf(o) /\ Quietly(o)
    BY <2>1, InitializationAssumption DEF InitInv, TypeOK, open_read_write, Goto, bounds,
       StepOf, Quietly
  <2>4. ProcessOK(o)'
    BY <1>1, <2>1, InitializationAssumption, SMTT(30), SMTT(45) DEF InitInv, TypeOK, open_read_write, Goto,
       bounds, ProcessOK, MarkerOK, ModeOK, AdmissionOK, ConnectionOK, ProgressOK,
       Initializes, Unfinished, Uses, Examines, Configured, Connecting, Serving
  <2> QED
    BY <2>2, <2>3, <2>4, QuietStep
<1>2. CASE path = 0
  <2>1. PICK i \in Inodes : /\ content[i] = "none" /\ path' = i /\ linked' = FALSE
                            /\ content' = [content EXCEPT ![i] = "empty"]
                            /\ conn' = [conn EXCEPT ![o] = i]
    BY <1>2, InitializationAssumption DEF InitInv, TypeOK, open_read_write, Goto, bounds
  <2>2. i \in 0 .. MaxInodes
    BY InitializationAssumption, SMTT(30), SMTT(45) DEF InitInv, TypeOK, open_read_write, Goto, bounds, Inodes
  <2>3. TypeOK'
    BY <2>1, <2>2, InitializationAssumption DEF InitInv, TypeOK, open_read_write, Goto,
       bounds, Opening
  <2>4. DiskOK'
    BY <2>1, InitializationAssumption DEF InitInv, TypeOK, open_read_write, Goto, bounds,
       DiskOK, Inodes
  <2>5. ProcessOK(o)'
    BY <1>2, <2>1, InitializationAssumption, SMTT(30), SMTT(45) DEF InitInv, TypeOK, open_read_write, Goto,
       bounds, ProcessOK, MarkerOK, ModeOK, AdmissionOK, ConnectionOK, ProgressOK,
       Initializes, Unfinished, Uses, Examines, Configured, Connecting, Serving, Inodes
  <2>6. ASSUME NEW p \in Openers, p # o  PROVE ProcessOK(p)'
    BY <1>2, <2>1, <2>6, InitializationAssumption, SMTT(30), SMTT(45) DEF InitInv, TypeOK, open_read_write,
       Goto, bounds, ProcessOK, MarkerOK, ModeOK, AdmissionOK, ConnectionOK, ProgressOK,
       Initializes, Unfinished, Uses, Examines, Configured, Connecting, Serving, Inodes
  <2> QED
    BY <2>3, <2>4, <2>5, <2>6 DEF InitInv
<1> QED
  BY <1>1, <1>2

\* Sidecars appear; nobody else has to do with them before the checkpoint.
LEMMA ConfigureKeeps ==
    ASSUME InitInv, NEW o \in Openers, Configure(o)
    PROVE  InitInv'
<1>1. TypeOK'
  BY InitializationAssumption DEF InitInv, TypeOK, Configure, Goto, bounds, Opening,
     Serving
<1>2. DiskOK'
  BY InitializationAssumption DEF InitInv, TypeOK, Configure, Goto, bounds, DiskOK
<1>3. ProcessOK(o)'
  BY InitializationAssumption, SMTT(30), SMTT(45) DEF InitInv, TypeOK, Configure, Goto, bounds, ProcessOK,
     MarkerOK, ModeOK, AdmissionOK, ConnectionOK, ProgressOK, Initializes, Unfinished, Uses,
     Examines, Configured, Connecting, Serving
<1>4. ASSUME NEW p \in Openers, p # o  PROVE ProcessOK(p)'
  BY <1>4, InitializationAssumption, SMTT(30), SMTT(45) DEF InitInv, TypeOK, Configure, Goto, bounds,
     ProcessOK, MarkerOK, ModeOK, AdmissionOK, ConnectionOK, ProgressOK, Initializes,
     Unfinished, Uses, Examines, Configured, Connecting, Serving
<1> QED
  BY <1>1, <1>2, <1>3, <1>4 DEF InitInv

\* One process initializes at a time.
LEMMA OneInitializer ==
    ASSUME InitInv, NEW o \in Openers, NEW p \in Openers, Initializes(o), Initializes(p)
    PROVE  p = o
  BY DEF InitInv, ProcessOK, MarkerOK

\* The schema is in the WAL, of the one initializer.
LEMMA ApplyBaselineKeeps ==
    ASSUME InitInv, NEW o \in Openers, ApplyBaseline(o)
    PROVE  InitInv'
<1>1. TypeOK'
  BY InitializationAssumption DEF InitInv, TypeOK, ApplyBaseline, Goto, bounds, Opening
<1>2. DiskOK'
  BY InitializationAssumption DEF InitInv, TypeOK, ApplyBaseline, Goto, bounds, DiskOK,
     ProcessOK, ConnectionOK, Configured
<1>3. ProcessOK(o)'
  BY InitializationAssumption, SMTT(30), SMTT(45) DEF InitInv, TypeOK, ApplyBaseline, Goto, bounds, ProcessOK,
     MarkerOK, ModeOK, AdmissionOK, ConnectionOK, ProgressOK, Initializes, Unfinished, Uses,
     Examines, Configured, Connecting, Serving
<1>4. ASSUME NEW p \in Openers, p # o  PROVE ProcessOK(p)'
  <2>1. ~Initializes(p)
    BY <1>4, OneInitializer, InitializationAssumption DEF InitInv, TypeOK, ApplyBaseline,
       Goto, bounds, Initializes
  <2> QED
    BY <1>4, <2>1, SMTT(30), SMTT(45) DEF InitInv, TypeOK, ApplyBaseline, Goto, ProcessOK, MarkerOK,
       ModeOK, AdmissionOK, ConnectionOK, ProgressOK,
       Initializes, Unfinished, Uses, Examines, Configured, Connecting, Serving
<1> QED
  BY <1>1, <1>2, <1>3, <1>4 DEF InitInv

\* The schema is in the main file.
LEMMA CheckpointKeeps ==
    ASSUME InitInv, NEW o \in Openers, Checkpoint(o)
    PROVE  InitInv'
<1>1. conn[o] = path /\ path \in Inodes
  BY InitializationAssumption, SMTT(30), SMTT(45) DEF InitInv, TypeOK, Checkpoint, Goto, bounds, ProcessOK,
     ConnectionOK, Configured, Inodes
<1>2. TypeOK'
  BY <1>1, InitializationAssumption DEF InitInv, TypeOK, Checkpoint, Goto, bounds, Opening
<1>3. DiskOK'
  BY <1>1, InitializationAssumption DEF InitInv, TypeOK, Checkpoint, Goto, bounds, DiskOK
<1>4. ProcessOK(o)'
  BY <1>1, InitializationAssumption DEF InitInv, TypeOK, Checkpoint, Goto, bounds,
     ProcessOK, MarkerOK, ModeOK, AdmissionOK, ConnectionOK, ProgressOK, Initializes,
     Unfinished, Uses, Examines, Configured, Connecting, Serving
<1>5. ASSUME NEW p \in Openers, p # o  PROVE ProcessOK(p)'
  <2>1. ~Initializes(p)
    BY <1>5, OneInitializer, InitializationAssumption DEF InitInv, TypeOK, Checkpoint,
       Goto, bounds, Initializes
  <2> QED
    BY <1>1, <1>5, <2>1, SMTT(30), SMTT(45) DEF InitInv, TypeOK, Checkpoint, Goto, ProcessOK, MarkerOK,
       ModeOK, AdmissionOK, ConnectionOK,
       ProgressOK, Initializes, Unfinished, Uses, Examines, Configured, Connecting, Serving
<1> QED
  BY <1>2, <1>3, <1>4, <1>5 DEF InitInv

\* The last connection to close moves the WAL into the main file, which no
\* initializer is then at work on.
LEMMA CloseConfigured ==
    ASSUME InitInv, NEW o \in Openers, Configured(o), Disconnect(o)
    PROVE  /\ conn' = [conn EXCEPT ![o] = 0]
           /\ content' \in [Inodes -> {"none", "empty", "ready"}]
           /\ wal' \in BOOLEAN /\ side' \in BOOLEAN
           /\ wal' => wal /\ side'
           /\ \A i \in Inodes : content'[i] # content[i] => content'[i] = "ready"
           /\ \A p \in Openers \ {o} : Configured(p) => side'
           /\ \A p \in Openers \ {o} : Unfinished(p) => content' = content
<1>1. conn[o] \in Inodes
  BY InitializationAssumption, SMTT(30), SMTT(45) DEF InitInv, TypeOK, Disconnect, ProcessOK, ConnectionOK,
     Inodes
<1>2. CASE \A p \in Openers \ {o} : ~Configured(p)
  <2>1. ASSUME NEW p \in Openers \ {o}, Unfinished(p)  PROVE content' = content
    BY <1>2, <2>1, InitializationAssumption DEF InitInv, TypeOK, Disconnect, ProcessOK,
       ProgressOK, Configured
  <2> QED
    BY <1>1, <1>2, <2>1 DEF InitInv, TypeOK, Disconnect
<1>3. CASE ~\A p \in Openers \ {o} : ~Configured(p)
  BY <1>3, InitializationAssumption DEF InitInv, TypeOK, Disconnect, DiskOK, ProcessOK,
     ConnectionOK
<1> QED
  BY <1>2, <1>3

\* What the close of one connection leaves to the other processes.
LEMMA CloseKeepsOthers ==
    ASSUME InitInv, NEW o \in Openers, Configured(o), Disconnect(o), StepOf(o),
           UNCHANGED <<path, marker>>, NEW p \in Openers, p # o
    PROVE  ProcessOK(p)'
<1>1. ProcessOK(p)
  BY DEF InitInv
<1>2. /\ pc'[p] = pc[p] /\ mode'[p] = mode[p]
      /\ admission'[p] = admission[p] /\ conn'[p] = conn[p]
  BY DEF StepOf
<1>3. /\ wal' => wal
      /\ \A i \in Inodes : content[i] = "ready" => content'[i] = "ready"
      /\ \A i \in Inodes : content[i] # "none" => content'[i] # "none"
      /\ Configured(p) => side'
      /\ Unfinished(p) => content' = content
  BY CloseConfigured
<1>4. /\ path # 0 => path \in Inodes
      /\ pc[p] \in {"inspect", "identity"} => conn[p] \in Inodes
  BY <1>1, SMTT(30), SMTT(45) DEF InitInv, TypeOK, ProcessOK, ConnectionOK, AdmissionOK, Examines, Inodes
<1>5. MarkerOK(p)' /\ ModeOK(p)'
  BY <1>1, <1>2 DEF ProcessOK, MarkerOK, ModeOK, Initializes
<1>6. AdmissionOK(p)'
  BY <1>1, <1>2, <1>3 DEF ProcessOK, AdmissionOK, Examines, Uses
<1>7. ConnectionOK(p)'
  BY <1>1, <1>2, <1>3, <1>4 DEF ProcessOK, ConnectionOK, Configured
<1>8. ProgressOK(p)'
  BY <1>1, <1>2, <1>3, <1>4 DEF ProcessOK, ProgressOK, Unfinished
<1> QED
  BY <1>5, <1>6, <1>7, <1>8 DEF ProcessOK

\* The same of the file at the path: once there, it stays.
LEMMA CloseKeepsDisk ==
    ASSUME InitInv, NEW o \in Openers, Configured(o), Disconnect(o), UNCHANGED path
    PROVE  DiskOK'
  BY InitializationAssumption, CloseConfigured, SMTT(30), SMTT(45) DEF InitInv, TypeOK, DiskOK, Inodes

\* The initializer closes its connection.
LEMMA CloseInitializerKeeps ==
    ASSUME InitInv, NEW o \in Openers, CloseInitializer(o)
    PROVE  InitInv'
<1>1. Configured(o) /\ Disconnect(o) /\ UNCHANGED <<path, marker, admission>>
  BY DEF CloseInitializer, Configured
<1>2. TypeOK'
  <2>1. conn' \in [Openers -> 0 .. MaxInodes]
    BY <1>1, CloseConfigured, InitializationAssumption, SMTT(30), SMTT(45) DEF InitInv, TypeOK
  <2>2. pc' \in [Openers -> Opening \cup Ended \cup Serving]
    BY DEF InitInv, TypeOK, CloseInitializer, Goto, Opening
  <2> QED
    BY <1>1, <2>1, <2>2, CloseConfigured DEF InitInv, TypeOK, CloseInitializer, bounds
<1>3. StepOf(o)
  BY <1>1, CloseConfigured DEF InitInv, TypeOK, CloseInitializer, Goto, StepOf
<1>4. path \in Inodes /\ admission[o] = path /\ content[path] = "ready"
  BY <1>1, SMTT(30), SMTT(45) DEF InitInv, TypeOK, CloseInitializer, ProcessOK, ConnectionOK, ProgressOK, AdmissionOK,
     Uses, Serving, Inodes
<1>5. content'[path] = "ready"
  BY <1>1, <1>4, CloseConfigured
<1>6. marker = o /\ pc'[o] = "return"
  BY DEF InitInv, TypeOK, CloseInitializer, Goto, ProcessOK, MarkerOK, Initializes, Connecting
<1>7. ProcessOK(o)'
  BY <1>1, <1>4, <1>5, <1>6, SMTT(30), SMTT(45) DEF ProcessOK, MarkerOK, ModeOK, AdmissionOK, ConnectionOK, ProgressOK,
     Initializes, Unfinished, Uses, Examines, Configured, Connecting, Serving, Inodes
<1> QED
  BY <1>1, <1>2, <1>3, <1>7, CloseKeepsDisk, CloseKeepsOthers DEF InitInv

\* A user closes a connection.
LEMMA CloseConnectionKeeps ==
    ASSUME InitInv, NEW o \in Openers, CloseConnection(o)
    PROVE  InitInv'
<1>1. Configured(o) /\ Disconnect(o) /\ UNCHANGED <<path, marker, admission>>
  BY DEF CloseConnection, Configured
<1>2. TypeOK'
  <2>1. conn' \in [Openers -> 0 .. MaxInodes]
    BY <1>1, CloseConfigured, InitializationAssumption, SMTT(30), SMTT(45) DEF InitInv, TypeOK
  <2>2. pc' \in [Openers -> Opening \cup Ended \cup Serving]
    BY DEF InitInv, TypeOK, CloseConnection, Goto, Serving
  <2> QED
    BY <1>1, <2>1, <2>2, CloseConfigured DEF InitInv, TypeOK, CloseConnection, bounds
<1>3. StepOf(o)
  BY <1>1, CloseConfigured DEF InitInv, TypeOK, CloseConnection, Goto, StepOf
<1>4. path \in Inodes /\ admission[o] = path /\ content[path] = "ready"
  BY <1>1 DEF InitInv, TypeOK, CloseConnection, ProcessOK, ConnectionOK, ProgressOK, AdmissionOK,
     Uses, Serving, Inodes
<1>5. content'[path] = "ready"
  BY <1>1, <1>4, CloseConfigured
<1>6. marker # o /\ pc'[o] = "opened"
  BY DEF InitInv, TypeOK, CloseConnection, Goto, ProcessOK, MarkerOK, Initializes, Connecting
<1>7. ProcessOK(o)'
  BY <1>1, <1>4, <1>5, <1>6, HandleStep
<1> QED
  BY <1>1, <1>2, <1>3, <1>7, CloseKeepsDisk, CloseKeepsOthers DEF InitInv

\* An initializer fails, before or after it has configured.
LEMMA FailInitializerKeeps ==
    ASSUME InitInv, NEW o \in Openers, FailInitializer(o)
    PROVE  InitInv'
<1>1. faults' \in 0 .. MaxFaults
  BY InitializationAssumption, SMTT(30), SMTT(45) DEF InitInv, TypeOK, FailInitializer, Goto, Holding
<1>2. CASE Configured(o)
  <2>1. conn' \in [Openers -> 0 .. MaxInodes]
    BY <1>2, CloseConfigured, InitializationAssumption, SMTT(30), SMTT(45) DEF InitInv, TypeOK,
       FailInitializer, Goto, Holding
  <2>2. pc' \in [Openers -> Opening \cup Ended \cup Serving]
    BY InitializationAssumption DEF InitInv, TypeOK, FailInitializer, Goto, Holding,
       Opening
  <2>3. TypeOK'
    BY <1>2, <1>1, <2>1, <2>2, CloseConfigured, InitializationAssumption DEF InitInv,
       TypeOK, FailInitializer, Goto, Holding
  <2>4. StepOf(o)
    BY <1>2, CloseConfigured, InitializationAssumption, SMTT(30), SMTT(45) DEF InitInv, TypeOK,
       FailInitializer, Goto, Holding, StepOf
  <2>5. admission[o] \in Inodes => content'[admission[o]] # "none"
    BY <1>2, CloseConfigured, InitializationAssumption DEF InitInv, TypeOK,
       FailInitializer, Goto, Holding, ProcessOK, AdmissionOK
  <2>6. ProcessOK(o)'
    BY <2>5, HolderStep, InitializationAssumption DEF FailInitializer, Goto, Holding,
       InitInv, TypeOK
  <2> QED
    BY <1>2, <2>3, <2>4, <2>6, CloseKeepsDisk, CloseKeepsOthers DEF InitInv, FailInitializer
<1>3. CASE ~Configured(o)
  <2>1. conn' = [conn EXCEPT ![o] = 0] /\ UNCHANGED <<side, wal, content>>
    BY <1>3, CloseUnconfigured, InitializationAssumption DEF InitInv, TypeOK,
       FailInitializer, Goto, Holding
  <2>2. conn' \in [Openers -> 0 .. MaxInodes]
    BY <2>1, InitializationAssumption, SMTT(30), SMTT(45) DEF InitInv, TypeOK, FailInitializer, Goto, Holding
  <2>3. pc' \in [Openers -> Opening \cup Ended \cup Serving]
    BY InitializationAssumption DEF InitInv, TypeOK, FailInitializer, Goto, Holding,
       Opening
  <2>4. TypeOK'
    BY <1>1, <2>1, <2>2, <2>3, InitializationAssumption DEF InitInv, TypeOK,
       FailInitializer, Goto, Holding
  <2>5. StepOf(o) /\ Quietly(o)
    BY <2>1, InitializationAssumption DEF InitInv, TypeOK, FailInitializer, Goto, Holding,
       StepOf, Quietly
  <2>6. ProcessOK(o)'
    BY <2>1, HolderStep, InitializationAssumption DEF FailInitializer, Goto, Holding,
       InitInv, TypeOK, ProcessOK, AdmissionOK
  <2> QED
    BY <2>4, <2>5, <2>6, QuietStep
<1> QED
  BY <1>2, <1>3

-----------------------------------------------------------------------------
(* Faults, and the operator.                                               *)

\* A killed process leaves the files as they are.
LEMMA KillKeeps ==
    ASSUME InitInv, NEW o \in Openers, Kill(o)
    PROVE  InitInv'
<1>1. kills' \in 0 .. MaxKills
  BY InitializationAssumption, SMTT(30), SMTT(45) DEF InitInv, TypeOK, Kill, Goto, disk, Holding
<1>2. conn' \in [Openers -> 0 .. MaxInodes] /\ polls' \in [Openers -> 0 .. MaxPolls - 1]
  BY InitializationAssumption, SMTT(30), SMTT(45) DEF InitInv, TypeOK, Kill, Goto, disk, Holding
<1>3. pc' \in [Openers -> Opening \cup Ended \cup Serving]
  BY InitializationAssumption DEF InitInv, TypeOK, Kill, Goto, disk, Holding, Ended
<1>4. admission' \in [Openers -> {Unbound, Refused} \cup Inodes]
  BY InitializationAssumption DEF InitInv, TypeOK, Kill, Goto, disk, Holding
<1>5. TypeOK'
  BY <1>1, <1>2, <1>3, <1>4, InitializationAssumption DEF InitInv, TypeOK, Kill, Goto,
     disk, Holding
<1>6. StepOf(o) /\ Quietly(o)
  BY InitializationAssumption DEF InitInv, TypeOK, Kill, Goto, disk, Holding, StepOf,
     Quietly
<1>7. ProcessOK(o)'
  BY InertStep, InitializationAssumption, SMTT(30), SMTT(45) DEF InitInv, TypeOK, Kill, Goto, disk, Holding,
     Inert, Unbound, Inodes
<1> QED
  BY <1>5, <1>6, <1>7, QuietStep

\* While nobody initializes and nobody has a configured connection, another
\* file at the path is noticed by every check that is still to come.
LEMMA OperatorKeeps ==
    ASSUME InitInv, Replace \/ Alias \/ Archive
    PROVE  InitInv'
<1>1. /\ UNCHANGED <<pc, mode, admission, conn>>
      /\ marker' \in {None, marker} /\ marker' \notin Openers
      /\ \A o \in Openers : ~Configured(o) /\ pc[o] # "configure" /\ ~Initializes(o)
  BY InitializationAssumption DEF InitInv, TypeOK, Touch, process, Replace, Alias,
     Archive, Unattended, ProcessOK, MarkerOK
<1>2. touches' \in 0 .. MaxTouches
  BY InitializationAssumption, SMTT(30), SMTT(45) DEF InitInv, TypeOK, Touch, process, Replace, Alias, Archive
<1>3. TypeOK' /\ DiskOK'
  <2>1. CASE Replace
    <3>1. PICK i \in Inodes : path' = i /\ content' = [content EXCEPT ![i] = "ready"]
      BY <2>1, InitializationAssumption DEF InitInv, TypeOK, Touch, process, Replace
    <3>2. i \in 0 .. MaxInodes
      BY InitializationAssumption, SMTT(30), SMTT(45) DEF InitInv, TypeOK, Touch, process, Inodes
    <3> QED
      BY <1>2, <2>1, <3>1, <3>2 DEF InitInv, TypeOK, Replace, Touch, process, DiskOK
  <2>2. CASE Alias
    BY <1>2, <2>2, InitializationAssumption DEF InitInv, TypeOK, Touch, process, Alias,
       DiskOK
  <2>3. CASE Archive
    <3>1. path' \in 0 .. MaxInodes
      BY <2>3, InitializationAssumption, SMTT(30), SMTT(45) DEF InitInv, TypeOK, Touch, process, Archive
    <3> QED
      BY <3>1, <1>2, <2>3 DEF InitInv, TypeOK, Archive, Touch, process, DiskOK
  <2> QED
    BY <2>1, <2>2, <2>3
<1>4. /\ \A i \in Inodes : content[i] # "none" => content'[i] = content[i]
      /\ path' = path \/ path' = 0 \/ (path' \in Inodes /\ content[path'] = "none")
  BY InitializationAssumption DEF InitInv, TypeOK, Touch, process, Replace, Alias, Archive
<1>5. ASSUME NEW o \in Openers  PROVE ProcessOK(o)'
  <2>1. MarkerOK(o)' /\ ModeOK(o)'
    BY <1>1, InitializationAssumption DEF InitInv, TypeOK, Touch, process, ProcessOK,
       MarkerOK, ModeOK, Initializes
  <2>2. AdmissionOK(o)'
    BY <1>1, <1>4, InitializationAssumption DEF InitInv, TypeOK, Touch, process,
       ProcessOK, AdmissionOK, Uses, Examines
  <2>3. ConnectionOK(o)'
    BY <1>1, <1>4, InitializationAssumption, SMTT(30), SMTT(45) DEF InitInv, TypeOK, Touch, process,
       ProcessOK, ConnectionOK, AdmissionOK, Configured, Examines, Uses, Connecting,
       Initializes, Inodes
  <2>4. ProgressOK(o)'
    BY <1>1, InitializationAssumption DEF InitInv, TypeOK, Touch, process, ProgressOK,
       Unfinished, Initializes
  <2> QED
    BY <2>1, <2>2, <2>3, <2>4 DEF ProcessOK
<1> QED
  BY <1>3, <1>5 DEF InitInv

-----------------------------------------------------------------------------
(* The theorems.                                                           *)

\* It holds at the start: nobody runs and there is no file.
LEMMA InitHolds == Init => InitInv
<1> SUFFICES ASSUME Init  PROVE InitInv
  BY InitializationAssumption DEF Init
<1>1. TypeOK /\ DiskOK
  <2>1. /\ path \in 0 .. MaxInodes /\ polls \in [Openers -> 0 .. MaxPolls - 1]
        /\ conn \in [Openers -> 0 .. MaxInodes]
        /\ kills \in 0 .. MaxKills /\ faults \in 0 .. MaxFaults
        /\ touches \in 0 .. MaxTouches
    BY InitializationAssumption, SMTT(30), SMTT(45) DEF Init
  <2> QED
    BY <2>1 DEF Init, TypeOK, DiskOK, Ended
<1>2. \A o \in Openers : ProcessOK(o)
  BY InitializationAssumption, SMTT(30), SMTT(45) DEF Init, ProcessOK, MarkerOK, ModeOK, AdmissionOK,
     ConnectionOK, ProgressOK, Initializes, Unfinished, Uses, Examines, Configured,
     Connecting, Serving, Unbound, Inodes
<1> QED
  BY <1>1, <1>2 DEF InitInv

\* Nothing is lost when nothing happens.
LEMMA StutterKeeps == ASSUME InitInv, UNCHANGED vars  PROVE InitInv'
<1>1. UNCHANGED <<path, content, linked, wal, side, marker, pc, mode, admission, conn, polls,
                  kills, faults, touches, quiet>>
  BY DEF vars, disk, process, bounds
<1>2. TypeOK'
  BY <1>1 DEF InitInv, TypeOK
<1>3. DiskOK'
  BY <1>1 DEF InitInv, DiskOK
<1>4. ASSUME NEW o \in Openers  PROVE ProcessOK(o)'
  <2>1. ProcessOK(o)
    BY DEF InitInv
  <2>2. MarkerOK(o)' /\ ModeOK(o)' /\ AdmissionOK(o)'
    BY <1>1, <2>1 DEF ProcessOK, MarkerOK, ModeOK, AdmissionOK, Initializes, Uses,
       Examines
  <2>3. ConnectionOK(o)' /\ ProgressOK(o)'
    BY <1>1, <2>1 DEF ProcessOK, ConnectionOK, ProgressOK, Configured, Unfinished
  <2> QED
    BY <2>2, <2>3 DEF ProcessOK
<1> QED
  BY <1>2, <1>3, <1>4 DEF InitInv

\* Every step keeps it.
LEMMA NextKeeps == ASSUME InitInv, [Next]_vars  PROVE InitInv'
<1>1. ASSUME NEW o \in Openers, Step(o)  PROVE InitInv'
  BY <1>1, ProbeKeeps, ProbeMarkerKeeps, TryAcquireKeeps, PollKeeps, RecheckKeeps,
     NewFactoryKeeps, verify_admitted_identityKeeps, open_read_writeKeeps,
     ImmutableSidecarsKeeps, open_immutable_read_onlyKeeps, bind_after_openKeeps,
     ConfigureKeeps, ApplyBaselineKeeps, CheckpointKeeps, CloseInitializerKeeps, ReturnKeeps,
     UnwindKeeps, ExistingSidecarsKeeps, AdmitKeeps, InspectKeeps, FinalIdentityKeeps DEF
     Step
<1> QED
  BY <1>1, StartKeeps, ConnectKeeps, CloseConnectionKeeps, ExitKeeps,
     FailInitializerKeeps, FailConnectKeeps, KillKeeps, OperatorKeeps, StutterKeeps DEF Next

\* The invariant holds in every state that any number of processes reach.
THEOREM InitializationInvariant == Spec => []InitInv
<1>1. Init => InitInv
  BY InitHolds
<1>2. InitInv /\ [Next]_vars => InitInv'
  BY NextKeeps
<1> QED
  BY <1>1, <1>2, PTL DEF Spec

\* Whoever is about to apply the baseline (initialize_new) holds the marker
\* and is alone with a file that has no schema: it is never applied twice.
THEOREM NeverInitializedTwice == Spec => []InitializesOnce
<1>1. InitInv => InitializesOnce
  <2> SUFFICES ASSUME InitInv, NEW o \in Openers, pc[o] = "baseline"
               PROVE  /\ Holding(o) /\ conn[o] = path /\ content[path] = "empty" /\ ~wal
                      /\ \A p \in Openers \ {o} : ~Configured(p)
    BY DEF InitializesOnce
  <2>1. /\ Holding(o) /\ conn[o] = path /\ path # 0
        /\ content[path] = "empty" /\ ~wal
    <3>1. MarkerOK(o) /\ ConnectionOK(o) /\ ProgressOK(o)
      BY DEF InitInv, ProcessOK
    <3>2. Holding(o)
      BY <3>1 DEF MarkerOK, Initializes, Holding
    <3>3. conn[o] = path /\ path # 0
      BY <3>1 DEF ConnectionOK, Configured
    <3>4. content[path] = "empty" /\ ~wal
      BY <3>1, <3>3 DEF ProgressOK, Unfinished
    <3> QED
      BY <3>2, <3>3, <3>4
  <2>2. ASSUME NEW p \in Openers \ {o}, Configured(p)  PROVE FALSE
    <3>1. Initializes(o) /\ ~Initializes(p)
      BY OneInitializer DEF Initializes
    <3>2. pc[p] = "connected"
      BY <2>2, <3>1 DEF Initializes, Configured
    <3>3. admission[p] = path /\ content[admission[p]] = "ready"
      BY <3>2 DEF InitInv, ProcessOK, ConnectionOK, AdmissionOK, Uses, Serving, Configured
    <3> QED
      BY <2>1, <3>3
  <2> QED
    BY <2>1, <2>2
<1> QED
  BY <1>1, InitializationInvariant, PTL

\* A handle (Database) or a configured connection is to the admitted file,
\* and that main file holds the exact schema.
THEOREM OpenedIsReady == Spec => []AdmittedIsReady
<1>1. InitInv => AdmittedIsReady
  BY DEF InitInv, AdmittedIsReady, ProcessOK, AdmissionOK, ConnectionOK, Uses, Serving,
     Configured, verify_schema
<1> QED
  BY <1>1, InitializationInvariant, PTL

-----------------------------------------------------------------------------
(* Racing opens                                                            *)

\* The database is initialized and nobody has it open to write.
Finished == path # 0 /\ verify_schema(path) /\ ~side

OrderlyDisk ==
    /\ ~linked /\ marker # Stale
    /\ path # 0 /\ marker = None => Finished
    /\ side => \E o \in Openers : Configured(o)

\* A process admits, or has open, only what is finished; an initializer
\* finds no file, and makes it itself.
OrderlyAt(o) ==
    /\ pc[o] \notin {"refused", "failed", "unwound", "connected"}
    /\ pc[o] = "present" => path # 0
    /\ pc[o] \in {"existing", "admit"} => Finished
    /\ Examines(o) \/ Uses(o) => Finished /\ admission[o] = path
    /\ pc[o] = "held" /\ path # 0 => Finished
    /\ pc[o] = "checked" => path = 0
    /\ pc[o] \in {"verify", "open"} /\ mode[o] = "init" => path = 0
    /\ pc[o] \in {"verify", "open", "bind"} /\ mode[o] = "init" => admission[o] = Unbound
    /\ pc[o] = "return" => ~side

Calm == OrderlyDisk /\ \A o \in Openers : OrderlyAt(o)

Orderly == quiet => Calm

\* A step of o that leaves the files alone need only keep what concerns o.
LEMMA CalmStep ==
    ASSUME Calm, NEW o \in Openers, StepOf(o), UNCHANGED <<path, content, linked, side>>,
           Configured(o) => Configured(o)',
           marker' # Stale, path # 0 /\ marker' = None => Finished, OrderlyAt(o)'
    PROVE  Calm'
<1>1. OrderlyDisk'
  <2>1. side' => \E p \in Openers : Configured(p)'
    BY DEF Calm, OrderlyDisk, StepOf, Configured
  <2> QED
    BY <2>1 DEF Calm, OrderlyDisk, Finished, verify_schema
<1>2. ASSUME NEW p \in Openers, p # o  PROVE OrderlyAt(p)'
  BY <1>2 DEF Calm, OrderlyAt, StepOf, Examines, Uses, Connecting, Finished, verify_schema
<1> QED
  BY <1>1, <1>2 DEF Calm

\* The finished database is what the checks of a factory find.
LEMMA FinishedIsAdmitted ==
    ASSUME InitInv, OrderlyDisk, path # 0
    PROVE  current_central_identity = path /\ current_central_identity # Refused /\ path \in Inodes
  BY InitializationAssumption, SMTT(30), SMTT(45) DEF InitInv, TypeOK, OrderlyDisk, current_central_identity, Refused, Inodes

\* Whoever initializes keeps the marker until it is done.
LEMMA HolderIsAlone ==
    ASSUME InitInv, NEW o \in Openers, Initializes(o)
    PROVE  marker = o /\ marker # None /\ marker # Stale /\ \A p \in Openers \ {o} : ~Initializes(p)
  BY InitializationAssumption DEF InitInv, ProcessOK, MarkerOK

\* The steps up to the choice between initializing and admitting.
LEMMA ChoiceIsCalm ==
    ASSUME InitInv, Calm, NEW o \in Openers,
           Start(o) \/ Probe(o) \/ ProbeMarker(o) \/ TryAcquire(o) \/ Poll(o) \/ Recheck(o) \/ Exit(o)
    PROVE  Calm'
<1>1. /\ StepOf(o) /\ UNCHANGED <<path, content, linked, wal, side, mode>>
      /\ \A l : Goto(o, l) => pc'[o] = l
  BY DEF InitInv, TypeOK, StepOf, Start, Probe, ProbeMarker, TryAcquire, Poll, Recheck, Exit, Goto, disk
<1>2. OrderlyAt(o) /\ OrderlyDisk
  BY DEF Calm
<1>3. ~Configured(o)
  BY DEF Start, Probe, ProbeMarker, TryAcquire, Poll, Recheck, Exit, Configured
<1>4. CASE marker' = marker /\ pc'[o] \in {"idle", "probe", "absent", "waiting", "timedout"}
  <2>1. OrderlyAt(o)'
    BY <1>4 DEF OrderlyAt, Examines, Uses, Connecting, Serving
  <2> QED
    BY <1>1, <1>2, <1>3, <1>4, <2>1, CalmStep DEF OrderlyDisk
<1>5. CASE marker' = marker /\ pc'[o] = "present" /\ path # 0
  <2>1. OrderlyAt(o)'
    BY <1>1, <1>5 DEF OrderlyAt, Examines, Uses, Connecting, Serving
  <2> QED
    BY <1>1, <1>2, <1>3, <1>5, <2>1, CalmStep DEF OrderlyDisk
<1>6. CASE marker' = marker /\ pc'[o] = "existing" /\ path # 0 /\ marker = None
  <2>1. Finished'
    BY <1>1, <1>2, <1>6 DEF OrderlyDisk, Finished, verify_schema
  <2>2. OrderlyAt(o)'
    BY <1>6, <2>1 DEF OrderlyAt, Examines, Uses, Connecting, Serving
  <2> QED
    BY <1>1, <1>2, <1>3, <1>6, <2>2, CalmStep DEF OrderlyDisk
<1>7. CASE marker = None /\ marker' = o /\ pc'[o] = "held"
  <2>1. path' # 0 => Finished'
    BY <1>1, <1>2, <1>7 DEF OrderlyDisk, Finished, verify_schema
  <2>2. OrderlyAt(o)'
    BY <1>7, <2>1 DEF OrderlyAt, Examines, Uses, Connecting, Serving
  <2>3. marker' # Stale /\ marker' # None
    BY <1>7, InitializationAssumption
  <2> QED
    BY <1>1, <1>3, <2>2, <2>3, CalmStep
<1>8. CASE Recheck(o)
  <2>1. pc[o] = "held" /\ ~ (path = 0 /\ side)
    <3>1. side => path # 0
      BY <1>2 DEF InitInv, ProcessOK, ConnectionOK, OrderlyDisk
    <3> QED
      BY <1>8, <3>1 DEF Recheck
  <2>2. CASE path # 0
    <3>1. marker' = None /\ pc'[o] = "probe" /\ Finished
      BY <1>1, <1>2, <1>8, <2>1, <2>2 DEF Recheck, OrderlyAt
    <3>2. OrderlyAt(o)'
      BY <3>1 DEF OrderlyAt, Examines, Uses, Connecting, Serving
    <3> QED
      BY <1>1, <1>3, <3>1, <3>2, CalmStep, InitializationAssumption
  <2>3. CASE path = 0
    <3>1. marker' = marker /\ pc'[o] = "checked"
      BY <1>1, <1>8, <2>1, <2>3 DEF Recheck, sqlite_sidecar_entries_exist
    <3>2. OrderlyAt(o)'
      BY <1>1, <2>3, <3>1 DEF OrderlyAt, Examines, Uses, Connecting, Serving
    <3> QED
      BY <1>1, <1>2, <1>3, <2>3, <3>1, <3>2, CalmStep DEF OrderlyDisk
  <2> QED
    BY <2>2, <2>3
<1>9. CASE Start(o) \/ Exit(o)
  BY <1>1, <1>4, <1>9 DEF Start, Exit
<1>10. CASE Probe(o)
  BY <1>1, <1>4, <1>5, <1>10 DEF Probe
<1>11. CASE ProbeMarker(o)
  BY <1>1, <1>2, <1>4, <1>6, <1>11 DEF ProbeMarker, OrderlyAt
<1>12. CASE TryAcquire(o)
  BY <1>1, <1>4, <1>7, <1>12 DEF TryAcquire
<1>13. CASE Poll(o)
  <2>1. pc'[o] \in {"probe", "timedout", "waiting"}
    BY <1>1, <1>13 DEF Poll
  <2> QED
    BY <1>4, <1>13, <2>1 DEF Poll
<1> QED
  BY <1>8, <1>9, <1>10, <1>11, <1>12, <1>13

\* While the database is unfinished nobody but its initializer depends on it.
LEMMA HotStep ==
    ASSUME InitInv, Calm, NEW o \in Openers, Initializes(o), ~Finished, StepOf(o),
           marker' = marker, linked' = FALSE, path' # 0, side' => Configured(o)', OrderlyAt(o)'
    PROVE  Calm'
<1>1. marker' # None /\ marker' # Stale
  BY HolderIsAlone
<1>2. OrderlyDisk'
  BY <1>1 DEF OrderlyDisk
<1>3. ASSUME NEW p \in Openers, p # o  PROVE OrderlyAt(p)'
  <2>1. ~Initializes(p) /\ OrderlyAt(p)
    BY <1>3, HolderIsAlone DEF Calm
  <2>2. pc'[p] = pc[p] /\ mode'[p] = mode[p] /\ admission'[p] = admission[p]
    BY <1>3 DEF StepOf
  <2>3. /\ pc[p] \notin {"existing", "admit"} /\ ~Examines(p) /\ ~Uses(p)
        /\ Examines(p)' = Examines(p) /\ Uses(p)' = Uses(p)
    BY <2>1, <2>2 DEF OrderlyAt, Examines, Uses
  <2> QED
    BY <2>1, <2>2, <2>3 DEF OrderlyAt, Initializes, Connecting
<1> QED
  BY <1>2, <1>3 DEF Calm

\* The connection of a factory is to the file it admitted, so that no check fails.
LEMMA ChecksPass ==
    ASSUME InitInv, Calm, NEW o \in Openers, pc[o] \in {"verify", "open", "bind", "cold", "inspect", "identity"}
    PROVE  /\ Admits(o)
           /\ mode[o] # "init" => Finished /\ admission[o] = path
           /\ pc[o] # "verify" /\ pc[o] # "open" => path # 0
<1>1. OrderlyAt(o) /\ OrderlyDisk
  BY DEF Calm
<1>2. mode[o] \in {"init", "cold", "use"}
  BY DEF InitInv, TypeOK
<1>3. pc[o] \in {"cold", "inspect", "identity"} => mode[o] = "cold"
  BY DEF InitInv, ProcessOK, ModeOK
<1>4. CASE mode[o] = "init"
  BY <1>1, <1>3, <1>4 DEF InitInv, ProcessOK, ConnectionOK, OrderlyAt, Admits
<1>5. CASE mode[o] # "init"
  <2>1. Examines(o) \/ Uses(o)
    BY <1>2, <1>3, <1>5 DEF Examines, Uses, Connecting
  <2>2. Finished /\ admission[o] = path /\ path # 0
    BY <1>1, <2>1 DEF OrderlyAt, Finished
  <2> QED
    BY <1>1, <1>5, <2>2, FinishedIsAdmitted DEF Admits
<1> QED
  BY <1>4, <1>5

\* The steps of a connection up to its last check.
LEMMA ChecksAreCalm ==
    ASSUME InitInv, Calm, NEW o \in Openers,
           \/ verify_admitted_identity(o) \/ ImmutableSidecars(o) \/ open_immutable_read_only(o)
           \/ bind_after_open(o) \/ Inspect(o) \/ FinalIdentity(o)
           \/ open_read_write(o) /\ path # 0
    PROVE  Calm'
<1> DEFINE Going == pc[o] \in {"verify", "open", "bind", "cold", "inspect", "identity"}
<1>1. Going
  BY DEF verify_admitted_identity, ImmutableSidecars, open_immutable_read_only,
     bind_after_open, Inspect, FinalIdentity, open_read_write
<1>2. /\ Admits(o)
      /\ mode[o] # "init" => Finished /\ admission[o] = path
      /\ pc[o] # "verify" /\ pc[o] # "open" => path # 0
  BY <1>1, ChecksPass
<1>3. OrderlyAt(o) /\ OrderlyDisk /\ ~Configured(o)
  BY <1>1 DEF Calm, Configured
<1>4. /\ pc[o] \in {"cold", "inspect", "identity"} => mode[o] = "cold"
      /\ pc[o] \in {"inspect", "identity"} => conn[o] = admission[o]
  BY DEF InitInv, ProcessOK, ModeOK, ConnectionOK
<1>5. ASSUME marker' = marker, UNCHANGED <<path, content, linked, side>>, mode'[o] = mode[o], StepOf(o),
             OrderlyAt(o)'
      PROVE  Calm'
  BY <1>3, <1>5, CalmStep DEF OrderlyDisk
<1>6. ASSUME UNCHANGED <<path, content, linked, side>>, mode'[o] = mode[o], admission'[o] = admission[o],
             \/ pc'[o] \in {"open", "bind"} /\ mode[o] = "init" /\ (pc'[o] = "open" => path = 0)
             \/ pc'[o] \in {"verify", "open", "bind", "inspect", "identity", "opened"} /\ mode[o] # "init",
             mode[o] = "init" => admission[o] = Unbound
      PROVE  OrderlyAt(o)'
  BY <1>2, <1>6 DEF OrderlyAt, Examines, Uses, Connecting, Serving, Finished, verify_schema
<1>7. mode[o] = "init" /\ pc[o] \in {"verify", "open", "bind"} => admission[o] = Unbound
  BY <1>3 DEF OrderlyAt
<1>8. CASE verify_admitted_identity(o)
  <2>1. /\ UNCHANGED <<path, content, linked, side, marker, mode, admission, conn>>
        /\ pc' = [pc EXCEPT ![o] = "open"] /\ pc[o] = "verify"
    BY <1>2, <1>8 DEF verify_admitted_identity, Goto
  <2>2. StepOf(o) /\ pc'[o] = "open"
    BY <2>1 DEF StepOf, InitInv, TypeOK
  <2>3. mode[o] = "init" => path = 0
    BY <1>3, <2>1 DEF OrderlyAt
  <2> QED
    BY <1>5, <1>6, <1>7, <2>1, <2>2, <2>3
<1>9. CASE ImmutableSidecars(o)
  <2>1. /\ UNCHANGED <<path, content, linked, side, marker, mode, admission, conn>>
        /\ pc' = [pc EXCEPT ![o] = "verify"] /\ pc[o] = "cold"
    BY <1>2, <1>4, <1>9 DEF ImmutableSidecars, sqlite_sidecar_entries_exist, Goto, Finished
  <2>2. StepOf(o) /\ pc'[o] = "verify"
    BY <2>1 DEF StepOf, InitInv, TypeOK
  <2> QED
    BY <1>4, <1>5, <1>6, <2>1, <2>2
<1>10. CASE open_immutable_read_only(o) \/ (open_read_write(o) /\ path # 0)
  <2>1. mode[o] # "init"
    BY <1>3, <1>10 DEF OrderlyAt, open_immutable_read_only, open_read_write
  <2>2. /\ UNCHANGED <<path, content, linked, side, marker, mode, admission>>
        /\ pc' = [pc EXCEPT ![o] = "bind"] /\ \E i : conn' = [conn EXCEPT ![o] = i]
    BY <1>2, <1>10, <2>1 DEF open_immutable_read_only, open_read_write, Goto, Finished
  <2>3. StepOf(o) /\ pc'[o] = "bind"
    BY <2>2 DEF StepOf, InitInv, TypeOK
  <2> QED
    BY <1>5, <1>6, <2>1, <2>2, <2>3
<1>11. CASE bind_after_open(o)
  <2>1. path # 0 /\ current_central_identity = path /\ current_central_identity # Refused
    BY <1>2, <1>3, <1>11, FinishedIsAdmitted DEF bind_after_open
  <2>2. /\ UNCHANGED <<path, content, linked, side, marker, mode, conn>>
        /\ admission' = [admission EXCEPT ![o] = path]
        /\ pc' = [pc EXCEPT ![o] = IF mode[o] = "cold" THEN "inspect" ELSE "configure"]
    BY <1>2, <1>11, <2>1 DEF bind_after_open, Goto
  <2>3. /\ StepOf(o) /\ admission'[o] = path
        /\ pc'[o] = IF mode[o] = "cold" THEN "inspect" ELSE "configure"
    BY <2>2 DEF StepOf, InitInv, TypeOK
  <2>4. OrderlyAt(o)'
    <3>1. mode[o] = "init" => ~Examines(o)' /\ ~Uses(o)'
      BY <2>2, <2>3, SMTT(30), SMTT(45) DEF Examines, Uses, Connecting, Serving
    <3> QED
      BY <1>2, <2>2, <2>3, <3>1, SMTT(30), SMTT(45) DEF OrderlyAt, Finished, verify_schema
  <2> QED
    BY <1>5, <2>2, <2>3, <2>4
<1>12. CASE Inspect(o)
  <2>1. /\ UNCHANGED <<path, content, linked, side, marker, mode, admission, conn>>
        /\ pc' = [pc EXCEPT ![o] = "identity"] /\ pc[o] = "inspect"
    BY <1>2, <1>4, <1>12 DEF Inspect, Goto, Finished
  <2>2. StepOf(o) /\ pc'[o] = "identity"
    BY <2>1 DEF StepOf, InitInv, TypeOK
  <2> QED
    BY <1>4, <1>5, <1>6, <2>1, <2>2
<1>13. CASE FinalIdentity(o)
  <2>1. /\ UNCHANGED <<path, content, linked, side, marker, mode, admission>>
        /\ conn' = [conn EXCEPT ![o] = 0]
        /\ pc' = [pc EXCEPT ![o] = "opened"] /\ pc[o] = "identity"
    BY <1>2, <1>3, <1>13 DEF FinalIdentity, Disconnect, Goto
  <2>2. StepOf(o) /\ pc'[o] = "opened"
    BY <2>1 DEF StepOf, InitInv, TypeOK
  <2> QED
    BY <1>4, <1>5, <1>6, <2>1, <2>2
<1> QED
  BY <1>8, <1>9, <1>10, <1>11, <1>12, <1>13

\* Admission, and the uses of a handle.
LEMMA AdmissionIsCalm ==
    ASSUME InitInv, Calm, NEW o \in Openers,
           ExistingSidecars(o) \/ Admit(o) \/ Connect(o) \/ NewFactory(o) \/ Return(o)
    PROVE  Calm'
<1>1. OrderlyAt(o) /\ OrderlyDisk /\ ~Configured(o)
  BY DEF Calm, Configured, ExistingSidecars, Admit, Connect, NewFactory, Return
<1>2. StepOf(o) /\ UNCHANGED <<path, content, linked, side>>
  BY DEF InitInv, TypeOK, StepOf, Goto, disk, ExistingSidecars, Admit, Connect, NewFactory, Return
<1>3. CASE ExistingSidecars(o)
  <2>1. Finished /\ pc'[o] = "admit" /\ marker' = marker
    BY <1>1, <1>3 DEF OrderlyAt, Finished, ExistingSidecars, sqlite_sidecar_entries_exist, Goto, InitInv, TypeOK
  <2>2. OrderlyAt(o)'
    BY <1>2, <2>1 DEF OrderlyAt, Examines, Uses, Connecting, Serving, Finished, verify_schema
  <2> QED
    BY <1>1, <1>2, <2>1, <2>2, CalmStep DEF OrderlyDisk
<1>4. CASE Admit(o)
  <2>1. Finished /\ current_central_identity = path /\ current_central_identity # Refused
    BY <1>1, <1>4, FinishedIsAdmitted DEF OrderlyAt, Finished, Admit
  <2>2. pc'[o] = "cold" /\ mode'[o] = "cold" /\ admission'[o] = path /\ marker' = marker
    BY <1>4, <2>1 DEF Admit, Goto, InitInv, TypeOK
  <2>3. OrderlyAt(o)'
    BY <1>2, <2>1, <2>2 DEF OrderlyAt, Examines, Uses, Connecting, Serving, Finished, verify_schema
  <2> QED
    BY <1>1, <1>2, <2>2, <2>3, CalmStep DEF OrderlyDisk
<1>5. CASE Connect(o)
  <2>1. Finished /\ admission[o] = path
    BY <1>1, <1>5 DEF OrderlyAt, Connect, Uses, Serving
  <2>2. pc'[o] = "verify" /\ mode'[o] = "use" /\ admission'[o] = admission[o] /\ marker' = marker
    BY <1>5 DEF Connect, Goto, InitInv, TypeOK
  <2>3. OrderlyAt(o)'
    BY <1>2, <2>1, <2>2 DEF OrderlyAt, Examines, Uses, Connecting, Serving, Finished, verify_schema
  <2> QED
    BY <1>1, <1>2, <2>2, <2>3, CalmStep DEF OrderlyDisk
<1>6. CASE NewFactory(o)
  <2>1. path = 0
    BY <1>1, <1>6 DEF OrderlyAt, NewFactory
  <2>2. pc'[o] = "verify" /\ mode'[o] = "init" /\ admission'[o] = Unbound /\ marker' = marker
    BY <1>6, <2>1 DEF NewFactory, Goto, InitInv, TypeOK
  <2>3. OrderlyAt(o)'
    BY <1>2, <2>1, <2>2 DEF OrderlyAt, Examines, Uses, Connecting, Serving
  <2> QED
    BY <1>1, <1>2, <2>2, <2>3, CalmStep DEF OrderlyDisk
<1>7. CASE Return(o)
  <2>1. Finished
    BY <1>1, <1>7 DEF OrderlyAt, Finished, verify_schema, Return, InitInv, ProcessOK, ProgressOK
  <2>2. current_central_identity = path /\ current_central_identity # Refused
    BY <1>1, <2>1, FinishedIsAdmitted DEF Finished
  <2>3. pc'[o] = "opened" /\ mode'[o] = mode[o] /\ admission'[o] = path /\ marker' = None
    BY <1>7, <2>2 DEF Return, Goto, InitInv, TypeOK
  <2>4. OrderlyAt(o)'
    BY <1>2, <2>1, <2>3 DEF OrderlyAt, Examines, Uses, Connecting, Serving, Finished, verify_schema
  <2> QED
    BY <1>1, <1>2, <2>1, <2>3, <2>4, CalmStep, InitializationAssumption
<1> QED
  BY <1>3, <1>4, <1>5, <1>6, <1>7

\* The steps of the initializer that write.
LEMMA InitializingIsCalm ==
    ASSUME InitInv, Calm, NEW o \in Openers,
           \/ open_read_write(o) /\ path = 0
           \/ Configure(o) /\ mode[o] = "init"
           \/ ApplyBaseline(o) \/ Checkpoint(o) \/ CloseInitializer(o)
    PROVE  Calm'
<1>1. OrderlyAt(o) /\ OrderlyDisk /\ linked = FALSE
  BY DEF Calm, OrderlyDisk, InitInv, TypeOK
<1>2. Initializes(o)
  <2>1. open_read_write(o) /\ path = 0 => mode[o] = "init"
    BY ChecksPass DEF open_read_write, Finished
  <2> QED
    BY <2>1 DEF Initializes, Connecting, open_read_write, Configure, ApplyBaseline, Checkpoint, CloseInitializer
<1>3. /\ StepOf(o) /\ marker' = marker
      /\ \A l : Goto(o, l) => pc'[o] = l
  BY DEF InitInv, TypeOK, StepOf, Goto, Disconnect, open_read_write, Configure, ApplyBaseline,
     Checkpoint, CloseInitializer
<1>4. pc[o] = "configure" \/ Configured(o) => path # 0 /\ (Configured(o) => side)
  BY DEF InitInv, ProcessOK, ConnectionOK
<1>5. CASE open_read_write(o) /\ path = 0
  <2>1. path' # 0 /\ linked' = FALSE /\ side' = side /\ pc'[o] = "bind" /\ mode[o] = "init"
    <3>1. path' \in Inodes /\ 0 \notin Inodes
      BY <1>5, SMTT(30), SMTT(45) DEF open_read_write, Inodes
    <3> QED
      BY <1>3, <1>5, <3>1, ChecksPass DEF open_read_write, Finished
  <2>2. side = FALSE
    <3>1. \A p \in Openers : Configured(p) => path # 0
      BY DEF InitInv, ProcessOK, ConnectionOK
    <3> QED
      BY <1>1, <1>5, <3>1 DEF OrderlyDisk, InitInv, TypeOK
  <2>3. mode' = mode /\ admission' = admission /\ admission[o] = Unbound
    BY <1>1, <1>5, <2>1 DEF open_read_write, OrderlyAt
  <2>4. OrderlyAt(o)'
    BY <2>1, <2>3 DEF OrderlyAt, Examines, Uses, Connecting, Serving
  <2> QED
    BY <1>2, <1>3, <1>5, <2>1, <2>2, <2>4, HotStep DEF Finished
<1>6. CASE Configure(o) /\ mode[o] = "init"
  <2>1. ~Finished
    BY <1>6 DEF Configure, Finished, verify_schema, InitInv, ProcessOK, ProgressOK, Unfinished, Connecting
  <2>2. path' = path /\ linked' = linked /\ pc'[o] = "baseline"
    BY <1>3, <1>6 DEF Configure
  <2>3. OrderlyAt(o)' /\ Configured(o)'
    BY <2>2 DEF OrderlyAt, Configured, Examines, Uses, Connecting, Serving
  <2> QED
    BY <1>1, <1>2, <1>3, <1>4, <1>6, <2>1, <2>2, <2>3, HotStep DEF Configure
<1>7. CASE ApplyBaseline(o) \/ Checkpoint(o)
  <2>1. ~Finished
    BY <1>4, <1>7 DEF Finished, Configured, ApplyBaseline, Checkpoint
  <2>2. path' = path /\ linked' = linked /\ pc'[o] \in {"checkpoint", "close"} /\ path # 0
    BY <1>3, <1>4, <1>7 DEF ApplyBaseline, Checkpoint, Configured
  <2>3. OrderlyAt(o)' /\ Configured(o)'
    BY <2>2 DEF OrderlyAt, Configured, Examines, Uses, Connecting, Serving
  <2> QED
    BY <1>1, <1>2, <1>3, <2>1, <2>2, <2>3, HotStep
<1>8. CASE CloseInitializer(o)
  <2>1. ~Finished /\ Configured(o)
    BY <1>4, <1>8 DEF Finished, Configured, CloseInitializer
  <2>2. path' = path /\ linked' = linked /\ pc'[o] = "return" /\ path # 0
    BY <1>3, <1>4, <1>8, <2>1 DEF CloseInitializer
  <2>3. \A p \in Openers \ {o} : ~Configured(p)
    BY <1>2, HolderIsAlone DEF Calm, OrderlyAt, Configured, Initializes
  <2>4. side' = FALSE
    BY <1>8, <2>1, <2>3 DEF CloseInitializer, Disconnect
  <2>5. OrderlyAt(o)'
    BY <2>2, <2>4 DEF OrderlyAt, Examines, Uses, Connecting, Serving
  <2> QED
    BY <1>1, <1>2, <1>3, <2>1, <2>2, <2>4, <2>5, HotStep
<1> QED
  BY <1>5, <1>6, <1>7, <1>8

\* What is not calm ends the quiet; nothing restores it.
LEMMA OrderlyKeeps == ASSUME InitInv, Orderly, [Next]_vars  PROVE Orderly'
<1> SUFFICES ASSUME quiet'  PROVE Calm'
  BY DEF Orderly
<1>1. CASE UNCHANGED vars
  <2>1. UNCHANGED <<path, content, linked, side, marker, pc, mode, admission, quiet>>
    BY <1>1 DEF vars, disk, process
  <2>2. Calm
    BY <2>1 DEF Orderly
  <2>3. OrderlyDisk'
    BY <2>1, <2>2 DEF Calm, OrderlyDisk, Finished, verify_schema, Configured
  <2>4. ASSUME NEW o \in Openers  PROVE OrderlyAt(o)'
    BY <2>1, <2>2 DEF Calm, OrderlyAt, Finished, verify_schema, Examines, Uses
  <2> QED
    BY <2>3, <2>4 DEF Calm
<1>2. CASE Replace \/ Alias \/ Archive
  BY <1>2 DEF Replace, Alias, Archive, Touch
<1>3. ASSUME NEW o \in Openers,
             \/ Step(o) \/ Start(o) \/ Connect(o) \/ CloseConnection(o) \/ Exit(o)
             \/ FailInitializer(o) \/ FailConnect(o) \/ Kill(o)
      PROVE  Calm'
  <2>1. CASE FailInitializer(o) \/ FailConnect(o) \/ Kill(o)
    BY <2>1 DEF FailInitializer, FailConnect, Kill
  <2>2. CASE Start(o) \/ Probe(o) \/ ProbeMarker(o) \/ TryAcquire(o) \/ Poll(o) \/ Recheck(o) \/ Exit(o)
    <3>1. quiet
      BY <2>2 DEF Start, Probe, ProbeMarker, TryAcquire, Poll, Recheck, Exit
    <3> QED
      BY <2>2, <3>1, ChoiceIsCalm DEF Orderly
  <2>3. CASE \/ verify_admitted_identity(o) \/ ImmutableSidecars(o) \/ open_immutable_read_only(o)
             \/ bind_after_open(o) \/ Inspect(o) \/ FinalIdentity(o) \/ open_read_write(o)
    <3>1. quiet
      BY <2>3 DEF verify_admitted_identity, ImmutableSidecars, open_immutable_read_only,
         bind_after_open, Inspect, FinalIdentity, open_read_write
    <3> QED
      BY <2>3, <3>1, ChecksAreCalm, InitializingIsCalm DEF Orderly
  <2>4. CASE ExistingSidecars(o) \/ Admit(o) \/ Connect(o) \/ NewFactory(o) \/ Return(o)
    <3>1. quiet
      BY <2>4 DEF ExistingSidecars, Admit, Connect, NewFactory, Return
    <3> QED
      BY <2>4, <3>1, AdmissionIsCalm DEF Orderly
  <2>5. CASE Configure(o) \/ ApplyBaseline(o) \/ Checkpoint(o) \/ CloseInitializer(o)
    <3>1. quiet /\ (Configure(o) => mode[o] = "init")
      BY <2>5 DEF Configure, ApplyBaseline, Checkpoint, CloseInitializer
    <3> QED
      BY <2>5, <3>1, InitializingIsCalm DEF Orderly
  <2>6. CASE CloseConnection(o) \/ Unwind(o)
    <3>1. quiet /\ pc[o] \in {"connected", "unwound"}
      BY <2>6 DEF CloseConnection, Unwind
    <3> QED
      BY <3>1 DEF Orderly, Calm, OrderlyAt
  <2> QED
    BY <1>3, <2>1, <2>2, <2>3, <2>4, <2>5, <2>6 DEF Step
<1> QED
  BY <1>1, <1>2, <1>3 DEF Next

\* Racing opens of a fresh path serialize: the marker of Database::open keeps
\* the others waiting until the schema is in the main file and the sidecars
\* are gone, so that, while nobody was killed, failed, connected to write or
\* intervened, no check of open_existing or of a connection factory refuses
\* the file, for any number of processes.
THEOREM RacingOpensSucceed == Spec => []NoSpuriousRefusal
<1>1. Init => Orderly
  BY InitializationAssumption DEF Init, Orderly, Calm, OrderlyDisk, OrderlyAt, Finished, Examines, Uses,
     Connecting, Serving
<1>2. InitInv /\ Orderly /\ [Next]_vars => Orderly'
  BY OrderlyKeeps
<1>3. Orderly => NoSpuriousRefusal
  BY DEF Orderly, Calm, OrderlyAt, NoSpuriousRefusal
<1> QED
  BY <1>1, <1>2, <1>3, InitializationInvariant, PTL DEF Spec
=============================================================================
