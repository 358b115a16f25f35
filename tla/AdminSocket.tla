---------------------------- MODULE AdminSocket ----------------------------
(***************************************************************************)
(* Ownership of the administrative socket (crates/journald/src/server.rs): *)
(* a daemon locks the owner lock, clears what its marker says a killed     *)
(* daemon left, binds a socket under a pending name, and publishes it under*)
(* the final name, recording each step in the marker beforehand. Daemons   *)
(* can be killed between any two steps, in the middle of a marker write    *)
(* too; another program may put a file at the final path, and the path of  *)
(* the lock may be replaced. Files are told apart by their identity        *)
(* (device and inode), which is taken to be unique. A daemon looks at what *)
(* it is to remove and then unlinks the path, whatever is there by then:   *)
(* "POSIX has no atomic conditional unlink".                               *)
(***************************************************************************)
EXTENDS Naturals, FiniteSets

CONSTANTS
  Daemons,       \* processes configured with the same socket path
  Nobody,        \* no process
  Names,         \* pending names, as numbers in the order they are tried
  MaxSockets,    \* bound: sockets bound
  MaxForeign,    \* bound: files other programs put at the final path
  MaxLocks       \* bound: files that are the owner lock, one after another

Locks == 1..MaxLocks
Sockets == 1..MaxSockets
Foreign == (MaxSockets + 1)..(MaxSockets + MaxForeign)
Artifacts == Sockets \cup Foreign
None == 0

ASSUME ConstantsAssumption ==
  /\ Nobody \notin Daemons
  /\ MaxSockets \in Nat /\ MaxForeign \in Nat /\ MaxLocks \in Nat \ {0}
  /\ Names \subseteq Nat \ {0} /\ IsFiniteSet(Names)

VARIABLES
  lock,       \* the file at the path of the owner lock
  holder,     \* who holds the lock of each such file
  marker,     \* content of the marker file
  final,      \* the file at the final path
  pending,    \* the files at the pending names
  pc,         \* where each daemon is
  held,       \* the lock file it has open
  sock,       \* the socket it listens on
  name,       \* the pending name it chose
  want,       \* the marker it read or is writing
  next,       \* where it goes on when that is written, or what it is removing
  bound,      \* sockets bound so far
  raced       \* history: who had looked, and not yet unlinked, when another
              \* program last put a file at the final path

files == <<marker, final, pending>>
daemon == <<pc, held, sock, name, want, next, raced>>
vars == <<lock, holder, files, daemon, bound>>

(* MarkerState; Torn is an empty or partial file, Absent no file. *)
Marker(state, owner_lock, identity, pending_name) ==
  [state |-> state, lock |-> owner_lock, id |-> identity, name |-> pending_name]
Absent == Marker("absent", None, None, None)
Torn == Marker("torn", None, None, None)
Empty == Marker("empty", None, None, None)

(* OwnerLock::verify: the open file is still the one at the path. *)
Verify(d) == held[d] = lock

Goto(d, where) == pc' = [pc EXCEPT ![d] = where]

-----------------------------------------------------------------------------
(* The process ends, or bind fails: its files are closed, what is on disk   *)
(* stays as it is.                                                          *)
Leave(d) ==
  /\ pc' = [pc EXCEPT ![d] = "off"]
  /\ holder' = [l \in Locks |-> IF holder[l] = d THEN Nobody ELSE holder[l]]
  /\ held' = [held EXCEPT ![d] = None]
  /\ sock' = [sock EXCEPT ![d] = None]
  /\ name' = [name EXCEPT ![d] = None]
  /\ want' = [want EXCEPT ![d] = Absent]
  /\ next' = [next EXCEPT ![d] = "off"]
  /\ raced' = raced \ {d}

Fail(d) == Leave(d) /\ UNCHANGED files

(* MarkerFile::write_state, which ends at the given place. *)
StartWrite(d, state, then) ==
  /\ Goto(d, "check")
  /\ want' = [want EXCEPT ![d] = state]
  /\ next' = [next EXCEPT ![d] = then]

CheckWrite(d) ==
  /\ pc[d] = "check"
  /\ \/ Verify(d) /\ Goto(d, "truncate") /\ UNCHANGED <<holder, held, sock, name, want, next, raced, files>>
     \/ ~Verify(d) /\ Fail(d)
  /\ UNCHANGED <<lock, bound>>

Truncate(d) ==
  /\ pc[d] = "truncate"
  /\ marker' = Torn
  /\ Goto(d, "write")
  /\ UNCHANGED <<lock, holder, final, pending, held, sock, name, want, next, raced, bound>>

Write(d) ==
  /\ pc[d] = "write"
  /\ marker' = want[d]
  /\ \/ Verify(d) /\ next[d] # "off" /\ Goto(d, next[d]) /\ UNCHANGED <<holder, held, sock, name, want, next, raced>>
     \/ (~Verify(d) \/ next[d] = "off") /\ Leave(d)
  /\ UNCHANGED <<lock, final, pending, bound>>

-----------------------------------------------------------------------------
(* bind_admin_listener *)

LockFree(l) == holder[l] = Nobody

(* open_owner_lock; a daemon that finds it locked is refused at once. *)
OpenOwnerLock(d) ==
  /\ pc[d] = "off"
  /\ LockFree(lock)
  /\ holder' = [holder EXCEPT ![lock] = d]
  /\ held' = [held EXCEPT ![d] = lock]
  /\ Goto(d, "marker")
  /\ UNCHANGED <<lock, files, sock, name, want, next, raced, bound>>

(* open_marker: a new one is written, an old one is read. *)
OpenMarker(d) ==
  /\ pc[d] = "marker"
  /\ \/ /\ marker = Absent
        /\ marker' = Torn
        /\ StartWrite(d, Empty, "recover")
        /\ UNCHANGED <<holder, held, sock, name, raced, final, pending>>
     \/ marker = Torn /\ Fail(d)
     \/ /\ marker \notin {Absent, Torn}
        /\ Goto(d, "recover")
        /\ want' = [want EXCEPT ![d] = marker]
        /\ UNCHANGED <<holder, held, sock, name, next, raced, files>>
  /\ UNCHANGED <<lock, bound>>

(* A path that exists holds the socket that the marker names. *)
Recorded(path, m) == path \in {None, m.id}

PendingFile(m) == IF m.name = None THEN None ELSE pending[m.name]

BugRecoverable(d, m) ==
  /\ Verify(d)
  /\ \/ m = Empty /\ final = None
     \/ m # Empty /\ Recorded(final, m) /\ Recorded(PendingFile(m), m)

(* What recover_marker checks before it removes anything. *)
Recoverable(d, m) ==
  /\ Verify(d)
  /\ \/ m = Empty /\ final = None
     \/ m # Empty /\ m.lock = held[d] /\ Recorded(final, m) /\ Recorded(PendingFile(m), m)

RecoverMarker(d) ==
  LET m == want[d] IN
  /\ pc[d] = "recover"
  /\ \/ ~Recoverable(d, m) /\ Fail(d)
     \/ Recoverable(d, m) /\ Goto(d, IF m = Empty THEN "bind" ELSE "unlink")
        /\ UNCHANGED <<holder, held, sock, name, want, next, raced, files>>
  /\ UNCHANGED <<lock, bound>>

(* remove_owned: in a recovery on the final path and then on the pending   *)
(* one, after publishing on the pending name, and when the guard is dropped *)
(* on the final path. The lock is verified, the path looked at, and then   *)
(* unlinked. (The code does the first two twice; each may end it.)         *)
RemoveOwned(d) ==
  /\ pc[d] \in {"unlink", "unlink2", "unname", "serving"}
  /\ \/ /\ Verify(d)
        /\ Goto(d, "look")
        /\ next' = [next EXCEPT ![d] = pc[d]]
        /\ UNCHANGED <<holder, held, sock, name, want, raced, files>>
     \/ ~Verify(d) /\ Fail(d)
  /\ UNCHANGED <<lock, bound>>

(* Its path is the final one, or a pending name; the identity it expects. *)
AtFinal(d) == next[d] \in {"unlink", "serving"}

PendingName(d) == IF next[d] = "unlink2" THEN want[d].name ELSE name[d]

Expected(d) == IF next[d] \in {"unlink", "unlink2"} THEN want[d].id ELSE sock[d]

FileThere(d) == IF AtFinal(d) THEN final ELSE pending[PendingName(d)]

(* What a caller does when the file is gone: the marker is emptied after a *)
(* recovery, which has a pending name to remove too, and after a stop.     *)
MarkerAfter(d) == IF next[d] = "unname" THEN Marker("published", held[d], sock[d], None) ELSE Empty

PlaceAfter(d) == CASE next[d] = "unname" -> "serving"
                   [] next[d] = "serving" -> "off"
                   [] OTHER -> "bind"

HasPendingName(d) == next[d] = "unlink" /\ want[d].name # None

Removed(d) ==
  \/ HasPendingName(d) /\ Goto(d, "unlink2") /\ UNCHANGED <<want, next>>
  \/ ~HasPendingName(d) /\ StartWrite(d, MarkerAfter(d), PlaceAfter(d))

BugMatches(d) == FileThere(d) # None

(* The file is the one the daemon expects. *)
Matches(d) == FileThere(d) = Expected(d)

(* A file that is gone is no error, though a stopping daemon then leaves   *)
(* the marker as it is; another file is one.                               *)
Look(d) ==
  LET gone == FileThere(d) = None IN
  /\ pc[d] = "look"
  /\ \/ ~gone /\ Matches(d) /\ Goto(d, "remove")
        /\ UNCHANGED <<holder, held, sock, name, want, next, raced, files>>
     \/ gone /\ next[d] # "serving" /\ Removed(d) /\ UNCHANGED <<holder, held, sock, name, raced, files>>
     \/ (IF gone THEN next[d] = "serving" ELSE ~Matches(d)) /\ Fail(d)
  /\ UNCHANGED <<lock, bound>>

(* remove_file; nobody else unlinks this file, so that there is one. *)
Remove(d) ==
  /\ pc[d] = "remove"
  /\ final' = IF AtFinal(d) THEN None ELSE final
  /\ pending' = [n \in Names |-> IF ~AtFinal(d) /\ n = PendingName(d) THEN None ELSE pending[n]]
  /\ Removed(d)
  /\ UNCHANGED <<lock, holder, held, sock, name, raced, marker, bound>>

FreeNames == {n \in Names : pending[n] = None}

(* The first free name is bound; the marker records it. *)
Bind(d) ==
  /\ pc[d] = "bind"
  /\ \/ FreeNames = {} /\ Fail(d) /\ UNCHANGED bound
     \/ \E n \in FreeNames :
          /\ \A k \in FreeNames : n <= k
          /\ bound < MaxSockets
          /\ bound' = bound + 1
          /\ sock' = [sock EXCEPT ![d] = bound + 1]
          /\ name' = [name EXCEPT ![d] = n]
          /\ pending' = [pending EXCEPT ![n] = bound + 1]
          /\ Goto(d, "bound")
          /\ UNCHANGED <<holder, held, want, next, raced, marker, final>>
  /\ UNCHANGED lock

BugAnnounce(d) ==
  /\ pc[d] = "bound"
  /\ Goto(d, "link")
  /\ want' = [want EXCEPT ![d] = Empty]
  /\ UNCHANGED <<lock, holder, files, held, sock, name, next, raced, bound>>

Announce(d) ==
  /\ pc[d] = "bound"
  /\ \/ Verify(d) /\ StartWrite(d, Marker("pending", held[d], sock[d], name[d]), "publish")
        /\ UNCHANGED <<holder, held, sock, name, raced, files>>
     \/ ~Verify(d) /\ Fail(d)
  /\ UNCHANGED <<lock, bound>>

(* The lock is verified, and then the final name is linked if it is free. *)
Publish(d) ==
  /\ pc[d] = "publish"
  /\ \/ Verify(d) /\ Goto(d, "link") /\ UNCHANGED <<holder, held, sock, name, want, next, raced, files>>
     \/ ~Verify(d) /\ Fail(d)
  /\ UNCHANGED <<lock, bound>>

(* hard_link does not replace a file. *)
Linkable == final = None

Link(d) ==
  /\ pc[d] = "link"
  /\ \/ /\ Linkable
        /\ final' = sock[d]
        /\ StartWrite(d, Marker("published", held[d], sock[d], name[d]), "unname")
        /\ UNCHANGED <<holder, held, sock, name, raced, marker, pending>>
     \/ ~Linkable /\ Fail(d)
  /\ UNCHANGED <<lock, bound>>

-----------------------------------------------------------------------------
(* The environment *)

Kill(d) ==
  /\ pc[d] # "off"
  /\ Fail(d)
  /\ UNCHANGED <<lock, bound>>

(* The daemon unlinks the final path next, whatever is there. *)
Unlinking(d) == pc[d] = "remove" /\ AtFinal(d)

PlaceForeign ==
  /\ \E f \in Foreign : final \notin Foreign /\ final' = f
  /\ raced' = {d \in Daemons : Unlinking(d)}
  /\ UNCHANGED <<lock, holder, marker, pending, pc, held, sock, name, want, next, bound>>

ReplaceLock ==
  /\ lock < MaxLocks
  /\ lock' = lock + 1
  /\ UNCHANGED <<holder, files, daemon, bound>>

Init ==
  /\ lock = 1
  /\ holder = [l \in Locks |-> Nobody]
  /\ marker = Absent /\ final = None /\ pending = [n \in Names |-> None]
  /\ pc = [d \in Daemons |-> "off"]
  /\ held = [d \in Daemons |-> None] /\ sock = [d \in Daemons |-> None]
  /\ name = [d \in Daemons |-> None]
  /\ want = [d \in Daemons |-> Absent] /\ next = [d \in Daemons |-> "off"]
  /\ bound = 0 /\ raced = {}

Next ==
  \/ \E d \in Daemons :
       \/ OpenOwnerLock(d) \/ OpenMarker(d) \/ RecoverMarker(d)
       \/ Bind(d) \/ Announce(d) \/ Publish(d) \/ Link(d)
       \/ RemoveOwned(d) \/ Look(d) \/ Remove(d)
       \/ CheckWrite(d) \/ Truncate(d) \/ Write(d) \/ Kill(d)
  \/ PlaceForeign \/ ReplaceLock

Spec == Init /\ [][Next]_vars

-----------------------------------------------------------------------------
(* Properties *)

MarkerStates ==
  [state : {"absent", "torn", "empty", "pending", "published"}, lock : Locks \cup {None},
   id : Sockets \cup {None}, name : Names \cup {None}]

(* Every variable has its type. *)
TypeOK ==
  /\ lock \in Locks
  /\ holder \in [Locks -> Daemons \cup {Nobody}]
  /\ marker \in MarkerStates
  /\ final \in Artifacts \cup {None}
  /\ pending \in [Names -> Sockets \cup {None}]
  /\ pc \in [Daemons -> {"off", "marker", "recover", "unlink", "unlink2", "bind", "bound", "publish",
                         "link", "unname", "serving", "look", "remove", "check", "truncate", "write"}]
  /\ held \in [Daemons -> Locks \cup {None}]
  /\ sock \in [Daemons -> Sockets \cup {None}]
  /\ name \in [Daemons -> Names \cup {None}]
  /\ want \in [Daemons -> MarkerStates]
  /\ next \in [Daemons -> {"off", "recover", "bind", "publish", "unlink", "unlink2", "unname", "serving"}]
  /\ bound \in 0..MaxSockets
  /\ raced \subseteq Daemons

(* A daemon that serves is found at the final path, unless another program *)
(* took it: no start, recovery or stop of another daemon removes its       *)
(* socket, whatever was killed before and even if the lock was replaced.   *)
ServesAtItsPath ==
  /\ TypeOK
  /\ \A d \in Daemons : pc[d] = "serving" => final \in {sock[d]} \cup Foreign

(* "Only an identity-matching socket may be removed", as far as the code   *)
(* can tell: a file that another program put at the final path is never    *)
(* removed or replaced by a daemon, unless one had looked and not yet      *)
(* unlinked when it was put there ("cleanup rechecks artifact identity     *)
(* immediately before unlink rather than claiming race elimination").      *)
ForeignIsPreserved == [][(final \in Foreign /\ raced = {}) => final' = final]_vars

(* However daemons were killed, the next start can tell what they left:    *)
(* unless a marker write was cut short (it "fails closed"), another        *)
(* program interfered or the lock was replaced, the marker names every     *)
(* socket at the final path, and nothing it names has changed hands.       *)
KilledStartsRecover ==
  (\A d \in Daemons : pc[d] = "off") /\ marker \notin {Absent, Torn} /\ final \notin Foreign /\ lock = 1 =>
    IF marker = Empty THEN final = None
    ELSE marker.lock = lock /\ Recorded(final, marker) /\ Recorded(PendingFile(marker), marker)
=============================================================================
