------------------------- MODULE AdminSocketProofs -------------------------
(***************************************************************************)
(* Proofs about AdminSocket, for any number of daemons, sockets, pending   *)
(* names, foreign files and replacements of the lock.                      *)
(***************************************************************************)
EXTENDS AdminSocket, TLAPS

(* The time a leaf may take on a busy machine; a leaf with arithmetic has *)
(* a second attempt.                                                      *)
USE ZenonT(60)

-----------------------------------------------------------------------------
(* The inductive invariant *)

Writing == {"check", "truncate", "write"}
Removing == {"look", "remove"}

(* Where a daemon is, or goes once its marker is written or its file gone. *)
Stage(d) == IF pc[d] \in Writing \cup Removing THEN next[d] ELSE pc[d]

Listening == {"bound", "publish", "link", "unname", "serving"}
Linked == {"unname", "serving"}

(* The daemon has linked its socket, or is about to unlink one that was    *)
(* left; the file it takes to be at the final path.                        *)
Clearing(d) == pc[d] = "remove" /\ next[d] = "unlink"
Claims(d) == Clearing(d) \/ Stage(d) \in Linked
Item(d) == IF Clearing(d) THEN want[d].id ELSE sock[d]

(* Where a write or a removal may lead. *)
OnItsWay(d) ==
  /\ pc[d] \in Writing => next[d] \notin {"unlink", "unlink2"}
  /\ pc[d] \in Removing => next[d] \in {"unlink", "unlink2", "unname", "serving"}

(* What a daemon claims is there, unless another program replaced it. *)
Claimed(d) == Claims(d) => Item(d) # None /\ final \in {Item(d)} \cup Foreign

(* A daemon past open_owner_lock holds a lock of its own; it has a socket, *)
(* and once that is linked it stays, unless another program replaces it;   *)
(* it removes only what was left under its own lock.                       *)
Own(d) ==
  /\ pc[d] # "off" => held[d] \in Locks /\ holder[held[d]] = d /\ held[d] <= lock
  /\ pc[d] = "off" => sock[d] = None
  /\ Stage(d) \in Listening => sock[d] # None
  /\ Stage(d) \in {"unlink", "unlink2"} => want[d].lock = held[d]
  /\ OnItsWay(d) /\ Claimed(d)
  /\ sock[d] <= bound /\ want[d].id <= bound

(* A marker that names the socket of a daemon was written by that daemon, *)
(* and two markers that name one socket were written under one lock.      *)
Signed(d, m) == sock[d] # None /\ m.id = sock[d] => m.lock = held[d]
Agree(m, n) == m.id # None /\ m.id = n.id => m.lock = n.lock

Owners ==
  /\ TypeOK
  /\ \A d \in Daemons : Own(d) /\ Signed(d, marker) /\ Agree(marker, want[d])
  /\ \A d, e \in Daemons : Signed(d, want[e]) /\ Agree(want[d], want[e])
  /\ \A d, e \in Daemons : sock[d] = sock[e] /\ sock[d] # None => d = e
  /\ \A d, e \in Daemons : Claims(d) /\ Claims(e) => d = e
  /\ marker.id <= bound

(* A daemon about to unlink the final path, where another program has put *)
(* a file, had looked before that.                                        *)
Watched == final \in Foreign => \A d \in Daemons : Unlinking(d) => d \in raced

(* No daemon's socket is at the final path. *)
Clear == final \in {None} \cup Foreign

(* Marker m accounts for what is at the final path and the pending name. *)
Accounts(m) ==
  IF m = Empty THEN Clear
  ELSE m.lock = lock /\ final \in {None, m.id} \cup Foreign /\ Recorded(PendingFile(m), m)

(* The marker a daemon wrote last or is writing. *)
Latest(d) == IF pc[d] \in Writing THEN want[d] ELSE marker

(* What the daemon at work knows of marker, socket and names. *)
Place(d) ==
  /\ pc[d] \in Writing /\ next[d] \in {"off", "recover", "bind"} => want[d] = Empty /\ Clear
  /\ pc[d] = "recover" \/ Stage(d) \in {"unlink", "unlink2"} => want[d] = marker /\ marker \notin {Absent, Torn}
  /\ Stage(d) = "unlink2" => Clear
  /\ pc[d] \in {"bind", "bound"} => marker = Empty
  /\ Stage(d) \in {"bound", "publish", "link", "unname"} =>
       name[d] \in Names /\ pending[name[d]] = sock[d]
  /\ Stage(d) \in {"publish", "link"} =>
       Clear /\ Latest(d) = Marker("pending", held[d], sock[d], name[d])
  /\ Stage(d) = "unname" => Latest(d) = Marker("published", held[d], sock[d], name[d])
  /\ Stage(d) = "serving" => Latest(d) = Marker("published", held[d], sock[d], None)

(* The marker, once written, accounts for what daemons left. *)
Told ==
  /\ marker = Absent => Clear
  /\ marker \notin {Absent, Torn} => Accounts(marker)

(* As long as the lock is not replaced. *)
Accounted == lock = 1 => Told /\ \A d \in Daemons : Place(d)

SocketInv == Owners /\ Watched /\ Accounted

-----------------------------------------------------------------------------
(* Types *)

(* The kinds of file are apart, and no lock or file is None. *)
LEMMA Kinds ==
  /\ None = 0 /\ None \in Nat
  /\ None \notin Foreign /\ None \notin Sockets /\ None \notin Names /\ None \notin Locks
  /\ Sockets \cap Foreign = {}
  /\ Sockets \subseteq Nat /\ Locks \subseteq Nat /\ Names \subseteq Nat /\ 1 \in Locks
BY ConstantsAssumption, SMTT(30), SMTT(45) DEF None, Foreign, Sockets, Locks

(* The fields of a marker. *)
LEMMA Fields ==
  ASSUME NEW s, NEW l, NEW i, NEW n
  PROVE  LET m == Marker(s, l, i, n) IN m.state = s /\ m.lock = l /\ m.id = i /\ m.name = n
BY DEF Marker

(* A marker built from fields of the right types has its type. *)
LEMMA MarkerTyped ==
  ASSUME NEW s \in {"absent", "torn", "empty", "pending", "published"},
         NEW l \in Locks \cup {None}, NEW i \in Sockets \cup {None}, NEW n \in Names \cup {None}
  PROVE  Marker(s, l, i, n) \in MarkerStates
BY DEF Marker, MarkerStates

(* The markers without content. *)
LEMMA Blank ==
  /\ Absent \in MarkerStates /\ Torn \in MarkerStates /\ Empty \in MarkerStates
  /\ Absent.id = None /\ Torn.id = None /\ Empty.id = None
  /\ Empty \notin {Absent, Torn} /\ Absent # Torn
<1>1. Absent \in MarkerStates /\ Torn \in MarkerStates /\ Empty \in MarkerStates
  BY MarkerTyped DEF Absent, Torn, Empty
<1>2. Absent.id = None /\ Torn.id = None /\ Empty.id = None
  BY Fields, SMTT(30), SMTT(45) DEF Absent, Torn, Empty
<1>3. Absent.state = "absent" /\ Torn.state = "torn" /\ Empty.state = "empty"
  BY Fields, SMTT(30), SMTT(45) DEF Absent, Torn, Empty
<1> QED  BY <1>1, <1>2, <1>3

(* The fields of any marker have their types. *)
LEMMA FieldTypes ==
  ASSUME NEW m \in MarkerStates
  PROVE  m.lock \in Locks \cup {None} /\ m.id \in Sockets \cup {None} /\ m.name \in Names \cup {None}
BY DEF MarkerStates

(* The process that ends leaves variables of the right types. *)
LEMMA LeaveTyped ==
  ASSUME TypeOK, NEW d \in Daemons, Leave(d)
  PROVE  /\ holder' \in [Locks -> Daemons \cup {Nobody}]
         /\ pc' \in [Daemons -> {"off", "marker", "recover", "unlink", "unlink2", "bind", "bound", "publish",
                                 "link", "unname", "serving", "look", "remove", "check", "truncate", "write"}]
         /\ held' \in [Daemons -> Locks \cup {None}]
         /\ sock' \in [Daemons -> Sockets \cup {None}]
         /\ name' \in [Daemons -> Names \cup {None}]
         /\ want' \in [Daemons -> MarkerStates]
         /\ next' \in [Daemons -> {"off", "recover", "bind", "publish", "unlink", "unlink2", "unname", "serving"}]
         /\ raced' \subseteq Daemons
BY Blank DEF TypeOK, Leave

(* A failure keeps the types. *)
LEMMA FailTyped ==
  ASSUME TypeOK, NEW d \in Daemons, Fail(d), UNCHANGED <<lock, bound>>
  PROVE  TypeOK'
<1>1. Leave(d) /\ UNCHANGED <<marker, final, pending>>  BY DEF Fail, files
<1> QED  BY <1>1, LeaveTyped DEF TypeOK

(* What a removal leads to has its type. *)
LEMMA RemovedTyped ==
  ASSUME TypeOK, NEW d \in Daemons, Removed(d)
  PROVE  /\ pc' \in [Daemons -> {"off", "marker", "recover", "unlink", "unlink2", "bind", "bound", "publish",
                                 "link", "unname", "serving", "look", "remove", "check", "truncate", "write"}]
         /\ want' \in [Daemons -> MarkerStates]
         /\ next' \in [Daemons -> {"off", "recover", "bind", "publish", "unlink", "unlink2", "unname", "serving"}]
<1>1. CASE HasPendingName(d)  BY <1>1 DEF Removed, Goto, TypeOK
<1>2. CASE ~HasPendingName(d)
  <2>1. StartWrite(d, MarkerAfter(d), PlaceAfter(d))  BY <1>2 DEF Removed
  <2>2. MarkerAfter(d) \in MarkerStates  BY Blank, MarkerTyped DEF MarkerAfter, TypeOK
  <2>3. PlaceAfter(d) \in {"serving", "off", "bind"}  BY DEF PlaceAfter
  <2> QED  BY <2>1, <2>2, <2>3, SMTT(30), SMTT(45) DEF StartWrite, Goto, TypeOK
<1> QED  BY <1>1, <1>2

(* Every step keeps the types. *)
LEMMA TypeStep ==
  ASSUME Owners, Next
  PROVE  TypeOK'
<1>0. TypeOK  BY DEF Owners
<1> USE <1>0
<1>1. ASSUME NEW d \in Daemons, OpenOwnerLock(d)
      PROVE  TypeOK'
  BY <1>1 DEF TypeOK, OpenOwnerLock, Goto, files
<1>2. ASSUME NEW d \in Daemons, OpenMarker(d)
      PROVE  TypeOK'
  <2>1. CASE Fail(d) /\ UNCHANGED <<lock, bound>>  BY <2>1, FailTyped
  <2>2. CASE marker = Absent  BY <1>2, <2>2, Blank, SMTT(30), SMTT(45) DEF TypeOK, OpenMarker, StartWrite, Goto
  <2>3. CASE marker \notin {Absent, Torn}  BY <1>2, <2>3, SMTT(30), SMTT(45) DEF TypeOK, OpenMarker, Goto, files
  <2> QED  BY <1>2, <2>1, <2>2, <2>3 DEF OpenMarker
<1>3. ASSUME NEW d \in Daemons, RecoverMarker(d)
      PROVE  TypeOK'
  <2>1. CASE Fail(d) /\ UNCHANGED <<lock, bound>>  BY <2>1, FailTyped
  <2>2. CASE Recoverable(d, want[d])  BY <1>3, <2>2 DEF TypeOK, RecoverMarker, Goto, files
  <2> QED  BY <1>3, <2>1, <2>2 DEF RecoverMarker
<1>4. ASSUME NEW d \in Daemons, RemoveOwned(d)
      PROVE  TypeOK'
  <2>1. CASE Fail(d) /\ UNCHANGED <<lock, bound>>  BY <2>1, FailTyped
  <2>2. CASE Verify(d)
    <3>1. pc[d] \in {"unlink", "unlink2", "unname", "serving"}  BY <1>4 DEF RemoveOwned
    <3> QED  BY <1>4, <2>2, <3>1, SMTT(30), SMTT(45) DEF TypeOK, RemoveOwned, Goto, files
  <2> QED  BY <1>4, <2>1, <2>2 DEF RemoveOwned
<1>5. ASSUME NEW d \in Daemons, Look(d)
      PROVE  TypeOK'
  <2>1. CASE Fail(d) /\ UNCHANGED <<lock, bound>>  BY <2>1, FailTyped
  <2>2. CASE Removed(d) /\ UNCHANGED <<lock, bound, holder, held, sock, name, raced, files>>
    BY <2>2, RemovedTyped DEF TypeOK, files
  <2>3. CASE Goto(d, "remove") /\ UNCHANGED <<lock, bound, holder, held, sock, name, want, next, raced, files>>
    BY <2>3 DEF TypeOK, Goto, files
  <2> QED  BY <1>5, <2>1, <2>2, <2>3 DEF Look
<1>6. ASSUME NEW d \in Daemons, Bind(d)
      PROVE  TypeOK'
  <2>1. CASE Fail(d) /\ UNCHANGED <<lock, bound>>  BY <2>1, FailTyped
  <2>2. CASE ~(Fail(d) /\ UNCHANGED <<lock, bound>>)
    <3>1. PICK n \in FreeNames :
            /\ bound < MaxSockets /\ bound' = bound + 1
            /\ sock' = [sock EXCEPT ![d] = bound + 1] /\ name' = [name EXCEPT ![d] = n]
            /\ pending' = [pending EXCEPT ![n] = bound + 1] /\ Goto(d, "bound")
            /\ UNCHANGED <<lock, holder, held, want, next, raced, marker, final>>
      BY <1>6, <2>2 DEF Bind
    <3>2. bound + 1 \in Sockets /\ bound + 1 \in 0..MaxSockets
      BY <3>1, ConstantsAssumption, SMTT(30), SMTT(45) DEF TypeOK, Sockets
    <3> QED  BY <3>1, <3>2 DEF TypeOK, Goto, FreeNames
  <2> QED  BY <2>1, <2>2
<1>7. ASSUME NEW d \in Daemons, Announce(d)
      PROVE  TypeOK'
  <2>1. CASE Fail(d) /\ UNCHANGED <<lock, bound>>  BY <2>1, FailTyped
  <2>2. CASE Verify(d)
    <3>1. Marker("pending", held[d], sock[d], name[d]) \in MarkerStates  BY MarkerTyped DEF TypeOK
    <3> QED  BY <1>7, <2>2, <3>1, SMTT(30), SMTT(45) DEF TypeOK, Announce, StartWrite, Goto, files
  <2> QED  BY <1>7, <2>1, <2>2 DEF Announce
<1>8. ASSUME NEW d \in Daemons, Publish(d)
      PROVE  TypeOK'
  <2>1. CASE Fail(d) /\ UNCHANGED <<lock, bound>>  BY <2>1, FailTyped
  <2>2. CASE Verify(d)  BY <1>8, <2>2 DEF TypeOK, Publish, Goto, files
  <2> QED  BY <1>8, <2>1, <2>2 DEF Publish
<1>9. ASSUME NEW d \in Daemons, Link(d)
      PROVE  TypeOK'
  <2>1. CASE Fail(d) /\ UNCHANGED <<lock, bound>>  BY <2>1, FailTyped
  <2>2. CASE Linkable
    <3>1. Marker("published", held[d], sock[d], name[d]) \in MarkerStates  BY MarkerTyped DEF TypeOK
    <3> QED  BY <1>9, <2>2, <3>1, SMTT(30), SMTT(45) DEF TypeOK, Link, StartWrite, Goto, Artifacts
  <2> QED  BY <1>9, <2>1, <2>2 DEF Link
<1>10. ASSUME NEW d \in Daemons, Remove(d)
       PROVE  TypeOK'
  <2>1. /\ final' \in {final, None} /\ UNCHANGED <<lock, holder, held, sock, name, raced, marker, bound>>
        /\ pending' \in [Names -> Sockets \cup {None}]
    BY <1>10 DEF Remove, TypeOK
  <2> QED  BY <1>10, <2>1, RemovedTyped DEF TypeOK, Remove
<1>12. ASSUME NEW d \in Daemons, CheckWrite(d)
       PROVE  TypeOK'
  <2>1. CASE Fail(d) /\ UNCHANGED <<lock, bound>>  BY <2>1, FailTyped
  <2>2. CASE Verify(d)  BY <1>12, <2>2 DEF TypeOK, CheckWrite, Goto, files
  <2> QED  BY <1>12, <2>1, <2>2 DEF CheckWrite
<1>13. ASSUME NEW d \in Daemons, Truncate(d)
       PROVE  TypeOK'
  BY <1>13, Blank DEF TypeOK, Truncate, Goto
<1>14. ASSUME NEW d \in Daemons, Write(d)
       PROVE  TypeOK'
  <2>1. CASE Leave(d)  BY <1>14, <2>1, LeaveTyped DEF TypeOK, Write
  <2>2. CASE ~Leave(d)  BY <1>14, <2>2 DEF TypeOK, Write, Goto
  <2> QED  BY <2>1, <2>2
<1>15. ASSUME NEW d \in Daemons, Kill(d)
       PROVE  TypeOK'
  BY <1>15, FailTyped DEF Kill
<1>16. ASSUME PlaceForeign
       PROVE  TypeOK'
  BY <1>16 DEF TypeOK, PlaceForeign, Artifacts
<1>17. ASSUME ReplaceLock
       PROVE  TypeOK'
  BY <1>17, ConstantsAssumption, SMTT(30), SMTT(45) DEF TypeOK, ReplaceLock, daemon, files, Locks
<1> QED
  BY <1>1, <1>2, <1>3, <1>4, <1>5, <1>6, <1>7, <1>8, <1>9, <1>10, <1>12, <1>13, <1>14, <1>15,
     <1>16, <1>17 DEF Next

-----------------------------------------------------------------------------
(* Locks and sockets *)

(* Daemon d goes on; locks and sockets stay. *)
Moves(d) ==
  /\ pc[d] # "off" /\ pc'[d] # "off"
  /\ \A e \in Daemons \ {d} : pc'[e] = pc[e] /\ next'[e] = next[e] /\ want'[e] = want[e]
  /\ lock' = lock /\ holder' = holder /\ held' = held /\ sock' = sock /\ bound' = bound

(* A daemon that does nothing claims what it claimed. *)
LEMMA SameDaemon ==
  ASSUME NEW e \in Daemons, pc'[e] = pc[e], next'[e] = next[e], want'[e] = want[e], sock'[e] = sock[e]
  PROVE  /\ Stage(e)' = Stage(e) /\ Item(e)' = Item(e)
         /\ Claims(e)' <=> Claims(e)
         /\ OnItsWay(e)' <=> OnItsWay(e)
<1>1. Stage(e)' = Stage(e)
  BY DEF Stage
<1>2. Clearing(e)' <=> Clearing(e)
  BY DEF Clearing
<1> QED
  BY <1>1, <1>2 DEF Item, Claims, OnItsWay

(* Which markers agree. *)
LEMMA Agreeing ==
  ASSUME NEW m, NEW n
  PROVE  /\ Agree(m, m) /\ (Agree(m, n) => Agree(n, m))
         /\ m.id = None => Agree(m, n)
         /\ \A d \in Daemons : m.lock = held[d] /\ m.id = sock[d] /\ Signed(d, n) => Agree(m, n)
BY DEF Agree, Signed

(* A step of a daemon keeps the ownership, if what it writes was read or   *)
(* names its own socket, and if it leaves the claims of others alone.      *)
LEMMA MoveKeeps ==
  ASSUME Owners, TypeOK', NEW d \in Daemons, Moves(d),
         want'[d] \in {want[d], marker, Empty} \/ (want'[d].lock = held[d] /\ want'[d].id = sock[d]),
         marker' \in {marker, Torn, want[d]},
         Stage(d)' \in Listening => sock[d] # None,
         Stage(d)' \in {"unlink", "unlink2"} => want'[d].lock = held[d],
         OnItsWay(d)', Claimed(d)',
         \/ final' = final /\ (Claims(d)' => Claims(d))
         \/ \A e \in Daemons \ {d} : ~Claims(e)
  PROVE  Owners'
<1>0. bound \in Nat /\ sock \in [Daemons -> Sockets \cup {None}] /\ Sockets \cup {None} \subseteq Nat
  BY Kinds, ConstantsAssumption, SMTT(30), SMTT(45) DEF Owners, TypeOK
<1>1. /\ want'[d].id <= bound
      /\ \A e \in Daemons : Signed(e, want'[d]) /\ Agree(want'[d], want[e]) /\ Agree(marker, want'[d])
  <2>1. CASE want'[d] \in {want[d], marker}
    <3>1. want'[d].id <= bound
      BY <2>1 DEF Owners, Own
    <3>2. \A e \in Daemons : Signed(e, want'[d])
      BY <2>1 DEF Owners
    <3>3. \A e \in Daemons : Agree(want'[d], want[e]) /\ Agree(marker, want'[d])
      BY <2>1, Agreeing DEF Owners
    <3> QED
      BY <3>1, <3>2, <3>3
  <2>2. CASE want'[d] = Empty
    <3>1. want'[d].id = None /\ None <= bound
      BY <2>2, <1>0, Blank, Kinds, SMTT(30), SMTT(45)
    <3> QED
      BY <3>1, Agreeing DEF Signed
  <2>3. CASE want'[d].lock = held[d] /\ want'[d].id = sock[d]
    <3>1. want'[d].id <= bound
      BY <2>3 DEF Owners, Own
    <3>2. \A e \in Daemons : Signed(e, want'[d])
      BY <2>3 DEF Owners, Signed
    <3>3. Signed(d, marker) /\ \A e \in Daemons : Signed(d, want[e])
      BY DEF Owners
    <3> QED
      BY <2>3, <3>1, <3>2, <3>3, Agreeing
  <2> QED  BY <2>1, <2>2, <2>3
<1>2. /\ marker'.id <= bound
      /\ \A e \in Daemons : Signed(e, marker') /\ Agree(marker', want[e]) /\ Agree(marker', want'[d])
  <2>1. CASE marker' = want[d]
    <3>1. marker'.id <= bound
      BY <2>1 DEF Owners, Own
    <3>2. \A e \in Daemons : Signed(e, marker') /\ Agree(marker', want[e])
      BY <2>1 DEF Owners
    <3> QED
      BY <2>1, <3>1, <3>2, <1>1, Agreeing
  <2>2. CASE marker' = marker  BY <2>2, <1>1 DEF Owners
  <2>3. CASE marker' = Torn
    <3>1. marker'.id = None /\ None <= bound
      BY <2>3, <1>0, Blank, Kinds, SMTT(30), SMTT(45)
    <3> QED
      BY <3>1, Agreeing DEF Signed
  <2> QED  BY <2>1, <2>2, <2>3
<1>a. ASSUME NEW e \in Daemons, e # d
      PROVE  /\ pc'[e] = pc[e] /\ want'[e] = want[e] /\ sock'[e] = sock[e]
             /\ Stage(e)' = Stage(e) /\ Item(e)' = Item(e)
             /\ Claims(e)' <=> Claims(e)
             /\ OnItsWay(e)' <=> OnItsWay(e)
  BY <1>a, SameDaemon DEF Moves
<1>3. ASSUME NEW e \in Daemons
      PROVE  Own(e)'
  <2>1. CASE e = d  BY <2>1, <1>1 DEF Owners, Own, Moves
  <2>2. CASE e # d
    <3>1. Own(e)
      BY DEF Owners
    <3>2. Claimed(e)'
      BY <2>2, <3>1, <1>a DEF Own, Claimed
    <3> QED
      BY <2>2, <3>1, <3>2, <1>a DEF Own, Moves
  <2> QED  BY <2>1, <2>2
<1>4. ASSUME NEW e \in Daemons
      PROVE  Signed(e, marker)' /\ Agree(marker, want[e])'
  <2>1. Signed(e, marker)'
    BY <1>2 DEF Signed, Moves
  <2>2. Agree(marker', want'[e])
    BY <1>2, <1>a
  <2> QED
    BY <2>1, <2>2 DEF Agree
<1>5. ASSUME NEW e \in Daemons, NEW g \in Daemons
      PROVE  Signed(e, want[g])' /\ Agree(want[e], want[g])'
  <2>1. Signed(e, want[g]) /\ Agree(want[e], want[g])
    BY DEF Owners
  <2>2. Signed(e, want'[g])
    BY <2>1, <1>1, <1>a
  <2>3. Agree(want'[e], want'[g])
    <3>1. CASE e = d /\ g = d  BY <3>1, Agreeing
    <3>2. CASE e = d /\ g # d  BY <3>2, <1>1, <1>a
    <3>3. CASE e # d /\ g = d  BY <3>3, <1>1, <1>a, Agreeing
    <3>4. CASE e # d /\ g # d  BY <3>4, <2>1, <1>a
    <3> QED  BY <3>1, <3>2, <3>3, <3>4
  <2> QED  BY <2>2, <2>3 DEF Signed, Agree, Moves
<1>6. \A e, g \in Daemons : sock'[e] = sock'[g] /\ sock'[e] # None => e = g
  BY DEF Owners, Moves
<1>7. ASSUME NEW e \in Daemons, NEW g \in Daemons, Claims(e)', Claims(g)'
      PROVE  e = g
  <2>1. CASE e # d /\ g # d  BY <2>1, <1>7, <1>a DEF Owners
  <2>2. CASE e = d \/ g = d
    <3>1. CASE Claims(d)' => Claims(d)  BY <2>2, <3>1, <1>7, <1>a DEF Owners
    <3>2. CASE \A h \in Daemons \ {d} : ~Claims(h)  BY <2>2, <3>2, <1>7, <1>a
    <3> QED  BY <3>1, <3>2
  <2> QED  BY <2>1, <2>2
<1>8. marker'.id <= bound'
  BY <1>2 DEF Moves
<1> QED  BY <1>3, <1>4, <1>5, <1>6, <1>7, <1>8 DEF Owners

(* A daemon that ends keeps the ownership of the others. *)
LEMMA LeaveKeeps ==
  ASSUME Owners, TypeOK', NEW d \in Daemons, Leave(d), marker' \in {marker, want[d]},
         lock' = lock, final' = final, bound' = bound
  PROVE  Owners'
<1>0. bound \in Nat /\ sock \in [Daemons -> Sockets \cup {None}] /\ Sockets \cup {None} \subseteq Nat
  BY Kinds, ConstantsAssumption, SMTT(30), SMTT(45) DEF Owners, TypeOK
<1>1. pc'[d] = "off" /\ sock'[d] = None /\ want'[d] = Absent /\ next'[d] = "off"
  BY SMTT(30), SMTT(45) DEF Leave, Owners, TypeOK
<1>2. ASSUME NEW e \in Daemons \ {d}
      PROVE  /\ pc'[e] = pc[e] /\ held'[e] = held[e] /\ sock'[e] = sock[e]
             /\ want'[e] = want[e] /\ next'[e] = next[e]
  BY SMTT(30), SMTT(45) DEF Leave, Owners, TypeOK
<1>3. \A l \in Locks : holder[l] # d => holder'[l] = holder[l]
  BY DEF Leave
<1>a. Stage(d)' = "off" /\ OnItsWay(d)' /\ ~Claims(d)'
  <2>1. Stage(d)' = "off"
    BY <1>1 DEF Stage
  <2> QED
    BY <2>1, <1>1 DEF OnItsWay, Claims, Clearing, Linked, Writing, Removing
<1>b. ASSUME NEW e \in Daemons \ {d}
      PROVE  /\ Stage(e)' = Stage(e) /\ Item(e)' = Item(e)
             /\ Claims(e)' <=> Claims(e)
             /\ OnItsWay(e)' <=> OnItsWay(e)
  BY <1>2, SameDaemon
<1>4. ASSUME NEW e \in Daemons
      PROVE  Own(e)'
  <2>1. CASE e = d
    <3>2. want'[e].id <= bound /\ sock'[e] <= bound  BY <2>1, <1>0, <1>1, Blank, Kinds, SMTT(30), SMTT(45)
    <3> QED  BY <2>1, <1>1, <1>a, <3>2 DEF Own, Claimed, Listening
  <2>2. CASE e # d
    <3>2. Own(e)  BY DEF Owners
    <3>3. pc'[e] # "off" => held'[e] \in Locks /\ holder'[held'[e]] = e /\ held'[e] <= lock'
      BY <2>2, <1>2, <1>3, <3>2 DEF Own
    <3>4. Claimed(e)'
      BY <2>2, <1>b, <3>2 DEF Own, Claimed
    <3> QED  BY <2>2, <1>2, <1>b, <3>2, <3>3, <3>4 DEF Own
  <2> QED  BY <2>1, <2>2
<1>5. ASSUME NEW e \in Daemons
      PROVE  Signed(e, marker)' /\ Agree(marker, want[e])'
  <2>1. Signed(e, marker) /\ Signed(e, want[d]) /\ Agree(marker, want[e]) /\ Agree(want[d], want[e])
    BY DEF Owners
  <2>2. Agree(marker', want'[e])
    BY <1>1, <1>2, <2>1, Agreeing, Blank
  <2> QED  BY <1>1, <1>2, <2>1, <2>2 DEF Signed, Agree
<1>6. ASSUME NEW e \in Daemons, NEW g \in Daemons
      PROVE  Signed(e, want[g])' /\ Agree(want[e], want[g])'
  <2>1. Signed(e, want[g]) /\ Agree(want[e], want[g])  BY DEF Owners
  <2>2. Signed(e, want[g])'
    <3>2. CASE g = d  BY <3>2, <1>1, Blank DEF Signed
    <3>3. CASE g # d  BY <2>1, <3>3, <1>1, <1>2 DEF Signed
    <3> QED  BY <3>2, <3>3
  <2>3. Agree(want'[e], want'[g])
    BY <2>1, <1>1, <1>2, Agreeing, Blank
  <2> QED  BY <2>2, <2>3 DEF Agree
<1>7. \A e, g \in Daemons : sock'[e] = sock'[g] /\ sock'[e] # None => e = g
  BY <1>1, <1>2, SMTT(30), SMTT(45) DEF Owners
<1>8. ASSUME NEW e \in Daemons, NEW g \in Daemons, Claims(e)', Claims(g)'
      PROVE  e = g
  BY <1>8, <1>a, <1>b DEF Owners
<1>9. marker'.id <= bound'
  BY DEF Owners, Own
<1> QED  BY <1>4, <1>5, <1>6, <1>7, <1>8, <1>9 DEF Owners

(* A failure keeps the ownership. *)
LEMMA FailKeeps ==
  ASSUME Owners, NEW d \in Daemons, Fail(d), UNCHANGED <<lock, bound>>
  PROVE  Owners'
<1>1. TypeOK'  BY FailTyped DEF Owners
<1>2. Leave(d) /\ marker' = marker /\ final' = final  BY DEF Fail, files
<1> QED  BY <1>1, <1>2, LeaveKeeps

(* Who links the final path, removes what it claims, or comes to claim     *)
(* what was left under its lock, is alone in claiming what is there.       *)
LEMMA Sole ==
  ASSUME Owners, NEW d \in Daemons, pc[d] # "off",
         final = None \/ Claims(d) \/ (final = want[d].id /\ want[d].lock = held[d])
  PROVE  \A e \in Daemons \ {d} : ~Claims(e)
<1> SUFFICES ASSUME NEW e \in Daemons, e # d, Claims(e)
             PROVE  FALSE
  OBVIOUS
<1>1. Item(e) # None /\ final \in {Item(e)} \cup Foreign
  BY DEF Owners, Own, Claimed
<1>2. final # None /\ ~Claims(d)
  BY <1>1, Kinds DEF Owners
<1>3. final = want[d].id /\ want[d].lock = held[d]
  BY <1>2
<1>4. want[d].id \in Sockets \cup {None}
  BY FieldTypes DEF Owners, TypeOK
<1>5. want[d].id = Item(e) /\ want[d].id # None
  BY <1>1, <1>2, <1>3, <1>4, Kinds
<1>6. pc[e] # "off"
  BY DEF Claims, Clearing, Stage, Linked, Writing, Removing
<1>7. held[e] # held[d]
  <2>1. Own(d) /\ Own(e)
    BY DEF Owners
  <2>2. holder[held[d]] = d /\ holder[held[e]] = e
    BY <1>6, <2>1 DEF Own
  <2> QED
    BY <2>2
<1>8. CASE Clearing(e)
  <2>1. Stage(e) = "unlink" /\ Item(e) = want[e].id
    BY <1>8 DEF Clearing, Stage, Removing, Item
  <2>2. want[e].lock = held[e]
    BY <2>1 DEF Owners, Own
  <2>3. Agree(want[d], want[e])
    BY DEF Owners
  <2> QED
    BY <1>3, <1>5, <1>7, <2>1, <2>2, <2>3 DEF Agree
<1>9. CASE ~Clearing(e)
  <2>1. Item(e) = sock[e]
    BY <1>9 DEF Item
  <2>2. Signed(e, want[d])
    BY DEF Owners
  <2> QED
    BY <1>1, <1>3, <1>5, <1>7, <2>1, <2>2 DEF Signed
<1> QED
  BY <1>8, <1>9

(* A daemon that goes on, as the actions write it. *)
LEMMA Going ==
  ASSUME TypeOK, NEW d \in Daemons, NEW where, pc[d] # "off", where # "off", Goto(d, where),
         UNCHANGED <<lock, holder, held, sock, bound>>,
         \/ UNCHANGED <<want, next>>
         \/ \E m : want' = [want EXCEPT ![d] = m] /\ next' = next
         \/ \E then : want' = want /\ next' = [next EXCEPT ![d] = then]
         \/ \E m, then : want' = [want EXCEPT ![d] = m] /\ next' = [next EXCEPT ![d] = then]
  PROVE  Moves(d) /\ pc'[d] = where
BY DEF Moves, Goto, TypeOK

(* A daemon that starts to write a marker. *)
LEMMA Starting ==
  ASSUME TypeOK, NEW d \in Daemons, NEW m, NEW then, pc[d] # "off", StartWrite(d, m, then),
         UNCHANGED <<lock, holder, held, sock, bound>>
  PROVE  /\ Moves(d) /\ pc'[d] = "check" /\ want'[d] = m /\ next'[d] = then /\ Stage(d)' = then
         /\ Claims(d)' <=> then \in Linked
         /\ Item(d)' = sock[d]
         /\ then \notin {"unlink", "unlink2"} => OnItsWay(d)'
<1>1. Moves(d) /\ pc'[d] = "check"
  BY Going DEF StartWrite
<1>2. want'[d] = m /\ next'[d] = then
  BY DEF StartWrite, TypeOK
<1>3. Stage(d)' = then /\ ~Clearing(d)'
  BY <1>1, <1>2 DEF Stage, Writing, Clearing
<1> QED
  BY <1>1, <1>2, <1>3 DEF Claims, Item, OnItsWay, Removing, Moves

(* A daemon that goes on outside of a removal claims its linked socket. *)
LEMMA Passing ==
  ASSUME NEW d \in Daemons, pc'[d] \notin Removing, pc'[d] \notin Writing, sock'[d] = sock[d]
  PROVE  /\ Stage(d)' = pc'[d] /\ Item(d)' = sock[d] /\ OnItsWay(d)'
         /\ Claims(d)' <=> pc'[d] \in Linked
<1>1. Stage(d)' = pc'[d] /\ ~Clearing(d)'
  BY DEF Stage, Clearing, Removing
<1> QED
  BY <1>1 DEF Claims, Item, OnItsWay

(* A daemon that goes on and claims nothing keeps the ownership. *)
LEMMA ModestKeeps ==
  ASSUME Owners, TypeOK', NEW d \in Daemons, Moves(d), final' = final,
         want'[d] \in {want[d], marker, Empty} \/ (want'[d].lock = held[d] /\ want'[d].id = sock[d]),
         marker' \in {marker, Torn, want[d]},
         Stage(d)' \in Listening => sock[d] # None,
         Stage(d)' \in {"unlink", "unlink2"} => want'[d].lock = held[d],
         OnItsWay(d)', Claims(d)' => Claims(d) /\ Item(d)' = Item(d)
  PROVE  Owners'
<1>1. Claimed(d)'
  BY DEF Owners, Own, Claimed
<1> QED
  BY <1>1, MoveKeeps

(* Where a write leads. *)
LEMMA WritesTo ==
  ASSUME Owners, NEW d \in Daemons, pc[d] \in Writing
  PROVE  next[d] \in {"off", "recover", "bind", "publish", "unname", "serving"}
<1>1. next[d] \in {"off", "recover", "bind", "publish", "unlink", "unlink2", "unname", "serving"}
  BY DEF Owners, TypeOK
<1>2. next[d] \notin {"unlink", "unlink2"}
  BY DEF Owners, Own, OnItsWay
<1> QED
  BY <1>1, <1>2

(* Where a removal leads. *)
LEMMA Removes ==
  ASSUME Owners, NEW d \in Daemons, pc[d] \in Removing, Removed(d),
         UNCHANGED <<lock, holder, held, sock, bound>>
  PROVE  /\ Moves(d)
         /\ \/ next[d] = "unlink" /\ pc'[d] = "unlink2" /\ want'[d] = want[d]
            \/ StartWrite(d, Empty, "bind") /\ next[d] \in {"unlink", "unlink2"}
            \/ StartWrite(d, Marker("published", held[d], sock[d], None), "serving") /\ next[d] = "unname"
            \/ StartWrite(d, Empty, "off") /\ next[d] = "serving"
<1>0. TypeOK /\ pc[d] # "off" /\ next[d] \in {"unlink", "unlink2", "unname", "serving"}
  BY DEF Owners, Own, OnItsWay, Removing
<1>1. CASE HasPendingName(d)
  <2>1. Goto(d, "unlink2") /\ UNCHANGED <<want, next>>
    BY <1>1 DEF Removed
  <2>2. Moves(d) /\ pc'[d] = "unlink2"
    BY <1>0, <2>1, Going
  <2> QED
    BY <1>1, <2>1, <2>2 DEF HasPendingName
<1>2. CASE ~HasPendingName(d)
  <2>1. StartWrite(d, MarkerAfter(d), PlaceAfter(d))
    BY <1>2 DEF Removed
  <2>2. Moves(d)
    BY <1>0, <2>1, Starting
  <2>3. CASE next[d] \in {"unlink", "unlink2"}
    <3>1. MarkerAfter(d) = Empty /\ PlaceAfter(d) = "bind"
      BY <2>3 DEF MarkerAfter, PlaceAfter
    <3> QED
      BY <2>1, <2>2, <2>3, <3>1
  <2>4. CASE next[d] = "unname"
    <3>1. MarkerAfter(d) = Marker("published", held[d], sock[d], None) /\ PlaceAfter(d) = "serving"
      BY <2>4 DEF MarkerAfter, PlaceAfter
    <3> QED
      BY <2>1, <2>2, <2>4, <3>1
  <2>5. CASE next[d] = "serving"
    <3>1. MarkerAfter(d) = Empty /\ PlaceAfter(d) = "off"
      BY <2>5 DEF MarkerAfter, PlaceAfter
    <3> QED
      BY <2>1, <2>2, <2>5, <3>1
  <2> QED
    BY <1>0, <2>3, <2>4, <2>5
<1> QED
  BY <1>1, <1>2

(* A removal keeps the ownership: what it unlinked it claimed. *)
LEMMA RemovalKeeps ==
  ASSUME Owners, TypeOK', NEW d \in Daemons, pc[d] \in Removing, Removed(d),
         UNCHANGED <<lock, holder, held, sock, bound, marker>>,
         final' = final \/ Unlinking(d)
  PROVE  Owners'
<1>0. TypeOK /\ pc[d] # "off" /\ Stage(d) = next[d] /\ Moves(d)
  BY Removes DEF Owners, Removing, Stage
<1>1. ASSUME Claims(d)' => final' = final /\ Claims(d) /\ Item(d)' = Item(d)
      PROVE  /\ Claimed(d)'
             /\ \/ final' = final /\ (Claims(d)' => Claims(d))
                \/ \A e \in Daemons \ {d} : ~Claims(e)
  <2>1. Claimed(d)'
    BY <1>1 DEF Owners, Own, Claimed
  <2>2. Unlinking(d) => Claims(d)
    BY <1>0 DEF Unlinking, AtFinal, Claims, Clearing, Linked
  <2> QED
    BY <1>0, <1>1, <2>1, <2>2, Sole
<1>2. CASE next[d] = "unlink" /\ pc'[d] = "unlink2" /\ want'[d] = want[d]
  <2>1. Stage(d)' = "unlink2" /\ OnItsWay(d)' /\ ~Claims(d)'
    BY <1>0, <1>2, Passing DEF Moves, Removing, Writing, Linked
  <2>2. want'[d].lock = held[d]
    BY <1>0, <1>2 DEF Owners, Own
  <2> QED
    BY <1>0, <1>1, <1>2, <2>1, <2>2, MoveKeeps DEF Listening
<1>3. ASSUME NEW then \in {"bind", "off"}, StartWrite(d, Empty, then)
      PROVE  Owners'
  <2>1. want'[d] = Empty /\ Stage(d)' = then /\ OnItsWay(d)' /\ ~Claims(d)'
    BY <1>0, <1>3, Starting DEF Linked
  <2> QED
    BY <1>0, <1>1, <2>1, MoveKeeps DEF Listening
<1>4. CASE StartWrite(d, Marker("published", held[d], sock[d], None), "serving") /\ next[d] = "unname"
  <2> DEFINE m == Marker("published", held[d], sock[d], None)
  <2>1. m.lock = held[d] /\ m.id = sock[d]
    BY Fields, SMTT(30), SMTT(45)
  <2>2. StartWrite(d, m, "serving")
    BY <1>4
  <2> HIDE DEF m
  <2>3. want'[d] = m /\ Stage(d)' = "serving" /\ OnItsWay(d)' /\ Item(d)' = sock[d]
    BY <1>0, <2>2, Starting
  <2>4. Claims(d) /\ Item(d) = sock[d] /\ sock[d] # None /\ final' = final
    BY <1>0, <1>4 DEF Claims, Linked, Item, Clearing, Owners, Own, Listening, Unlinking, AtFinal
  <2> QED
    BY <1>0, <2>1, <2>3, <2>4, ModestKeeps
<1> QED
  BY <1>2, <1>3, <1>4, Removes

(* Every step keeps the ownership. *)
LEMMA OwnersStep ==
  ASSUME Owners, Next
  PROVE  Owners'
<1>0. TypeOK /\ TypeOK'
  BY TypeStep DEF Owners
<1> USE <1>0
<1>1. ASSUME NEW d \in Daemons, OpenOwnerLock(d)
      PROVE  Owners'
  <2>1. /\ pc[d] = "off" /\ pc'[d] = "marker" /\ held'[d] = lock /\ holder[lock] = Nobody /\ holder'[lock] = d
        /\ UNCHANGED <<lock, marker, final, sock, want, next, bound>>
    BY <1>1 DEF OpenOwnerLock, LockFree, Goto, files, TypeOK
  <2>2. /\ \A e \in Daemons \ {d} : pc'[e] = pc[e] /\ held'[e] = held[e]
        /\ \A l \in Locks \ {lock} : holder'[l] = holder[l]
    BY <1>1 DEF OpenOwnerLock, Goto, TypeOK
  <2>3. ASSUME NEW e \in Daemons
        PROVE  Own(e)' /\ (Claims(e)' <=> Claims(e))
    <3>1. Own(e) /\ lock \in Locks
      BY DEF Owners, TypeOK
    <3>2. CASE e = d
      <4>1. Stage(e)' = "marker" /\ OnItsWay(e)' /\ ~Claims(e)'
        BY <3>2, <2>1, Passing DEF Writing, Removing, Linked
      <4>2. lock <= lock
        BY <3>1, Kinds, SMTT(30), SMTT(45)
      <4>3. ~Claims(e)
        BY <3>2, <2>1 DEF Claims, Clearing, Stage, Writing, Removing, Linked
      <4> QED
        BY <3>1, <3>2, <4>1, <4>2, <4>3, <2>1 DEF Own, Claimed, Listening
    <3>3. CASE e # d
      <4>1. Stage(e)' = Stage(e) /\ Item(e)' = Item(e) /\ (Claims(e)' <=> Claims(e)) /\ (OnItsWay(e)' <=> OnItsWay(e))
        BY <3>3, <2>1, <2>2, SameDaemon
      <4>2. pc[e] # "off" => held[e] # lock
        BY <3>1, <2>1, ConstantsAssumption DEF Own
      <4>3. Claimed(e)'
        BY <3>1, <4>1, <2>1 DEF Own, Claimed
      <4> QED
        BY <3>1, <3>3, <4>1, <4>2, <4>3, <2>1, <2>2 DEF Own
    <3> QED
      BY <3>2, <3>3
  <2>4. sock[d] = None
    BY <2>1 DEF Owners, Own
  <2>5. ASSUME NEW e \in Daemons, NEW m, Signed(e, m)
        PROVE  (sock[e] # None /\ m.id = sock[e] => m.lock = held'[e])
    BY <2>2, <2>4, <2>5 DEF Signed
  <2>6. \A e \in Daemons : Signed(e, marker)' /\ Agree(marker, want[e])'
    BY <2>1, <2>5 DEF Owners, Signed, Agree
  <2>7. \A e, g \in Daemons : Signed(e, want[g])' /\ Agree(want[e], want[g])'
    BY <2>1, <2>5 DEF Owners, Signed, Agree
  <2>8. \A e, g \in Daemons : Claims(e)' /\ Claims(g)' => e = g
    BY <2>3 DEF Owners
  <2> QED
    BY <2>1, <2>3, <2>6, <2>7, <2>8 DEF Owners
<1>2. ASSUME NEW d \in Daemons, Fail(d) /\ UNCHANGED <<lock, bound>>
      PROVE  Owners'
  BY <1>2, FailKeeps
<1>3. ASSUME NEW d \in Daemons, OpenMarker(d)
      PROVE  Owners'
  <2>1. pc[d] = "marker"
    BY <1>3 DEF OpenMarker
  <2>2. CASE marker = Absent
    <3>1. StartWrite(d, Empty, "recover") /\ marker' = Torn /\ UNCHANGED <<lock, holder, held, sock, bound, final>>
      BY <1>3, <2>2, Blank DEF OpenMarker
    <3>2. Moves(d) /\ want'[d] = Empty /\ Stage(d)' = "recover" /\ OnItsWay(d)' /\ ~Claims(d)'
      BY <2>1, <3>1, Starting DEF Linked
    <3> QED
      BY <3>1, <3>2, ModestKeeps DEF Listening
  <2>3. CASE marker \notin {Absent, Torn}
    <3>1. /\ Goto(d, "recover") /\ want' = [want EXCEPT ![d] = marker]
          /\ UNCHANGED <<lock, holder, held, sock, bound, next, marker, final>>
      BY <1>3, <2>3 DEF OpenMarker, files
    <3>2. Moves(d) /\ pc'[d] = "recover" /\ want'[d] = marker
      BY <2>1, <3>1, Going DEF TypeOK
    <3>3. Stage(d)' = "recover" /\ OnItsWay(d)' /\ ~Claims(d)'
      BY <3>1, <3>2, Passing DEF Writing, Removing, Linked
    <3> QED
      BY <3>1, <3>2, <3>3, ModestKeeps DEF Listening
  <2> QED
    BY <1>2, <1>3, <2>2, <2>3 DEF OpenMarker
<1>4. ASSUME NEW d \in Daemons, RecoverMarker(d)
      PROVE  Owners'
  <2>1. pc[d] = "recover"
    BY <1>4 DEF RecoverMarker
  <2>2. CASE Recoverable(d, want[d])
    <3> DEFINE where == IF want[d] = Empty THEN "bind" ELSE "unlink"
    <3>1. Goto(d, where) /\ UNCHANGED <<lock, holder, held, sock, bound, want, next, marker, final>>
      BY <1>4, <2>2 DEF RecoverMarker, files
    <3>2. Moves(d) /\ pc'[d] = where
      BY <2>1, <3>1, Going
    <3>3. Stage(d)' = where /\ OnItsWay(d)' /\ ~Claims(d)' /\ where \notin Listening
      BY <3>1, <3>2, Passing DEF Writing, Removing, Listening, Linked
    <3>4. where = "unlink" => want'[d].lock = held[d]
      BY <2>2, <3>1 DEF Recoverable
    <3> QED
      BY <3>1, <3>2, <3>3, <3>4, ModestKeeps
  <2> QED
    BY <1>2, <1>4, <2>2 DEF RecoverMarker
<1>5. ASSUME NEW d \in Daemons, RemoveOwned(d)
      PROVE  Owners'
  <2>1. pc[d] \in {"unlink", "unlink2", "unname", "serving"} /\ Stage(d) = pc[d]
    BY <1>5 DEF RemoveOwned, Stage, Writing, Removing
  <2>2. CASE Verify(d)
    <3>1. /\ Goto(d, "look") /\ next' = [next EXCEPT ![d] = pc[d]]
          /\ UNCHANGED <<lock, holder, held, sock, bound, want, marker, final>>
      BY <1>5, <2>2 DEF RemoveOwned, files
    <3>2. Moves(d) /\ pc'[d] = "look" /\ next'[d] = pc[d]
      BY <2>1, <3>1, Going DEF TypeOK
    <3>3. Stage(d)' = Stage(d) /\ OnItsWay(d)' /\ ~Clearing(d)' /\ ~Clearing(d)
      BY <2>1, <3>2 DEF Stage, OnItsWay, Clearing, Writing, Removing
    <3>4. Item(d)' = Item(d) /\ (Claims(d)' => Claims(d))
      BY <3>1, <3>3 DEF Item, Claims
    <3>5. (Stage(d) \in Listening => sock[d] # None) /\ (Stage(d) \in {"unlink", "unlink2"} => want'[d].lock = held[d])
      BY <3>1 DEF Owners, Own
    <3> QED
      BY <3>1, <3>2, <3>3, <3>4, <3>5, ModestKeeps
  <2> QED
    BY <1>2, <1>5, <2>2 DEF RemoveOwned
<1>6. ASSUME NEW d \in Daemons, Look(d)
      PROVE  Owners'
  <2>1. pc[d] = "look" /\ Stage(d) = next[d] /\ ~Clearing(d)
    BY <1>6 DEF Look, Stage, Removing, Clearing
  <2>2. CASE Removed(d) /\ UNCHANGED <<lock, bound, holder, held, sock, files>>
    BY <2>1, <2>2, RemovalKeeps DEF Removing, files
  <2>3. CASE /\ Matches(d) /\ FileThere(d) # None /\ Goto(d, "remove")
             /\ UNCHANGED <<lock, bound, holder, held, sock, want, next, files>>
    <3>1. UNCHANGED <<lock, holder, held, sock, bound, want, next, marker, final>>
      BY <2>3 DEF files
    <3>2. Moves(d) /\ pc'[d] = "remove" /\ next'[d] = next[d] /\ want'[d] = want[d]
      BY <2>1, <2>3, <3>1, Going
    <3>3. Stage(d)' = Stage(d) /\ OnItsWay(d)' /\ (Clearing(d)' <=> next[d] = "unlink")
      BY <2>1, <3>2 DEF Stage, OnItsWay, Clearing, Writing, Removing, Owners, Own
    <3>4. (Stage(d) \in Listening => sock[d] # None) /\ (Stage(d) \in {"unlink", "unlink2"} => want'[d].lock = held[d])
      BY <3>1 DEF Owners, Own
    <3>5. CASE next[d] = "unlink"
      <4>1. Item(d)' = want[d].id /\ want[d].id = final /\ final # None /\ want[d].lock = held[d]
        BY <2>1, <2>3, <3>1, <3>2, <3>3, <3>4, <3>5 DEF Item, Matches, FileThere, AtFinal, Expected
      <4>2. \A e \in Daemons \ {d} : ~Claims(e)
        BY <2>1, <4>1, Sole
      <4>3. Claimed(d)'
        BY <3>1, <4>1 DEF Claimed
      <4> QED
        BY <3>1, <3>2, <3>3, <3>4, <4>2, <4>3, MoveKeeps
    <3>6. CASE next[d] # "unlink"
      <4>1. Item(d)' = Item(d) /\ (Claims(d)' => Claims(d))
        BY <2>1, <3>1, <3>3, <3>6 DEF Item, Claims
      <4> QED
        BY <3>1, <3>2, <3>3, <3>4, <4>1, ModestKeeps
    <3> QED
      BY <3>5, <3>6
  <2> QED
    BY <1>2, <1>6, <2>2, <2>3 DEF Look
<1>7. ASSUME NEW d \in Daemons, Bind(d)
      PROVE  Owners'
  <2>1. CASE Fail(d) /\ UNCHANGED <<lock, bound>>
    BY <1>2, <2>1
  <2>2. CASE ~ (Fail(d) /\ UNCHANGED <<lock, bound>>)
    <3>1. /\ pc[d] = "bind" /\ bound' = bound + 1 /\ sock' = [sock EXCEPT ![d] = bound + 1]
          /\ Goto(d, "bound") /\ UNCHANGED <<lock, holder, held, want, next, marker, final>>
      BY <1>7, <2>2 DEF Bind
    <3>2. /\ pc'[d] = "bound" /\ sock'[d] = bound + 1
          /\ \A e \in Daemons \ {d} : pc'[e] = pc[e] /\ sock'[e] = sock[e]
      BY <3>1 DEF Goto, TypeOK
    <3>3. /\ \A e \in Daemons : sock[e] \in Nat /\ sock[e] <= bound /\ want[e].id \in Nat /\ want[e].id <= bound
          /\ marker.id \in Nat /\ marker.id <= bound /\ bound \in Nat
      <4>1. bound \in Nat
        BY ConstantsAssumption, SMTT(30), SMTT(45) DEF TypeOK
      <4>2. /\ \A x \in Sockets \cup {None} : x \in Nat
            /\ \A m \in MarkerStates : m.id \in Sockets \cup {None}
        BY FieldTypes, Kinds
      <4>3. \A e \in Daemons : sock[e] \in Sockets \cup {None} /\ want[e] \in MarkerStates
        BY DEF TypeOK
      <4>4. marker \in MarkerStates /\ marker.id <= bound /\ \A e \in Daemons : Own(e)
        BY DEF Owners, TypeOK
      <4> QED
        BY <4>1, <4>2, <4>3, <4>4 DEF Own
    <3>4. /\ \A x \in Nat : x <= bound => x <= bound' /\ x # bound + 1
          /\ bound + 1 <= bound' /\ bound + 1 # None
      BY <3>1, <3>3, SMTT(30), SMTT(45) DEF None
    <3>5. ASSUME NEW e \in Daemons
          PROVE  Own(e)' /\ (Claims(e)' => Claims(e))
      <4>1. Own(e)
        BY DEF Owners
      <4>2. CASE e = d
        <5>1. Stage(e)' = "bound" /\ OnItsWay(e)' /\ ~Claims(e)'
          BY <4>2, <3>2 DEF Stage, OnItsWay, Claims, Clearing, Writing, Removing, Linked
        <5> QED
          BY <3>1, <3>2, <3>3, <3>4, <4>1, <4>2, <5>1 DEF Own, Claimed, Listening
      <4>3. CASE e # d
        <5>1. Stage(e)' = Stage(e) /\ Item(e)' = Item(e) /\ (Claims(e)' <=> Claims(e)) /\ (OnItsWay(e)' <=> OnItsWay(e))
          BY <4>3, <3>1, <3>2, SameDaemon
        <5>2. Claimed(e)'
          BY <4>1, <5>1, <3>1 DEF Own, Claimed
        <5> QED
          BY <3>1, <3>2, <3>3, <3>4, <4>1, <4>3, <5>1, <5>2 DEF Own
      <4> QED
        BY <4>2, <4>3
    <3>6. ASSUME NEW e \in Daemons, NEW m, Signed(e, m), m.id \in Nat, m.id <= bound
          PROVE  sock'[e] # None /\ m.id = sock'[e] => m.lock = held'[e]
      BY <3>1, <3>2, <3>4, <3>6 DEF Signed
    <3>7. \A e \in Daemons : Signed(e, marker)' /\ Agree(marker, want[e])'
      BY <3>1, <3>3, <3>6 DEF Owners, Signed, Agree
    <3>8. \A e, g \in Daemons : Signed(e, want[g])' /\ Agree(want[e], want[g])'
      BY <3>1, <3>3, <3>6 DEF Owners, Signed, Agree
    <3>9. \A e, g \in Daemons : sock'[e] = sock'[g] /\ sock'[e] # None => e = g
      BY <3>2, <3>3, <3>4 DEF Owners
    <3>10. \A e, g \in Daemons : Claims(e)' /\ Claims(g)' => e = g
      BY <3>5 DEF Owners
    <3> QED
      BY <3>1, <3>3, <3>4, <3>5, <3>7, <3>8, <3>9, <3>10 DEF Owners
  <2> QED
    BY <2>1, <2>2
<1>8. ASSUME NEW d \in Daemons, Announce(d)
      PROVE  Owners'
  <2>1. pc[d] = "bound" /\ Stage(d) = "bound"
    BY <1>8 DEF Announce, Stage, Writing, Removing
  <2>2. CASE Verify(d)
    <3> DEFINE m == Marker("pending", held[d], sock[d], name[d])
    <3>1. StartWrite(d, m, "publish") /\ UNCHANGED <<lock, holder, held, sock, bound, marker, final>>
      BY <1>8, <2>2 DEF Announce, files
    <3>2. m.lock = held[d] /\ m.id = sock[d]
      BY Fields, SMTT(30), SMTT(45)
    <3> HIDE DEF m
    <3>3. Moves(d) /\ want'[d] = m /\ Stage(d)' = "publish" /\ OnItsWay(d)' /\ ~Claims(d)'
      BY <2>1, <3>1, Starting DEF Linked
    <3>4. sock[d] # None
      BY <2>1 DEF Owners, Own, Listening
    <3> QED
      BY <3>1, <3>2, <3>3, <3>4, ModestKeeps
  <2> QED
    BY <1>2, <1>8, <2>2 DEF Announce
<1>9. ASSUME NEW d \in Daemons, Publish(d)
      PROVE  Owners'
  <2>1. pc[d] = "publish" /\ Stage(d) = "publish"
    BY <1>9 DEF Publish, Stage, Writing, Removing
  <2>2. CASE Verify(d)
    <3>1. Goto(d, "link") /\ UNCHANGED <<lock, holder, held, sock, bound, want, next, marker, final>>
      BY <1>9, <2>2 DEF Publish, files
    <3>2. Moves(d) /\ pc'[d] = "link"
      BY <2>1, <3>1, Going
    <3>3. Stage(d)' = "link" /\ OnItsWay(d)' /\ ~Claims(d)'
      BY <3>1, <3>2, Passing DEF Writing, Removing, Linked
    <3>4. sock[d] # None
      BY <2>1 DEF Owners, Own, Listening
    <3> QED
      BY <3>1, <3>2, <3>3, <3>4, ModestKeeps
  <2> QED
    BY <1>2, <1>9, <2>2 DEF Publish
<1>10. ASSUME NEW d \in Daemons, Link(d)
       PROVE  Owners'
  <2>1. pc[d] = "link" /\ Stage(d) = "link"
    BY <1>10 DEF Link, Stage, Writing, Removing
  <2>2. CASE Linkable
    <3> DEFINE m == Marker("published", held[d], sock[d], name[d])
    <3>1. /\ StartWrite(d, m, "unname") /\ final = None /\ final' = sock[d]
          /\ UNCHANGED <<lock, holder, held, sock, bound, marker>>
      BY <1>10, <2>2 DEF Link, Linkable
    <3>2. m.lock = held[d] /\ m.id = sock[d]
      BY Fields, SMTT(30), SMTT(45)
    <3> HIDE DEF m
    <3>3. Moves(d) /\ want'[d] = m /\ Stage(d)' = "unname" /\ OnItsWay(d)' /\ Item(d)' = sock[d]
      BY <2>1, <3>1, Starting
    <3>4. sock[d] # None
      BY <2>1 DEF Owners, Own, Listening
    <3>5. Claimed(d)' /\ \A e \in Daemons \ {d} : ~Claims(e)
      BY <2>1, <3>1, <3>3, <3>4, Sole DEF Claimed
    <3> QED
      BY <3>1, <3>2, <3>3, <3>4, <3>5, MoveKeeps
  <2> QED
    BY <1>2, <1>10, <2>2 DEF Link
<1>11. ASSUME NEW d \in Daemons, Remove(d)
       PROVE  Owners'
  <2>1. /\ pc[d] = "remove" /\ Removed(d) /\ UNCHANGED <<lock, holder, held, sock, bound, marker>>
        /\ final' = final \/ Unlinking(d)
    BY <1>11 DEF Remove, Unlinking
  <2> QED
    BY <2>1, RemovalKeeps DEF Removing
<1>13. ASSUME NEW d \in Daemons, CheckWrite(d) \/ Truncate(d)
       PROVE  Owners'
  <2>1. pc[d] \in {"check", "truncate"} /\ Stage(d) = next[d]
    BY <1>13 DEF CheckWrite, Truncate, Stage, Writing
  <2>2. ASSUME NEW where \in {"truncate", "write"}, Goto(d, where), marker' \in {marker, Torn},
               UNCHANGED <<lock, holder, held, sock, bound, want, next, final>>
        PROVE  Owners'
    <3>1. Moves(d) /\ pc'[d] = where
      BY <2>1, <2>2, Going
    <3>2. Stage(d)' = Stage(d) /\ ~Clearing(d) /\ ~Clearing(d)'
      BY <2>1, <2>2, <3>1 DEF Stage, Writing, Clearing
    <3>3. Item(d)' = Item(d) /\ (Claims(d)' => Claims(d))
      BY <2>2, <3>2 DEF Item, Claims
    <3>4. /\ Stage(d) \in Listening => sock[d] # None
          /\ Stage(d) \in {"unlink", "unlink2"} => want'[d].lock = held[d]
          /\ OnItsWay(d)
      BY <2>2 DEF Owners, Own
    <3>5. OnItsWay(d)'
      BY <2>1, <2>2, <3>1, <3>4 DEF OnItsWay, Writing, Removing
    <3> QED
      BY <2>2, <3>1, <3>2, <3>3, <3>4, <3>5, ModestKeeps
  <2> QED
    BY <1>2, <1>13, <2>2 DEF CheckWrite, Truncate, files
<1>14. ASSUME NEW d \in Daemons, Write(d)
       PROVE  Owners'
  <2>1. pc[d] = "write" /\ Stage(d) = next[d] /\ marker' = want[d] /\ UNCHANGED <<lock, final, bound>>
    BY <1>14 DEF Write, Stage, Writing
  <2>2. CASE Leave(d)
    BY <2>1, <2>2, LeaveKeeps
  <2>3. CASE ~Leave(d)
    <3>1. Goto(d, next[d]) /\ next[d] # "off" /\ UNCHANGED <<holder, held, sock, want, next>>
      BY <1>14, <2>3 DEF Write
    <3>2. Moves(d) /\ pc'[d] = next[d]
      BY <2>1, <3>1, Going
    <3>3. next[d] \in {"recover", "bind", "publish", "unname", "serving"}
      BY <2>1, <3>1, WritesTo DEF Writing
    <3>4. Stage(d)' = Stage(d) /\ OnItsWay(d)' /\ Item(d)' = sock[d] /\ (Claims(d)' <=> Stage(d) \in Linked)
      BY <2>1, <3>1, <3>2, <3>3, Passing DEF Writing, Removing
    <3>5. Item(d) = sock[d] /\ (Stage(d) \in Linked => Claims(d))
      BY <2>1 DEF Item, Claims, Clearing
    <3>6. Stage(d) \in Listening => sock[d] # None
      BY DEF Owners, Own
    <3> QED
      BY <2>1, <3>1, <3>2, <3>3, <3>4, <3>5, <3>6, ModestKeeps
  <2> QED
    BY <2>2, <2>3
<1>15. ASSUME NEW d \in Daemons, Kill(d)
       PROVE  Owners'
  BY <1>2, <1>15 DEF Kill
<1>16. ASSUME PlaceForeign
       PROVE  Owners'
  <2>1. final' \in Foreign /\ UNCHANGED <<lock, holder, marker, pc, held, sock, name, want, next, bound>>
    BY <1>16 DEF PlaceForeign
  <2>2. \A e \in Daemons : /\ Stage(e)' = Stage(e) /\ Item(e)' = Item(e) /\ (Claims(e)' <=> Claims(e))
                           /\ OnItsWay(e)' <=> OnItsWay(e)
    BY <2>1, SameDaemon
  <2>3. \A e \in Daemons : Own(e)'
    BY <2>1, <2>2 DEF Owners, Own, Claimed
  <2> QED
    BY <2>1, <2>2, <2>3 DEF Owners, Signed, Agree
<1>17. ASSUME ReplaceLock
       PROVE  Owners'
  <2>1. lock' = lock + 1 /\ UNCHANGED <<holder, marker, final, pc, held, sock, name, want, next, bound>>
    BY <1>17 DEF ReplaceLock, daemon, files
  <2>2. \A e \in Daemons : /\ Stage(e)' = Stage(e) /\ Item(e)' = Item(e) /\ (Claims(e)' <=> Claims(e))
                           /\ OnItsWay(e)' <=> OnItsWay(e)
    BY <2>1, SameDaemon
  <2>3. \A l \in Locks : l <= lock => l <= lock'
    BY <2>1, Kinds, SMTT(30), SMTT(45) DEF TypeOK
  <2>4. \A e \in Daemons : Own(e)'
    BY <2>1, <2>2, <2>3 DEF Owners, Own, Claimed
  <2> QED
    BY <2>1, <2>2, <2>4 DEF Owners, Signed, Agree
<1> QED
  BY <1>1, <1>3, <1>4, <1>5, <1>6, <1>7, <1>8, <1>9, <1>10, <1>11, <1>13, <1>14, <1>15, <1>16, <1>17
     DEF Next

-----------------------------------------------------------------------------
(* What other programs put at the final path *)

(* What a step of daemon d has to show. *)
LEMMA WatchedBy ==
  ASSUME Watched, NEW d \in Daemons,
         final' \in Foreign => final' = final,
         \A e \in Daemons \ {d} : pc'[e] = pc[e] /\ next'[e] = next[e] /\ (e \in raced => e \in raced'),
         Unlinking(d)' => final' \notin Foreign
  PROVE  Watched'
<1>1. ASSUME NEW e \in Daemons \ {d}
      PROVE  Unlinking(e)' <=> Unlinking(e)
  BY DEF Unlinking, AtFinal
<1> QED
  BY <1>1 DEF Watched

(* A daemon that ends is no longer about to unlink anything. *)
LEMMA LeaveWatched ==
  ASSUME TypeOK, Watched, NEW d \in Daemons, Leave(d), final' = final
  PROVE  Watched'
<1>1. /\ pc'[d] = "off" /\ raced' = raced \ {d}
      /\ \A e \in Daemons \ {d} : pc'[e] = pc[e] /\ next'[e] = next[e]
  BY DEF Leave, TypeOK
<1>2. ~Unlinking(d)'
  BY <1>1 DEF Unlinking
<1> QED
  BY <1>1, <1>2, WatchedBy

(* Every step keeps the watch: who comes to unlink the final path has seen *)
(* a daemon's socket there.                                                *)
LEMMA WatchedStep ==
  ASSUME Owners, Next, Watched
  PROVE  Watched'
<1>0. TypeOK
  BY DEF Owners
<1> USE <1>0
<1>1. ASSUME NEW d \in Daemons, Fail(d)
      PROVE  Watched'
  BY <1>1, LeaveWatched DEF Fail, files
<1>2. ASSUME NEW d \in Daemons, NEW where, Goto(d, where), where # "remove", raced' = raced,
             final' \in Foreign => final' = final,
             \A e \in Daemons \ {d} : next'[e] = next[e]
      PROVE  Watched'
  <2>1. pc'[d] = where /\ \A e \in Daemons \ {d} : pc'[e] = pc[e]
    BY <1>2 DEF Goto, TypeOK
  <2>2. ~Unlinking(d)'
    BY <1>2, <2>1 DEF Unlinking
  <2> QED
    BY <1>2, <2>1, <2>2, WatchedBy
<1>3. ASSUME NEW d \in Daemons, NEW m, NEW then, StartWrite(d, m, then), raced' = raced,
             final' \in Foreign => final' = final
      PROVE  Watched'
  <2>1. Goto(d, "check") /\ \A e \in Daemons \ {d} : next'[e] = next[e]
    BY <1>3 DEF StartWrite, TypeOK
  <2> QED
    BY <1>2, <1>3, <2>1
<1>4. ASSUME NEW d \in Daemons, Removed(d), raced' = raced, final' \in Foreign => final' = final
      PROVE  Watched'
  BY <1>2, <1>3, <1>4 DEF Removed
<1>5. ASSUME NEW d \in Daemons, OpenOwnerLock(d) \/ OpenMarker(d) \/ RecoverMarker(d)
      PROVE  Watched'
  BY <1>1, <1>2, <1>3, <1>5 DEF OpenOwnerLock, OpenMarker, RecoverMarker, files
<1>6. ASSUME NEW d \in Daemons, Bind(d) \/ Announce(d) \/ Publish(d)
      PROVE  Watched'
  BY <1>1, <1>2, <1>3, <1>6 DEF Bind, Announce, Publish, files
<1>7. ASSUME NEW d \in Daemons, Link(d)
      PROVE  Watched'
  <2>1. sock[d] \notin Foreign
    BY Kinds DEF TypeOK
  <2> QED
    BY <1>1, <1>3, <1>7, <2>1 DEF Link
<1>8. ASSUME NEW d \in Daemons, RemoveOwned(d)
      PROVE  Watched'
  <2>1. CASE Verify(d)
    <3>1. \A e \in Daemons \ {d} : next'[e] = next[e]
      BY <1>8, <2>1 DEF RemoveOwned, TypeOK, Fail, Leave
    <3> QED
      BY <1>2, <1>8, <2>1, <3>1 DEF RemoveOwned, files
  <2>2. CASE ~Verify(d)
    BY <1>1, <1>8, <2>2 DEF RemoveOwned
  <2> QED
    BY <2>1, <2>2
<1>9. ASSUME NEW d \in Daemons, Look(d)
      PROVE  Watched'
  <2>1. CASE Matches(d) /\ Goto(d, "remove") /\ UNCHANGED <<next, raced, files>>
    <3>1. final' = final /\ raced' = raced /\ pc'[d] = "remove" /\ next' = next
          /\ \A e \in Daemons \ {d} : pc'[e] = pc[e]
      BY <2>1 DEF files, Goto, TypeOK
    <3>2. sock[d] \notin Foreign /\ want[d].id \notin Foreign
      BY Kinds, FieldTypes DEF TypeOK
    <3>3. AtFinal(d) => final \notin Foreign
      BY <2>1, <3>2 DEF Matches, FileThere, Expected
    <3>4. Unlinking(d)' => final' \notin Foreign
      BY <3>1, <3>3 DEF Unlinking, AtFinal
    <3> QED
      BY <3>1, <3>4, WatchedBy
  <2>2. CASE Removed(d) /\ UNCHANGED <<raced, files>>
    BY <1>4, <2>2 DEF files
  <2> QED
    BY <1>1, <1>9, <2>1, <2>2 DEF Look
<1>10. ASSUME NEW d \in Daemons, Remove(d)
       PROVE  Watched'
  BY <1>4, <1>10, Kinds DEF Remove
<1>11. ASSUME NEW d \in Daemons, CheckWrite(d) \/ Truncate(d) \/ Kill(d)
       PROVE  Watched'
  BY <1>1, <1>2, <1>11 DEF CheckWrite, Truncate, Kill, files
<1>12. ASSUME NEW d \in Daemons, Write(d)
       PROVE  Watched'
  <2>1. CASE Leave(d)
    BY <1>12, <2>1, LeaveWatched DEF Write
  <2>2. CASE ~Leave(d)
    <3>1. next[d] # "remove"
      BY DEF TypeOK
    <3> QED
      BY <1>2, <1>12, <2>2, <3>1 DEF Write
  <2> QED
    BY <2>1, <2>2
<1>13. ASSUME PlaceForeign
       PROVE  Watched'
  <2>1. raced' = {d \in Daemons : Unlinking(d)} /\ UNCHANGED <<pc, next>>
    BY <1>13 DEF PlaceForeign
  <2> QED
    BY <2>1 DEF Watched, Unlinking, AtFinal
<1>14. ASSUME ReplaceLock
       PROVE  Watched'
  BY <1>14 DEF ReplaceLock, files, daemon, Watched, Unlinking, AtFinal
<1> QED
  BY <1>5, <1>6, <1>7, <1>8, <1>9, <1>10, <1>11, <1>12, <1>13, <1>14 DEF Next

(* No step removes or replaces it, if none was being unlinked. *)
LEMMA ForeignStep ==
  ASSUME Watched, Next, final \in Foreign, raced = {}
  PROVE  final' = final
<1>1. final # None
  BY Kinds
<1>2. ASSUME NEW d \in Daemons, Link(d)
      PROVE  final' = final
  BY <1>1, <1>2 DEF Link, Linkable, Fail, files
<1>3. ASSUME NEW d \in Daemons, Remove(d)
      PROVE  final' = final
  BY <1>3 DEF Remove, Watched, Unlinking
<1> QED
  BY <1>2, <1>3 DEF Next, OpenOwnerLock, OpenMarker, RecoverMarker, Bind, Announce, Publish, RemoveOwned, Look,
     CheckWrite, Truncate, Write, Kill, PlaceForeign, ReplaceLock, Fail, files

-----------------------------------------------------------------------------
(* What the marker accounts for *)

(* While the first lock is in place one daemon is at work at most. *)
LEMMA Alone ==
  ASSUME Owners, lock = 1, NEW d \in Daemons, pc[d] # "off"
  PROVE  /\ held[d] = lock
         /\ \A e \in Daemons \ {d} : pc[e] = "off"
<1>1. \A e \in Daemons : pc[e] # "off" => held[e] \in Locks /\ held[e] <= 1 /\ holder[held[e]] = e
  BY DEF Owners, Own
<1>2. \A l \in Locks : l <= 1 => l = 1
  BY ConstantsAssumption, SMTT(30), SMTT(45) DEF Locks
<1> QED
  BY <1>1, <1>2, SMTT(30), SMTT(45)

(* A daemon that is off knows nothing. *)
LEMMA OffKnowsNothing ==
  ASSUME NEW d \in Daemons, pc[d] = "off"
  PROVE  Place(d)
<1>1. Stage(d) = "off"
  BY DEF Stage, Writing, Removing
<1> QED
  BY <1>1 DEF Place, Writing

(* A lock that was replaced is never the first one again. *)
LEMMA FirstLock ==
  ASSUME TypeOK, Next, lock' = 1
  PROVE  lock = 1
<1>1. lock' = lock \/ lock' = lock + 1
  BY DEF Next, OpenOwnerLock, OpenMarker, RecoverMarker, Bind, Announce, Publish, Link, RemoveOwned, Look,
     Remove, CheckWrite, Truncate, Write, Kill, PlaceForeign, ReplaceLock
<1>2. lock \in Nat /\ lock # 0
  BY Kinds DEF TypeOK
<1> QED
  BY <1>1, <1>2, SMTT(30), SMTT(45)

(* What a step of daemon d has to show. *)
LEMMA AccountedBy ==
  ASSUME Owners, Next, Accounted, NEW d \in Daemons,
         pc[d] # "off" \/ LockFree(lock),
         \A e \in Daemons \ {d} : pc'[e] = pc[e],
         lock = 1 /\ Told /\ Place(d) => Told' /\ Place(d)'
  PROVE  Accounted'
<1> SUFFICES ASSUME lock' = 1
             PROVE  Told' /\ \A e \in Daemons : Place(e)'
  BY DEF Accounted
<1>1. lock = 1
  BY FirstLock DEF Owners
<1>2. Told' /\ Place(d)'
  BY <1>1 DEF Accounted
<1>3. \A e \in Daemons \ {d} : pc[e] = "off"
  <2>1. CASE pc[d] # "off"
    BY <1>1, <2>1, Alone
  <2>2. CASE LockFree(lock)
    <3> SUFFICES ASSUME NEW e \in Daemons, pc[e] # "off"
                 PROVE  FALSE
      OBVIOUS
    <3>1. held[e] = lock /\ holder[held[e]] = e
      BY <1>1, Alone DEF Owners, Own
    <3> QED
      BY <2>2, <3>1, ConstantsAssumption DEF LockFree
  <2> QED
    BY <2>1, <2>2
<1>4. ASSUME NEW e \in Daemons \ {d}
      PROVE  Place(e)'
  <2>1. pc'[e] = "off"
    BY <1>3
  <2>2. Stage(e)' = "off"
    BY <2>1 DEF Stage, Writing, Removing
  <2> QED
    BY <2>1, <2>2 DEF Place, Writing
<1> QED
  BY <1>2, <1>4

(* Nothing on disk changes. *)
LEMMA ToldFrame ==
  ASSUME Told, UNCHANGED <<lock, marker, final, pending>>
  PROVE  Told'
BY DEF Told, Accounts, Clear, Recorded, PendingFile

(* Files at the final path and the pending names are gone. *)
LEMMA ToldLess ==
  ASSUME TypeOK, Told, UNCHANGED <<lock, marker>>, final' \in {final, None},
         \A n \in Names : pending'[n] \in {pending[n], None}
  PROVE  Told'
<1>1. Clear => Clear'
  BY DEF Clear
<1>2. marker.name \in Names \cup {None}
  BY FieldTypes DEF TypeOK
<1>3. PendingFile(marker)' \in {PendingFile(marker), None}
  BY <1>2 DEF PendingFile
<1>4. Recorded(PendingFile(marker), marker) => Recorded(PendingFile(marker)', marker')
  BY <1>3 DEF Recorded
<1>5. marker \notin {Absent, Torn} => Accounts(marker)'
  BY <1>1, <1>4 DEF Told, Accounts, Recorded
<1> QED
  BY <1>1, <1>5 DEF Told

(* A daemon ends and leaves the files as they are. *)
LEMMA FailAccounted ==
  ASSUME Owners, Next, Accounted, NEW d \in Daemons, pc[d] # "off", Fail(d), UNCHANGED <<lock, bound>>
  PROVE  Accounted'
<1>1. pc'[d] = "off" /\ \A e \in Daemons \ {d} : pc'[e] = pc[e]
  BY DEF Fail, Leave, Owners, TypeOK
<1>2. Stage(d)' = "off"
  BY <1>1 DEF Stage, Writing, Removing
<1>3. Place(d)'
  BY <1>1, <1>2 DEF Place, Writing
<1>4. Told => Told'
  BY ToldFrame DEF Fail, files
<1> QED
  BY <1>1, <1>3, <1>4, AccountedBy

(* The marker a daemon writes is none of those without content. *)
LEMMA Contents ==
  ASSUME NEW l, NEW i, NEW n
  PROVE  /\ Marker("pending", l, i, n) \notin {Absent, Torn, Empty}
         /\ Marker("published", l, i, n) \notin {Absent, Torn, Empty}
<1>1. Absent.state = "absent" /\ Torn.state = "torn" /\ Empty.state = "empty"
  BY Fields, SMTT(30), SMTT(45) DEF Absent, Torn, Empty
<1>2. Marker("pending", l, i, n).state = "pending" /\ Marker("published", l, i, n).state = "published"
  BY Fields, SMTT(30), SMTT(45)
<1> QED
  BY <1>1, <1>2

(* A daemon starts to write a marker that it may keep. *)
LEMMA StartAccounted ==
  ASSUME Owners, Next, Accounted, NEW d \in Daemons, pc[d] # "off", NEW m, NEW then, StartWrite(d, m, then),
         UNCHANGED <<lock, holder, held, sock, name, bound>>,
         lock = 1 /\ Told /\ Place(d) =>
           /\ Told'
           /\ then \in {"off", "recover", "bind"} => m = Empty /\ Clear'
           /\ then \in {"publish", "unname"} => name[d] \in Names /\ pending'[name[d]] = sock[d]
           /\ then = "publish" => Clear' /\ m = Marker("pending", held[d], sock[d], name[d])
           /\ then = "unname" => m = Marker("published", held[d], sock[d], name[d])
           /\ then = "serving" => m = Marker("published", held[d], sock[d], None),
         then \notin {"bound", "link", "unlink", "unlink2"}
  PROVE  Accounted'
<1>1. Moves(d) /\ pc'[d] = "check" /\ want'[d] = m /\ next'[d] = then /\ Stage(d)' = then
  BY Starting DEF Owners
<1>2. Latest(d)' = m
  BY <1>1 DEF Latest, Writing
<1>3. ASSUME lock = 1, Told, Place(d)
      PROVE  Place(d)'
  BY <1>1, <1>2, <1>3 DEF Place, Writing
<1> QED
  BY <1>1, <1>3, AccountedBy DEF Moves

(* A removal leaves what the marker accounts for, or less. *)
LEMMA RemovalAccounted ==
  ASSUME Owners, Next, Accounted, NEW d \in Daemons, pc[d] \in Removing, Removed(d),
         UNCHANGED <<lock, holder, held, sock, name, bound, marker>>,
         final' \in {final, None}, next[d] = "unlink" => final' = None, next[d] = "serving" => final' = None,
         \A n \in Names : pending'[n] \in {pending[n], None}
  PROVE  Accounted'
<1>0. TypeOK /\ pc[d] # "off" /\ Stage(d) = next[d] /\ Moves(d) /\ (Clear => Clear') /\ (final' = None => Clear')
  BY Removes DEF Owners, Removing, Stage, Clear
<1>1. Told => Told'
  BY <1>0, ToldLess
<1>2. CASE next[d] = "unlink" /\ pc'[d] = "unlink2" /\ want'[d] = want[d]
  <2>1. Stage(d)' = "unlink2"
    BY <1>2 DEF Stage, Writing, Removing
  <2>2. ASSUME Place(d)
        PROVE  Place(d)'
    <3>1. want[d] = marker /\ marker \notin {Absent, Torn}
      BY <1>0, <1>2, <2>2 DEF Place
    <3> QED
      BY <1>0, <1>2, <2>1, <3>1 DEF Place, Writing
  <2> QED
    BY <1>0, <1>1, <2>2, AccountedBy DEF Moves
<1>3. CASE StartWrite(d, Empty, "bind") /\ next[d] \in {"unlink", "unlink2"}
  <2>1. Place(d) => Clear'
    BY <1>0, <1>3 DEF Place
  <2> QED
    BY <1>0, <1>1, <1>3, <2>1, StartAccounted
<1>4. CASE StartWrite(d, Marker("published", held[d], sock[d], None), "serving") /\ next[d] = "unname"
  BY <1>0, <1>1, <1>4, StartAccounted, SMTT(30), SMTT(45)
<1>5. CASE StartWrite(d, Empty, "off") /\ next[d] = "serving"
  BY <1>0, <1>1, <1>5, StartAccounted
<1> QED
  BY <1>2, <1>3, <1>4, <1>5, Removes

(* Every step keeps the account. *)
LEMMA AccountedStep ==
  ASSUME Owners, Next, Accounted
  PROVE  Accounted'
<1>0. TypeOK
  BY DEF Owners
<1> USE <1>0
<1>1. ASSUME NEW d \in Daemons, OpenOwnerLock(d)
      PROVE  Accounted'
  <2>1. pc'[d] = "marker" /\ LockFree(lock) /\ \A e \in Daemons \ {d} : pc'[e] = pc[e]
    BY <1>1 DEF OpenOwnerLock, Goto, TypeOK
  <2>2. Stage(d)' = "marker"
    BY <2>1 DEF Stage, Writing, Removing
  <2>3. Place(d)'
    BY <2>1, <2>2 DEF Place, Writing
  <2>4. Told => Told'
    BY <1>1, ToldFrame DEF OpenOwnerLock, files
  <2> QED
    BY <2>1, <2>3, <2>4, AccountedBy
<1>2. ASSUME NEW d \in Daemons, pc[d] # "off", Fail(d) /\ UNCHANGED <<lock, bound>>
      PROVE  Accounted'
  BY <1>2, FailAccounted
<1>3. ASSUME NEW d \in Daemons, OpenMarker(d)
      PROVE  Accounted'
  <2>1. pc[d] = "marker"
    BY <1>3 DEF OpenMarker
  <2>2. CASE marker = Absent
    <3>1. /\ StartWrite(d, Empty, "recover") /\ marker' = Torn
          /\ UNCHANGED <<lock, holder, held, sock, name, bound, final, pending>>
      BY <1>3, <2>2, Blank DEF OpenMarker
    <3>2. ASSUME Told
          PROVE  Told' /\ Clear'
      BY <2>2, <3>1, <3>2, Blank DEF Told, Clear
    <3> QED
      BY <2>1, <3>1, <3>2, StartAccounted
  <2>3. CASE marker \notin {Absent, Torn}
    <3>1. /\ Goto(d, "recover") /\ want' = [want EXCEPT ![d] = marker]
          /\ UNCHANGED <<lock, holder, held, sock, bound, next, marker, final, pending>>
      BY <1>3, <2>3 DEF OpenMarker, files
    <3>2. Moves(d) /\ pc'[d] = "recover" /\ want'[d] = marker'
      BY <2>1, <3>1, Going DEF TypeOK
    <3>3. Stage(d)' = "recover"
      BY <3>2 DEF Stage, Writing, Removing
    <3>4. Place(d)'
      BY <2>3, <3>1, <3>2, <3>3 DEF Place, Writing
    <3>5. Told => Told'
      BY <3>1, ToldFrame
    <3> QED
      BY <2>1, <3>2, <3>4, <3>5, AccountedBy DEF Moves
  <2> QED
    BY <1>2, <1>3, <2>1, <2>2, <2>3 DEF OpenMarker
<1>4. ASSUME NEW d \in Daemons, RecoverMarker(d)
      PROVE  Accounted'
  <2>1. pc[d] = "recover"
    BY <1>4 DEF RecoverMarker
  <2>2. CASE Recoverable(d, want[d])
    <3> DEFINE where == IF want[d] = Empty THEN "bind" ELSE "unlink"
    <3>1. /\ Goto(d, where)
          /\ UNCHANGED <<lock, holder, held, sock, bound, want, next, marker, final, pending>>
      BY <1>4, <2>2 DEF RecoverMarker, files
    <3>2. Moves(d) /\ pc'[d] = where
      BY <2>1, <3>1, Going
    <3>3. Stage(d)' = where
      BY <3>2 DEF Stage, Writing, Removing
    <3>4. ASSUME Place(d)
          PROVE  Place(d)'
      <4>1. want[d] = marker /\ marker \notin {Absent, Torn}
        BY <2>1, <3>4 DEF Place
      <4> QED
        BY <3>1, <3>2, <3>3, <4>1 DEF Place, Writing
    <3>5. Told => Told'
      BY <3>1, ToldFrame
    <3> QED
      BY <2>1, <3>2, <3>4, <3>5, AccountedBy DEF Moves
  <2> QED
    BY <1>2, <1>4, <2>1, <2>2 DEF RecoverMarker
<1>5. ASSUME NEW d \in Daemons, RemoveOwned(d)
      PROVE  Accounted'
  <2>1. /\ pc[d] \in {"unlink", "unlink2", "unname", "serving"} /\ pc[d] # "off"
        /\ Stage(d) = pc[d] /\ Latest(d) = marker
    BY <1>5 DEF RemoveOwned, Stage, Writing, Removing, Latest
  <2>2. CASE Verify(d)
    <3>1. /\ Goto(d, "look") /\ next' = [next EXCEPT ![d] = pc[d]]
          /\ UNCHANGED <<lock, holder, held, sock, bound, want, marker, final, pending, name>>
      BY <1>5, <2>2 DEF RemoveOwned, files
    <3>2. Moves(d) /\ pc'[d] = "look"
      BY <2>1, <3>1, Going
    <3>a. next'[d] = pc[d]
      BY <3>1 DEF TypeOK
    <3>3. Stage(d)' = Stage(d) /\ Latest(d)' = Latest(d) /\ (Clear' <=> Clear)
      BY <2>1, <3>1, <3>2, <3>a DEF Stage, Writing, Removing, Latest, Clear
    <3>4. ASSUME Place(d)
          PROVE  Place(d)'
      BY <2>1, <3>1, <3>2, <3>3, <3>4 DEF Place, Writing
    <3>5. Told => Told'
      BY <3>1, ToldFrame
    <3> QED
      BY <2>1, <3>2, <3>4, <3>5, AccountedBy DEF Moves
  <2> QED
    BY <1>2, <1>5, <2>1, <2>2 DEF RemoveOwned
<1>6. ASSUME NEW d \in Daemons, Look(d)
      PROVE  Accounted'
  <2>1. pc[d] = "look" /\ Stage(d) = next[d] /\ Latest(d) = marker
    BY <1>6 DEF Look, Stage, Removing, Writing, Latest
  <2>2. CASE /\ FileThere(d) = None /\ next[d] # "serving" /\ Removed(d)
             /\ UNCHANGED <<lock, bound, holder, held, sock, name, files>>
    <3>1. next[d] = "unlink" => final = None
      BY <2>2 DEF FileThere, AtFinal
    <3> QED
      BY <2>1, <2>2, <3>1, RemovalAccounted DEF Removing, files
  <2>3. CASE Goto(d, "remove") /\ UNCHANGED <<lock, bound, holder, held, sock, name, want, next, files>>
    <3>1. UNCHANGED <<lock, holder, held, sock, bound, want, next, marker, final, pending, name>>
      BY <2>3 DEF files
    <3>2. Moves(d) /\ pc'[d] = "remove"
      BY <2>1, <2>3, <3>1, Going
    <3>3. Stage(d)' = Stage(d) /\ Latest(d)' = Latest(d) /\ (Clear' <=> Clear)
      BY <2>1, <3>1, <3>2 DEF Stage, Writing, Removing, Latest, Clear
    <3>4. ASSUME Place(d)
          PROVE  Place(d)'
      BY <2>1, <3>1, <3>2, <3>3, <3>4 DEF Place, Writing
    <3>5. Told => Told'
      BY <3>1, ToldFrame
    <3> QED
      BY <2>1, <3>2, <3>4, <3>5, AccountedBy DEF Moves
  <2> QED
    BY <1>2, <1>6, <2>1, <2>2, <2>3 DEF Look
<1>7. ASSUME NEW d \in Daemons, Bind(d)
      PROVE  Accounted'
  <2>1. pc[d] = "bind"
    BY <1>7 DEF Bind
  <2>2. CASE Fail(d) /\ UNCHANGED <<lock, bound>>
    BY <1>2, <2>1, <2>2
  <2>3. CASE ~ (Fail(d) /\ UNCHANGED <<lock, bound>>)
    <3>1. PICK n \in FreeNames :
            /\ sock' = [sock EXCEPT ![d] = bound + 1] /\ name' = [name EXCEPT ![d] = n]
            /\ pending' = [pending EXCEPT ![n] = bound + 1] /\ Goto(d, "bound")
            /\ UNCHANGED <<lock, marker, final>>
      BY <1>7, <2>3 DEF Bind
    <3>2. /\ pc'[d] = "bound" /\ name'[d] = n /\ n \in Names /\ pending'[n] = sock'[d]
          /\ \A e \in Daemons \ {d} : pc'[e] = pc[e]
      BY <3>1 DEF TypeOK, Goto, FreeNames
    <3>3. Stage(d)' = "bound"
      BY <3>2 DEF Stage, Writing, Removing
    <3>4. ASSUME Told, Place(d)
          PROVE  Told' /\ Place(d)'
      <4>1. marker = Empty
        BY <2>1, <3>4 DEF Place
      <4>2. Clear'
        BY <3>1, <3>4, <4>1, Blank DEF Told, Accounts, Clear
      <4>3. Told'
        BY <3>1, <4>1, <4>2, Blank DEF Told, Accounts
      <4> QED
        BY <3>1, <3>2, <3>3, <4>1, <4>3 DEF Place, Writing
    <3> QED
      BY <2>1, <3>2, <3>4, AccountedBy
  <2> QED
    BY <2>2, <2>3
<1>8. ASSUME NEW d \in Daemons, Announce(d)
      PROVE  Accounted'
  <2>1. pc[d] = "bound" /\ Stage(d) = "bound"
    BY <1>8 DEF Announce, Stage, Writing, Removing
  <2>2. CASE Verify(d)
    <3>1. /\ StartWrite(d, Marker("pending", held[d], sock[d], name[d]), "publish")
          /\ UNCHANGED <<lock, holder, held, sock, name, bound, marker, final, pending>>
      BY <1>8, <2>2 DEF Announce, files
    <3>2. ASSUME Told, Place(d)
          PROVE  Told' /\ name[d] \in Names /\ pending'[name[d]] = sock[d] /\ Clear'
      <4>1. name[d] \in Names /\ pending[name[d]] = sock[d] /\ marker = Empty
        BY <2>1, <3>2 DEF Place
      <4>2. Clear'
        BY <3>1, <3>2, <4>1, Blank DEF Told, Accounts, Clear
      <4> QED
        BY <3>1, <3>2, <4>1, <4>2, ToldFrame
    <3> QED
      BY <2>1, <3>1, <3>2, StartAccounted, SMTT(30), SMTT(45)
  <2> QED
    BY <1>2, <1>8, <2>1, <2>2 DEF Announce
<1>9. ASSUME NEW d \in Daemons, Publish(d)
      PROVE  Accounted'
  <2>1. pc[d] = "publish" /\ Stage(d) = "publish" /\ Latest(d) = marker
    BY <1>9 DEF Publish, Stage, Writing, Removing, Latest
  <2>2. CASE Verify(d)
    <3>1. /\ Goto(d, "link")
          /\ UNCHANGED <<lock, holder, held, sock, bound, want, next, marker, final, pending, name>>
      BY <1>9, <2>2 DEF Publish, files
    <3>2. Moves(d) /\ pc'[d] = "link"
      BY <2>1, <3>1, Going
    <3>3. Stage(d)' = "link" /\ Latest(d)' = marker /\ (Clear => Clear')
      BY <3>1, <3>2 DEF Stage, Writing, Removing, Latest, Clear
    <3>4. ASSUME Place(d)
          PROVE  Place(d)'
      <4>1. /\ name[d] \in Names /\ pending[name[d]] = sock[d] /\ Clear
            /\ marker = Marker("pending", held[d], sock[d], name[d])
        BY <2>1, <3>4 DEF Place
      <4> QED
        BY <3>1, <3>2, <3>3, <4>1 DEF Place, Writing
    <3>5. Told => Told'
      BY <3>1, ToldFrame
    <3> QED
      BY <2>1, <3>2, <3>4, <3>5, AccountedBy DEF Moves
  <2> QED
    BY <1>2, <1>9, <2>1, <2>2 DEF Publish
<1>10. ASSUME NEW d \in Daemons, Link(d)
       PROVE  Accounted'
  <2>1. pc[d] = "link" /\ Stage(d) = "link" /\ Latest(d) = marker
    BY <1>10 DEF Link, Stage, Writing, Removing, Latest
  <2>2. CASE Linkable
    <3>1. /\ StartWrite(d, Marker("published", held[d], sock[d], name[d]), "unname") /\ final' = sock[d]
          /\ UNCHANGED <<lock, holder, held, sock, name, bound, marker, pending>>
      BY <1>10, <2>2 DEF Link
    <3>2. ASSUME Told, Place(d)
          PROVE  Told' /\ name[d] \in Names /\ pending'[name[d]] = sock[d]
      <4>1. /\ name[d] \in Names /\ pending[name[d]] = sock[d]
            /\ marker = Marker("pending", held[d], sock[d], name[d])
        BY <2>1, <3>2 DEF Place
      <4>2. marker.id = sock[d] /\ marker \notin {Absent, Torn, Empty}
        BY <4>1, Fields, Contents, SMTT(30), SMTT(45)
      <4> QED
        BY <3>1, <3>2, <4>1, <4>2 DEF Told, Accounts, Recorded, PendingFile
    <3> QED
      BY <2>1, <3>1, <3>2, StartAccounted, SMTT(30), SMTT(45)
  <2> QED
    BY <1>2, <1>10, <2>1, <2>2 DEF Link
<1>11. ASSUME NEW d \in Daemons, Remove(d)
       PROVE  Accounted'
  <2>1. /\ pc[d] = "remove" /\ Removed(d) /\ UNCHANGED <<lock, holder, held, sock, name, bound, marker>>
        /\ final' \in {final, None} /\ (AtFinal(d) => final' = None)
        /\ \A n \in Names : pending'[n] \in {pending[n], None}
    BY <1>11 DEF Remove
  <2> QED
    BY <2>1, RemovalAccounted DEF Removing, AtFinal
<1>13. ASSUME NEW d \in Daemons, CheckWrite(d) \/ Truncate(d)
       PROVE  Accounted'
  <2>1. pc[d] \in {"check", "truncate"} /\ Stage(d) = next[d] /\ Latest(d) = want[d]
    BY <1>13 DEF CheckWrite, Truncate, Stage, Writing, Removing, Latest
  <2>2. ASSUME NEW where \in {"truncate", "write"}, Goto(d, where), marker' = marker \/ marker' = Torn,
               UNCHANGED <<lock, holder, held, sock, bound, want, next, final, pending, name>>
        PROVE  Accounted'
    <3>1. Moves(d) /\ pc'[d] = where
      BY <2>1, <2>2, Going
    <3>2. Stage(d)' = Stage(d) /\ Latest(d)' = Latest(d) /\ (Clear' <=> Clear)
      BY <2>1, <2>2, <3>1 DEF Stage, Writing, Removing, Latest, Clear
    <3>3. ASSUME Place(d)
          PROVE  Place(d)'
      <4>1. Stage(d) \notin {"bound", "unlink", "unlink2"}
        BY <2>1, WritesTo DEF Writing
      <4> QED
        BY <2>1, <2>2, <3>1, <3>2, <3>3, <4>1 DEF Place, Writing
    <3>4. Told => Told'
      BY <2>2, <3>2, ToldFrame, Blank DEF Told
    <3> QED
      BY <2>1, <3>1, <3>3, <3>4, AccountedBy DEF Moves
  <2> QED
    BY <1>2, <1>13, <2>1, <2>2 DEF CheckWrite, Truncate, files
<1>14. ASSUME NEW d \in Daemons, Write(d)
       PROVE  Accounted'
  <2>a. /\ pc[d] = "write" /\ Stage(d) = next[d] /\ Latest(d) = want[d] /\ marker' = want[d]
        /\ UNCHANGED <<lock, final, pending, bound>>
    BY <1>14 DEF Write, Stage, Writing, Latest
  <2>b. next[d] \in {"off", "recover", "bind", "publish", "unname", "serving"}
    BY <2>a, WritesTo DEF Writing
  <2>1. /\ pc[d] = "write" /\ Stage(d) = next[d] /\ Latest(d) = want[d] /\ marker' = want[d]
        /\ next[d] \in {"off", "recover", "bind", "publish", "unname", "serving"}
        /\ UNCHANGED <<lock, final, pending, bound>>
    BY <2>a, <2>b
  <2>2. ASSUME lock = 1, Place(d)
        PROVE  Told'
    <3>1. held[d] = lock
      BY <2>1, <2>2, Alone
    <3>a. next[d] \in {"unname", "serving"} => final \in {sock[d]} \cup Foreign
      BY <2>1 DEF Owners, Own, Claimed, Claims, Item, Clearing, Linked
    <3>2. CASE next[d] \in {"off", "recover", "bind"}
      <4>1. marker' = Empty /\ Clear'
        BY <2>1, <2>2, <3>2 DEF Place, Writing, Clear
      <4> QED
        BY <4>1, Blank DEF Told, Accounts
    <3>3. CASE next[d] = "publish"
      <4>1. /\ name[d] \in Names /\ pending[name[d]] = sock[d] /\ Clear
            /\ want[d] = Marker("pending", held[d], sock[d], name[d])
        BY <2>1, <2>2, <3>3 DEF Place
      <4>2. want[d].lock = lock /\ want[d].id = sock[d] /\ want[d].name = name[d] /\ want[d] \notin {Absent, Torn, Empty}
        BY <3>1, <4>1, Fields, Contents, SMTT(30), SMTT(45)
      <4> QED
        BY <2>1, <4>1, <4>2 DEF Told, Accounts, Clear, Recorded, PendingFile
    <3>4. CASE next[d] = "unname"
      <4>1. /\ name[d] \in Names /\ pending[name[d]] = sock[d] /\ final \in {sock[d]} \cup Foreign
            /\ want[d] = Marker("published", held[d], sock[d], name[d])
        BY <2>1, <2>2, <3>4, <3>a DEF Place
      <4>2. want[d].lock = lock /\ want[d].id = sock[d] /\ want[d].name = name[d] /\ want[d] \notin {Absent, Torn, Empty}
        BY <3>1, <4>1, Fields, Contents, SMTT(30), SMTT(45)
      <4> QED
        BY <2>1, <4>1, <4>2 DEF Told, Accounts, Clear, Recorded, PendingFile
    <3>5. CASE next[d] = "serving"
      <4>1. final \in {sock[d]} \cup Foreign /\ want[d] = Marker("published", held[d], sock[d], None)
        BY <2>1, <2>2, <3>5, <3>a DEF Place
      <4>2. want[d].lock = lock /\ want[d].id = sock[d] /\ want[d].name = None /\ want[d] \notin {Absent, Torn, Empty}
        BY <3>1, <4>1, Fields, Contents, SMTT(30), SMTT(45)
      <4> QED
        BY <2>1, <4>1, <4>2 DEF Told, Accounts, Clear, Recorded, PendingFile
    <3> QED
      BY <2>1, <3>2, <3>3, <3>4, <3>5
  <2>3. CASE Leave(d)
    <3>1. pc'[d] = "off" /\ \A e \in Daemons \ {d} : pc'[e] = pc[e]
      BY <2>3 DEF Leave, TypeOK
    <3>2. Stage(d)' = "off"
      BY <3>1 DEF Stage, Writing, Removing
    <3>3. Place(d)'
      BY <3>1, <3>2 DEF Place, Writing
    <3> QED
      BY <2>1, <2>2, <3>1, <3>3, AccountedBy
  <2>4. CASE ~Leave(d)
    <3>1. Goto(d, next[d]) /\ next[d] # "off" /\ UNCHANGED <<holder, held, sock, want, next, name>>
      BY <1>14, <2>4 DEF Write
    <3>2. Moves(d) /\ pc'[d] = next[d]
      BY <2>1, <3>1, Going
    <3>3. Stage(d)' = Stage(d) /\ Latest(d)' = Latest(d) /\ pc'[d] \notin Writing /\ (Clear' <=> Clear)
      BY <2>1, <3>1, <3>2 DEF Stage, Writing, Removing, Latest, Clear
    <3>4. ASSUME Place(d)
          PROVE  Place(d)'
      <4>1. next[d] \in {"recover", "bind"} => want[d] = Empty
        BY <2>1, <3>4 DEF Place, Writing
      <4> QED
        BY <2>1, <3>1, <3>2, <3>3, <3>4, <4>1, Blank DEF Place
    <3> QED
      BY <2>1, <2>2, <3>2, <3>4, AccountedBy DEF Moves
  <2> QED
    BY <2>3, <2>4
<1>15. ASSUME NEW d \in Daemons, Kill(d)
       PROVE  Accounted'
  BY <1>2, <1>15 DEF Kill
<1>16. ASSUME PlaceForeign
       PROVE  Accounted'
  <2>1. final' \in Foreign /\ UNCHANGED <<lock, marker, pending, pc, held, sock, name, want, next>>
    BY <1>16 DEF PlaceForeign
  <2>2. Clear'
    BY <2>1 DEF Clear
  <2>3. Told => Told'
    BY <2>1, <2>2 DEF Told, Accounts, Recorded, PendingFile
  <2>4. \A d \in Daemons : Stage(d)' = Stage(d) /\ Latest(d)' = Latest(d)
    BY <2>1 DEF Stage, Latest
  <2>5. ASSUME NEW d \in Daemons, Place(d)
        PROVE  Place(d)'
    BY <2>1, <2>2, <2>4, <2>5 DEF Place
  <2> QED
    BY <2>1, <2>3, <2>5 DEF Accounted
<1>17. ASSUME ReplaceLock
       PROVE  Accounted'
  <2>1. lock' = lock + 1 /\ lock \in Nat /\ lock # 0
    BY <1>17, Kinds DEF ReplaceLock, TypeOK
  <2>2. lock' # 1
    BY <2>1, SMTT(30), SMTT(45)
  <2> QED
    BY <2>2 DEF Accounted
<1> QED
  BY <1>1, <1>3, <1>4, <1>5, <1>6, <1>7, <1>8, <1>9, <1>10, <1>11, <1>13, <1>14, <1>15, <1>16, <1>17 DEF Next

-----------------------------------------------------------------------------
(* The theorems *)

(* The invariant holds at first. *)
LEMMA SocketInit == Init => SocketInv
<1> SUFFICES ASSUME Init
             PROVE  SocketInv
  OBVIOUS
<1>1. TypeOK
  BY Blank, Kinds, ConstantsAssumption, SMTT(30), SMTT(45) DEF Init, TypeOK
<1>2. \A d \in Daemons : pc[d] = "off" /\ sock[d] = None /\ want[d] = Absent
  BY DEF Init
<1>3. \A d \in Daemons : Stage(d) = "off" /\ OnItsWay(d) /\ ~Claims(d)
  BY <1>2 DEF Stage, OnItsWay, Claims, Clearing, Writing, Removing, Linked
<1>4. Absent.id = None /\ None <= bound /\ marker = Absent
  BY Blank, SMTT(30), SMTT(45) DEF Init, None
<1>5. \A d \in Daemons : Own(d)
  BY <1>2, <1>3, <1>4 DEF Own, Claimed, Listening
<1>6. Owners
  BY <1>1, <1>2, <1>3, <1>4, <1>5 DEF Owners, Signed, Agree
<1>7. Watched
  BY <1>2 DEF Watched, Unlinking
<1>8. Told
  BY DEF Init, Told, Clear
<1>9. \A d \in Daemons : Place(d)
  BY <1>2, OffKnowsNothing
<1> QED
  BY <1>6, <1>7, <1>8, <1>9 DEF SocketInv, Accounted

(* Nothing happens: the invariant stays. *)
LEMMA SocketStutter ==
  ASSUME SocketInv, UNCHANGED vars
  PROVE  SocketInv'
<1>1. /\ UNCHANGED <<lock, holder, marker, final, pending>>
      /\ UNCHANGED <<pc, held, sock, name, want, next, raced, bound>>
  BY DEF vars, files, daemon
<1>2. \A d \in Daemons : /\ Stage(d)' = Stage(d) /\ Latest(d)' = Latest(d) /\ Item(d)' = Item(d)
                         /\ Claims(d)' <=> Claims(d)
                         /\ OnItsWay(d)' <=> OnItsWay(d)
  BY <1>1, SameDaemon DEF Latest
<1>3. Owners'
  <2>1. TypeOK'
    BY <1>1 DEF SocketInv, Owners, TypeOK
  <2>2. \A d \in Daemons : Own(d)'
    BY <1>1, <1>2 DEF SocketInv, Owners, Own, Claimed
  <2> QED
    BY <1>1, <1>2, <2>1, <2>2 DEF SocketInv, Owners, Signed, Agree
<1>4. Watched'
  BY <1>1 DEF SocketInv, Watched, Unlinking, AtFinal
<1>5. Accounted'
  <2>1. Told => Told'
    BY <1>1, ToldFrame
  <2>2. Clear' <=> Clear
    BY <1>1 DEF Clear
  <2>3. ASSUME NEW d \in Daemons, Place(d)
        PROVE  Place(d)'
    BY <1>1, <1>2, <2>2, <2>3 DEF Place
  <2> QED
    BY <1>1, <2>1, <2>3 DEF SocketInv, Accounted
<1> QED
  BY <1>3, <1>4, <1>5 DEF SocketInv

(* Whatever is killed, whenever, and whatever other programs do: who holds *)
(* which lock and owns which socket, who may unlink what is at the final   *)
(* path, and what the marker accounts for.                                 *)
THEOREM SocketInvariant == Spec => []SocketInv
<1>1. SocketInv /\ [Next]_vars => SocketInv'
  BY OwnersStep, WatchedStep, AccountedStep, SocketStutter DEF SocketInv
<1> QED
  BY <1>1, SocketInit, PTL DEF Spec

(* A daemon that serves is found at the final path, unless another program *)
(* took it: neither recover_marker, nor publication, nor the guard's drop  *)
(* of another daemon removes its socket, though each unlinks the path some *)
(* time after it looked.                                                   *)
THEOREM SocketIsServed == Spec => []ServesAtItsPath
<1>1. SocketInv => ServesAtItsPath
  <2> SUFFICES ASSUME SocketInv
               PROVE  ServesAtItsPath
    OBVIOUS
  <2>1. ASSUME NEW d \in Daemons, pc[d] = "serving"
        PROVE  Claims(d) /\ Item(d) = sock[d]
    BY <2>1 DEF Claims, Item, Clearing, Stage, Writing, Removing, Linked
  <2>2. \A d \in Daemons : pc[d] = "serving" => final \in {sock[d]} \cup Foreign
    BY <2>1 DEF SocketInv, Owners, Own, Claimed
  <2> QED
    BY <2>2 DEF SocketInv, Owners, ServesAtItsPath
<1> QED
  BY <1>1, SocketInvariant, PTL

(* However daemons were killed, the marker that the next start reads names *)
(* what they left, so that recover_marker removes just that.               *)
THEOREM KillsAreRecovered == Spec => []KilledStartsRecover
<1>1. SocketInv => KilledStartsRecover
  BY DEF SocketInv, Accounted, Told, Accounts, Clear, Recorded, KilledStartsRecover
<1> QED
  BY <1>1, SocketInvariant, PTL

(* A file that another program put at the final path is neither removed    *)
(* nor replaced by any step of a daemon, unless a daemon had looked at the *)
(* path (remove_owned) and not yet unlinked it when it was put there.      *)
THEOREM ForeignFilesStay == Spec => ForeignIsPreserved
<1>1. SocketInv /\ [Next]_vars => [(final \in Foreign /\ raced = {}) => final' = final]_vars
  BY ForeignStep DEF SocketInv
<1> QED
  BY <1>1, SocketInvariant, PTL DEF Spec, ForeignIsPreserved
=============================================================================
