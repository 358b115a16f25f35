---------------------------- MODULE Registration ----------------------------
(***************************************************************************)
(* Self-registration from end to end: runs of "aj register"                *)
(* (crates/aj/src/lib.rs) with their private state files                   *)
(* (crates/journal-client/src/private_file.rs), a network that loses,      *)
(* delays and repeats requests and answers, and the service of module      *)
(* Identity. Runs are killed, directory syncs fail and the machine stops   *)
(* with what was not synced lost.                                          *)
(***************************************************************************)
EXTENDS Identity

CONSTANTS
  Files,       \* paths of state files
  Runs,        \* processes running aj register
  Asked,       \* handles that users ask for
  NoFile,      \* the file does not exist
  NoRun,       \* nobody holds the lock
  MaxKills,    \* bound on kills of a run and failed syncs
  MaxOutages   \* bound on stops of the machine

Pending == [owner : {0}, token : Tokens, handle : Names]
Completed == [owner : Ids, token : Tokens, handle : Names]

ASSUME RegistrationAssumption ==
  /\ Asked \subseteq 1..MaxName /\ MaxKills \in Nat /\ MaxOutages \in Nat
  /\ Files # {}
  /\ NoRun \notin Runs /\ NoFile \notin Pending \cup Completed

VARIABLES
  file,      \* what a reader of each path sees
  disk,      \* what is sure to be there after the machine stops
  lock,      \* lock file of each state file
  pc, at,    \* per run: its step and its file
  own,       \* per run: the registration it works on, as in a file
  net,       \* requests that were sent; any of them may arrive again
  drawn,     \* secrets drawn so far, for which file, and whether a run ever
             \* took its file up although it was not synced
  kills, outages

client == <<file, disk, lock, pc, at, own, net, drawn, kills, outages>>
allvars == <<vars, client>>

-----------------------------------------------------------------------------
(* aj register *)

Leave(r) ==
  /\ pc' = [pc EXCEPT ![r] = "idle"]
  /\ lock' = [lock EXCEPT ![at[r]] = NoRun]

(* private_file::lock, then read: a completed file is reported as it is,   *)
(* a pending one for the same request is taken up again, another one is an *)
(* error; without a file a secret is drawn.                                *)
StartRun(r, f, n) ==
  /\ pc[r] = "idle"
  /\ lock[f] = NoRun
  /\ lock' = [lock EXCEPT ![f] = r]
  /\ at' = [at EXCEPT ![r] = f]
  /\ \/ /\ file[f] = NoFile
        /\ \E t \in Tokens :
             /\ \A d \in drawn : d.token # t
             /\ drawn' = drawn \cup {[token |-> t, file |-> f, exposed |-> FALSE]}
             /\ own' = [own EXCEPT ![r] = [owner |-> 0, token |-> t, handle |-> n]]
        /\ pc' = [pc EXCEPT ![r] = "publish"]
     \/ /\ file[f] \in Pending
        /\ file[f].handle = n
        /\ own' = [own EXCEPT ![r] = file[f]]
        /\ pc' = [pc EXCEPT ![r] = "send"]
        /\ drawn' = {[d EXCEPT !.exposed = @ \/ (d.token = file[f].token /\ disk[f] = NoFile)] : d \in drawn}
  /\ UNCHANGED <<vars, file, disk, net, kills, outages>>

BugWritePendingAsync(r) ==
  /\ pc[r] = "publish"
  /\ file' = [file EXCEPT ![at[r]] = own[r]]
  /\ pc' = [pc EXCEPT ![r] = "send"]
  /\ UNCHANGED <<vars, disk, lock, at, own, net, drawn, kills, outages>>

(* private_file::write: the staged file is linked at its place, which must *)
(* be free.                                                                *)
WritePending(r) ==
  /\ pc[r] = "publish"
  /\ file[at[r]] = NoFile
  /\ file' = [file EXCEPT ![at[r]] = own[r]]
  /\ pc' = [pc EXCEPT ![r] = "sync"]
  /\ UNCHANGED <<vars, disk, lock, at, own, net, drawn, kills, outages>>

(* The directory is synced after a link or a rename, *)
SyncParent(r) ==
  /\ pc[r] \in {"sync", "syncdone"}
  /\ disk' = [disk EXCEPT ![at[r]] = file[at[r]]]
  /\ IF pc[r] = "sync" THEN pc' = [pc EXCEPT ![r] = "send"] /\ UNCHANGED lock
                       ELSE Leave(r)
  /\ UNCHANGED <<vars, file, at, own, net, drawn, kills, outages>>

(* ... or that fails: the run ends, what it published stays visible. *)
SyncFails(r) ==
  /\ pc[r] \in {"sync", "syncdone"}
  /\ kills < MaxKills
  /\ kills' = kills + 1
  /\ Leave(r)
  /\ UNCHANGED <<vars, file, disk, at, own, net, drawn, outages>>

SendRequest(r) ==
  /\ pc[r] = "send"
  /\ net' = net \cup {[token |-> own[r].token, handle |-> own[r].handle]}
  /\ pc' = [pc EXCEPT ![r] = "wait"]
  /\ UNCHANGED <<vars, file, disk, lock, at, own, drawn, kills, outages>>

BugCallRegisterLatest(r) ==
  LET t == own[r].token  n == own[r].handle IN
  /\ pc[r] = "wait"
  /\ RegisterNew(t, n) \/ RegisterReplay(t, n)
  /\ own' = [own EXCEPT ![r].owner = made']
  /\ pc' = [pc EXCEPT ![r] = "complete"]
  /\ UNCHANGED <<file, disk, lock, at, net, drawn, kills, outages>>

(* client.register: the server handles the request and its answer arrives. *)
CallRegister(r) ==
  LET t == own[r].token  n == own[r].handle IN
  /\ pc[r] = "wait"
  /\ RegisterNew(t, n) \/ RegisterReplay(t, n)
  /\ own' = [own EXCEPT ![r].owner = (CHOOSE a \in receipts' : a.token = t).owner]
  /\ pc' = [pc EXCEPT ![r] = "complete"]
  /\ UNCHANGED <<file, disk, lock, at, net, drawn, kills, outages>>

(* An error answer, a timeout or a lost response: retry the same file. *)
GiveUp(r) ==
  /\ pc[r] = "wait"
  /\ Leave(r)
  /\ UNCHANGED <<vars, file, disk, at, own, net, drawn, kills, outages>>

(* private_file::replace of the pending state by the completed one. *)
ReplacePending(r) ==
  /\ pc[r] = "complete"
  /\ file[at[r]] = [own[r] EXCEPT !.owner = 0]
  /\ file' = [file EXCEPT ![at[r]] = own[r]]
  /\ pc' = [pc EXCEPT ![r] = "syncdone"]
  /\ UNCHANGED <<vars, disk, lock, at, own, net, drawn, kills, outages>>

-----------------------------------------------------------------------------
(* The environment *)

Kill(r) ==
  /\ pc[r] # "idle"
  /\ kills < MaxKills
  /\ kills' = kills + 1
  /\ Leave(r)
  /\ UNCHANGED <<vars, file, disk, at, own, net, drawn, outages>>

(* The client's machine stops: an entry that was not synced may be gone. *)
MachineStops ==
  /\ outages < MaxOutages
  /\ outages' = outages + 1
  /\ file' \in {g \in [Files -> {file[f] : f \in Files} \cup {disk[f] : f \in Files}] :
                 \A f \in Files : g[f] \in {file[f], disk[f]}}
  /\ disk' = file'
  /\ pc' = [r \in Runs |-> "idle"]
  /\ lock' = [f \in Files |-> NoRun]
  /\ UNCHANGED <<vars, at, own, net, drawn, kills>>

(* register_principal: a request that was sent arrives late or once more,  *)
(* or its answer is lost.                                                  *)
ServeRequest ==
  /\ \E q \in net : RegisterNew(q.token, q.handle) \/ RegisterReplay(q.token, q.handle)
  /\ UNCHANGED client

-----------------------------------------------------------------------------
RegistrationInit ==
  /\ Init
  /\ file = [f \in Files |-> NoFile]
  /\ disk = file
  /\ lock = [f \in Files |-> NoRun]
  /\ pc = [r \in Runs |-> "idle"]
  /\ at = [r \in Runs |-> CHOOSE f \in Files : TRUE]
  /\ own = [r \in Runs |-> NoFile]
  /\ net = {} /\ drawn = {}
  /\ kills = 0 /\ outages = 0

Run(r) ==
  \/ \E f \in Files, n \in Asked : StartRun(r, f, n)
  \/ WritePending(r)
  \/ SyncParent(r)
  \/ SyncFails(r)
  \/ SendRequest(r)
  \/ CallRegister(r)
  \/ GiveUp(r)
  \/ ReplacePending(r)
  \/ Kill(r)

RegistrationNext ==
  \/ \E r \in Runs : Run(r)
  \/ ServeRequest
  \/ MachineStops
  \/ Administer /\ UNCHANGED client

RegistrationSafety == RegistrationInit /\ [][RegistrationNext]_allvars

(* A run that is not killed goes on, and a call that is made again and     *)
(* again gets through.                                                     *)
RunGoesOn(r) ==
  /\ WF_allvars(WritePending(r) \/ SyncParent(r) \/ SendRequest(r) \/ ReplacePending(r))
  /\ WF_allvars(GiveUp(r))
  /\ SF_allvars(CallRegister(r))

(* The user runs aj register again until it succeeds. *)
RegistrationSpec ==
  /\ RegistrationSafety
  /\ \A r \in Runs :
       /\ \A f \in Files, n \in Asked : WF_allvars(StartRun(r, f, n))
       /\ RunGoesOn(r)

-----------------------------------------------------------------------------
(* Properties *)

(* Every variable of the clients has its type. *)
RegistrationTypeOK ==
  /\ file \in [Files -> {NoFile} \cup Pending \cup Completed]
  /\ disk \in [Files -> {NoFile} \cup Pending \cup Completed]
  /\ lock \in [Files -> {NoRun} \cup Runs]
  /\ pc \in [Runs -> {"idle", "publish", "sync", "send", "wait", "complete", "syncdone"}]
  /\ at \in [Runs -> Files]
  /\ own \in [Runs -> {NoFile} \cup Pending \cup Completed]
  /\ net \in SUBSET [token : Tokens, handle : Names]
  /\ drawn \in SUBSET [token : Tokens, file : Files, exposed : BOOLEAN]

Holds(content, t) == content # NoFile /\ content.token = t

(* aj register writes a secret down before it uses it, and never replaces  *)
(* it: whatever the server has bound to a secret, the state file it was    *)
(* drawn for still holds that secret, so that running the command again    *)
(* recovers the identity. Only a secret whose file a run took up before it *)
(* was synced (an earlier run ended in between) can be lost with it.       *)
SecretIsKept ==
  \A r \in receipts, d \in drawn :
    r.token = d.token /\ ~d.exposed => Holds(file[d.file], d.token)

(* However often it is run, aj register makes one principal for a file,    *)
(* and the identity in a completed file is the one the server bound; every *)
(* variable of the client keeps its type.                                  *)
OneIdentityPerFile ==
  /\ RegistrationTypeOK
  /\ \A q, r \in receipts, d, e \in drawn :
       q.token = d.token /\ r.token = e.token /\ d.file = e.file /\ ~d.exposed /\ ~e.exposed => q = r
  /\ \A f \in Files : file[f] \in Completed =>
       [token |-> file[f].token, handle |-> file[f].handle, owner |-> file[f].owner] \in receipts

(* Someone else took the handle, the operator revoked the credential       *)
(* before the file was completed, or a bound of the model is reached.      *)
Blocked(f) ==
  LET bound == {r \in receipts : \E d \in drawn : d.token = r.token /\ d.file = f} IN
  \/ bound = {} /\ \E n \in Asked : Owner(n) # {}
  \/ \E r \in bound, c \in creds : c.token = r.token /\ ~c.live
  \/ issued = MaxCreds
  \/ file[f] = NoFile /\ Cardinality(drawn) = Cardinality(Tokens)

(* Run again and again, aj register completes its file, whatever was       *)
(* interrupted or lost before.                                             *)
RegistrationFinishes == \A f \in Files : <>(file[f] \in Completed \/ Blocked(f))
=============================================================================
