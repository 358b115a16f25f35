------------------------------ MODULE Identity ------------------------------
(***************************************************************************)
(* Who is who in the journal (crates/journal-service/src/bootstrap.rs):    *)
(* principals, their names, credentials, registration receipts, profile    *)
(* updates and memberships, and what a restore does to them                *)
(* (restore_security in recovery_audit.rs). Each service call is one       *)
(* transaction, except where several steps are modelled. No code disables  *)
(* a principal, and credentials are issued without expiry.                 *)
(***************************************************************************)
EXTENDS Naturals, FiniteSets

CONSTANTS
  Tokens,         \* secrets that clients draw before they register
  Keys,           \* values of the Idempotency-Key header of profile updates
  Handlers,       \* profile updates the server may be handling at once
  Selectors,      \* handles the operator names in set_membership
  MaxName,        \* names are 1..MaxName, in their sort order
  MaxPrincipals,  \* bound on principals ever created
  MaxCreds,       \* bound on credentials ever issued
  MaxRevision     \* bound on profile revisions

ASSUME ConstantsAssumption ==
  /\ Selectors \subseteq 1..MaxName
  /\ MaxName \in Nat /\ MaxPrincipals \in Nat /\ MaxCreds \in Nat
  /\ MaxRevision \in Nat \ {0}

Names == 1..MaxName
Ids == 1..MaxPrincipals
CredIds == 1..MaxCreds

(* The secret of a credential that the server drew. *)
Drawn == "drawn"

NameRows == [name : Names, owner : Ids, kind : {"current", "alias"}]
CredRows == [id : CredIds, owner : Ids, token : Tokens \cup {Drawn}, live : BOOLEAN]
Receipts == [token : Tokens, handle : Names, owner : Ids]
Updates == [handle : Names, expected : 1..MaxRevision]
Responses == [handle : Names, revision : 1..MaxRevision]
KeyRows == [owner : Ids, key : Keys, payload : Updates, response : Responses]
Grants == [owner : Ids, selector : Names]

VARIABLES
  made,         \* principals ever created: ids are never drawn twice
  issued,       \* credentials ever issued
  revision,     \* profile_revision of each principal
  names, creds, receipts, keys,
  members,      \* memberships, with the selector of the request
  handler,      \* profile updates being handled
  granting,     \* set_membership between its two transactions
  backup,       \* the tables in the latest backup
  told          \* history: callers that were told of success

tables == <<revision, names, creds, receipts, keys, members>>
vars == <<made, issued, tables, handler, granting, backup, told>>

Idle == [phase |-> "idle"]

-----------------------------------------------------------------------------
(* Names *)

(* active_principal, of a handle: any name of a principal selects it. A    *)
(* selector that is no name may be an ID, which selects that principal and *)
(* depends on no other table; the operator here uses handles.              *)
Owner(n) == {r.owner : r \in {x \in names : x.name = n}}

Current(p) == CHOOSE n \in Names : [name |-> n, owner |-> p, kind |-> "current"] \in names

BugRenamedReleases(p, n) ==
  IF n = Current(p) THEN names
  ELSE (names \ {[name |-> Current(p), owner |-> p, kind |-> "current"]})
         \cup {[name |-> Current(p), owner |-> p, kind |-> "alias"] : r \in {x \in receipts : x.owner = p}}
         \cup {[name |-> n, owner |-> p, kind |-> "current"]}

(* A rename retires the current handle into the permanent alias namespace. *)
Renamed(p, n) ==
  IF n = Current(p) THEN names
  ELSE (names \ {[name |-> Current(p), owner |-> p, kind |-> "current"]})
         \cup {[name |-> Current(p), owner |-> p, kind |-> "alias"],
               [name |-> n, owner |-> p, kind |-> "current"]}

-----------------------------------------------------------------------------
(* Registration *)

NewPrincipal(n) ==
  /\ made < MaxPrincipals
  /\ Owner(n) = {}
  /\ made' = made + 1
  /\ revision' = [revision EXCEPT ![made + 1] = 1]
  /\ names' = names \cup {[name |-> n, owner |-> made + 1, kind |-> "current"]}

(* create_principal: no credential yet, recover_principal issues the first. *)
CreatePrincipal(n) ==
  /\ NewPrincipal(n)
  /\ UNCHANGED <<issued, creds, receipts, keys, members, handler, granting, backup, told>>

NewCred(p, t) == [id |-> issued + 1, owner |-> p, token |-> t, live |-> TRUE]

(* register, first call with this secret. *)
RegisterNew(t, n) ==
  /\ \A c \in creds : c.token # t
  /\ NewPrincipal(n)
  /\ issued < MaxCreds
  /\ issued' = issued + 1
  /\ creds' = creds \cup {NewCred(made + 1, t)}
  /\ receipts' = receipts \cup {[token |-> t, handle |-> n, owner |-> made + 1]}
  /\ told' = told \cup {[token |-> t, handle |-> n, owner |-> made + 1]}
  /\ UNCHANGED <<keys, members, handler, granting, backup>>

BugReceiptOfToken(t, n) == {r \in receipts : r.token = t}

BugReceiptOfNobody(t, n) == {}

(* What a repeated call finds: the receipt of the same request. *)
ReceiptOf(t, n) ==
  {r \in receipts : r.token = t /\ r.handle = n
                     /\ \E c \in creds : c.token = t /\ c.live}

(* register, the call is repeated. *)
RegisterReplay(t, n) ==
  /\ \E r \in ReceiptOf(t, n) :
       told' = told \cup {[token |-> t, handle |-> n, owner |-> r.owner]}
  /\ UNCHANGED <<made, issued, tables, handler, granting, backup>>

(* Unauthorized or Conflict: the secret was revoked or belongs to another  *)
(* request, or the handle is taken.                                        *)
RegisterRefused(t, n) ==
  IF \E c \in creds : c.token = t THEN ReceiptOf(t, n) = {} ELSE Owner(n) # {}

-----------------------------------------------------------------------------
(* Credentials *)

Revoked(C) == {[c EXCEPT !.live = FALSE] : c \in C}

(* issue_principal, and the credentials in C are revoked. *)
Replace(C, p) == creds' = (creds \ C) \cup Revoked(C) \cup {NewCred(p, Drawn)}

(* rotate *)
Rotate(c) ==
  /\ c.live
  /\ issued < MaxCreds
  /\ issued' = issued + 1
  /\ Replace({c}, c.owner)
  /\ UNCHANGED <<made, revision, names, receipts, keys, members, handler, granting, backup, told>>

(* recover_principal *)
RecoverPrincipal(p) ==
  /\ p <= made
  /\ issued < MaxCreds
  /\ issued' = issued + 1
  /\ Replace({c \in creds : c.owner = p /\ c.live}, p)
  /\ UNCHANGED <<made, revision, names, receipts, keys, members, handler, granting, backup, told>>

(* revoke; a second time it changes nothing. *)
Revoke(c) ==
  /\ creds' = (creds \ {c}) \cup Revoked({c})
  /\ UNCHANGED <<made, issued, revision, names, receipts, keys, members, handler, granting,
                 backup, told>>

-----------------------------------------------------------------------------
(* PATCH of the own profile *)

(* authenticate: a read of its own before the transaction. *)
Authenticate(h) ==
  /\ handler[h].phase = "idle"
  /\ \E c \in creds, k \in Keys, u \in Updates :
       /\ c.live
       /\ handler' = [handler EXCEPT ![h] =
            [phase |-> "authenticated", cred |-> c.id, owner |-> c.owner, key |-> k, payload |-> u]]
  /\ UNCHANGED <<made, issued, tables, granting, backup, told>>

KeyRowsOf(q) == {r \in keys : r.owner = q.owner /\ r.key = q.key}

(* The transaction looks the credential up again. *)
Authorized(q) == \E c \in creds : c.id = q.cred /\ c.live

BugUpToDate(q) == q.payload.expected <= revision[q.owner]

UpToDate(q) == q.payload.expected = revision[q.owner]

Answered(h, row) ==
  /\ handler' = [handler EXCEPT ![h] = Idle]
  /\ told' \in {told, told \cup {row}}

(* update_own_profile, an update that was not made before. The answer may  *)
(* get lost.                                                               *)
UpdateProfile(h) ==
  LET q == handler[h]
      row == [owner |-> q.owner, key |-> q.key, payload |-> q.payload,
              response |-> [handle |-> q.payload.handle, revision |-> revision[q.owner] + 1]]
  IN
  /\ q.phase = "authenticated"
  /\ Authorized(q)
  /\ KeyRowsOf(q) = {}
  /\ UpToDate(q)
  /\ q.payload.handle = Current(q.owner) \/ Owner(q.payload.handle) = {}
  /\ revision[q.owner] < MaxRevision
  /\ names' = Renamed(q.owner, q.payload.handle)
  /\ revision' = [revision EXCEPT ![q.owner] = @ + 1]
  /\ keys' = keys \cup {row}
  /\ Answered(h, row)
  /\ UNCHANGED <<made, issued, creds, receipts, members, granting, backup>>

(* update_own_profile, the same update again. *)
ReplayProfile(h) ==
  LET q == handler[h] IN
  /\ q.phase = "authenticated"
  /\ Authorized(q)
  /\ \E r \in KeyRowsOf(q) : r.payload = q.payload /\ Answered(h, r)
  /\ UNCHANGED <<made, issued, tables, granting, backup>>

(* Unauthorized, IdempotencyConflict or Conflict: nothing is kept. A       *)
(* handle is taken even when it is an alias of the caller.                 *)
RejectProfile(h) ==
  LET q == handler[h] IN
  /\ q.phase = "authenticated"
  /\ \/ ~Authorized(q)
     \/ \E r \in KeyRowsOf(q) : r.payload # q.payload
     \/ /\ KeyRowsOf(q) = {}
        /\ \/ ~UpToDate(q)
           \/ q.payload.handle # Current(q.owner) /\ Owner(q.payload.handle) # {}
  /\ handler' = [handler EXCEPT ![h] = Idle]
  /\ UNCHANGED <<made, issued, tables, granting, backup, told>>

-----------------------------------------------------------------------------
(* set_membership: a transaction that resolves the selector, *)
ResolveMember(n) ==
  /\ granting.phase = "idle"
  /\ \E p \in Owner(n) : granting' = [phase |-> "resolved", owner |-> p, selector |-> n]
  /\ UNCHANGED <<made, issued, tables, handler, backup, told>>

(* ... and a second one that replaces the row of that principal. *)
SetMembership ==
  /\ granting.phase = "resolved"
  /\ members' = {m \in members : m.owner # granting.owner}
                  \cup {[owner |-> granting.owner, selector |-> granting.selector]}
  /\ granting' = Idle
  /\ UNCHANGED <<made, issued, revision, names, creds, receipts, keys, handler, backup, told>>

-----------------------------------------------------------------------------
(* Backup and restore *)

Backup ==
  /\ backup' = [names |-> names, receipts |-> receipts, keys |-> keys, creds |-> creds]
  /\ UNCHANGED <<made, issued, tables, handler, granting, told>>

(* The index principal_names_one_current_per_principal. *)
OneCurrent(N) ==
  \A x, y \in N : x.kind = "current" /\ y.kind = "current" /\ x.owner = y.owner => x = y

BugRestoreNameInPlace(done, row) ==
  LET same == {x \in done.names : x.name = row.name}
      extends == \A x \in same : x.owner = row.owner /\ (x = row \/ x.kind = "current")
      result == (done.names \ same) \cup {row}
  IN [names |-> result, ok |-> done.ok /\ extends /\ OneCurrent(result)]

(* restore_principal_names, one row of the audited snapshot: a current     *)
(* name first retires the name that is current in the backup.              *)
RestoreName(done, row) ==
  LET retires(x) == row.kind = "current" /\ x.owner = row.owner /\ x.kind = "current"
                      /\ x.name # row.name
      retired == {IF retires(x) THEN [x EXCEPT !.kind = "alias"] ELSE x : x \in done.names}
      same == {x \in retired : x.name = row.name}
      extends == \A x \in same : x.owner = row.owner /\ (x = row \/ x.kind = "current")
      result == (retired \ same) \cup {row}
  IN [names |-> result, ok |-> done.ok /\ extends /\ OneCurrent(result)]

(* All of them, in the order of their names. *)
RestoreNames(from, audited) ==
  LET upTo[n \in 0..MaxName] ==
        IF n = 0 THEN [names |-> from, ok |-> TRUE]
        ELSE IF \E r \in audited : r.name = n
               THEN RestoreName(upTo[n - 1], CHOOSE r \in audited : r.name = n)
               ELSE upTo[n - 1]
  IN upTo[MaxName]

(* validate_credential_history: the audit knows every row of the backup. *)
HistoryKnown ==
  /\ backup.receipts \subseteq receipts
  /\ \A b \in backup.creds : \E c \in creds : c.id = b.id /\ c.owner = b.owner /\ c.token = b.token

BugRestoredCreds == Revoked({c \in creds : c.live}) \cup backup.creds

(* restore_credential_history: every credential known, none left in force. *)
RestoredCreds == Revoked(creds)

(* restore_security, from the audited snapshot of the tables as they are.  *)
(* Rows of the backup are replaced by the audited ones with the same key.  *)
(* The server was stopped; the operator's requests are gone.               *)
Restore ==
  LET restored == RestoreNames(backup.names, names) IN
  /\ restored.ok
  /\ HistoryKnown
  /\ names' = restored.names
  /\ keys' = keys \cup {b \in backup.keys :
                 \A r \in keys : r.owner # b.owner \/ r.key # b.key}
  /\ creds' = RestoredCreds
  /\ handler' = [h \in Handlers |-> Idle]
  /\ granting' = Idle
  /\ UNCHANGED <<made, issued, revision, receipts, members, backup, told>>

-----------------------------------------------------------------------------
Init ==
  /\ made = 0 /\ issued = 0
  /\ revision = [p \in Ids |-> 1]
  /\ names = {} /\ creds = {} /\ receipts = {} /\ keys = {} /\ members = {}
  /\ handler = [h \in Handlers |-> Idle]
  /\ granting = Idle
  /\ backup = [names |-> {}, receipts |-> {}, keys |-> {}, creds |-> {}]
  /\ told = {}

Administer ==
  \/ \E n \in Names : CreatePrincipal(n)
  \/ \E c \in creds : Rotate(c) \/ Revoke(c)
  \/ \E p \in Ids : RecoverPrincipal(p)
  \/ \E n \in Selectors : ResolveMember(n)
  \/ SetMembership
  \/ Backup
  \/ Restore

HandleProfile(h) ==
  \/ Authenticate(h)
  \/ UpdateProfile(h)
  \/ ReplayProfile(h)
  \/ RejectProfile(h)

Next ==
  \/ \E t \in Tokens, n \in Names : RegisterNew(t, n) \/ RegisterReplay(t, n)
  \/ \E h \in Handlers : HandleProfile(h)
  \/ Administer

Spec == Init /\ [][Next]_vars

-----------------------------------------------------------------------------
(* Properties *)

(* Every variable has its type. *)
TypeOK ==
  /\ made \in 0..MaxPrincipals /\ issued \in 0..MaxCreds
  /\ revision \in [Ids -> 1..MaxRevision]
  /\ names \in SUBSET NameRows
  /\ creds \in SUBSET CredRows
  /\ receipts \in SUBSET Receipts
  /\ keys \in SUBSET KeyRows
  /\ members \in SUBSET Grants
  /\ handler \in [Handlers -> {Idle} \cup [phase : {"authenticated"}, cred : CredIds, owner : Ids,
                                           key : Keys, payload : Updates]]
  /\ granting \in {Idle} \cup [phase : {"resolved"}, owner : Ids, selector : Names]
  /\ backup \in [names : SUBSET NameRows, receipts : SUBSET Receipts, keys : SUBSET KeyRows,
                 creds : SUBSET CredRows]
  /\ told \in SUBSET (Receipts \cup KeyRows)

(* A name has one owner, and every principal exactly one current name. *)
OneNameEach ==
  /\ \A q, r \in names : q.name = r.name => q = r
  /\ \A p \in 1..made : \E row \in names : {r \in names : r.owner = p /\ r.kind = "current"} = {row}

(* principal_names: a name, once it named a principal, names that          *)
(* principal for ever: through renames, other registrations and restores   *)
(* of backups in which the name was still free. principal_descriptor and   *)
(* active_principal find one row, and a grant, which set_membership makes  *)
(* in a second transaction, is for the principal its selector names.       *)
NamesArePermanent ==
  [][/\ OneNameEach'
     /\ \A m \in members' : Owner(m.selector)' = {m.owner}
     /\ \A r \in names : \E q \in names' :
          q.name = r.name /\ q.owner = r.owner /\ (r.kind = "alias" => q.kind = "alias")]_vars

(* register: whoever repeats a registration is told of the principal that  *)
(* the first call made, whatever happened since, and that principal still  *)
(* answers to the handle that was registered.                              *)
RegisteredOnce ==
  /\ \A q, r \in told \cap Receipts : q.token = r.token => q = r
  /\ \A r \in told \cap Receipts : r \in receipts /\ Owner(r.handle) = {r.owner}
  /\ \A q, r \in receipts : q.owner = r.owner => q.token = r.token

(* update_own_profile: each revision of a profile is the effect of one     *)
(* accepted update, made against the revision before it; every caller told *)
(* of success was told of that update. Nobody's update is overwritten      *)
(* unseen, repeated, or lost in a restore, and every row keeps its type.   *)
NoLostUpdate ==
  /\ TypeOK
  /\ \A p \in 1..made : \A n \in 2..revision[p] :
       \E r \in keys : r.owner = p /\ r.response.revision = n
  /\ \A r \in keys : /\ r.response.revision = r.payload.expected + 1
                     /\ r.response.handle = r.payload.handle
                     /\ r.response.revision <= revision[r.owner]
  /\ \A q, r \in keys : q.owner = r.owner
       /\ (q.key = r.key \/ q.response.revision = r.response.revision) => q = r
  /\ told \cap KeyRows \subseteq keys

(* A credential that was revoked, replaced or invalidated by a restore is  *)
(* never in force again, and is never forgotten: a registration with its   *)
(* secret cannot start over. A profile changes only under a credential     *)
(* that is in force when the transaction runs, whatever authenticate saw   *)
(* before it.                                                              *)
RevocationIsFinal ==
  [][/\ \A c \in creds : \E d \in creds' :
          d.id = c.id /\ d.token = c.token /\ d.owner = c.owner /\ (d.live => c.live)
     /\ \A r \in keys' \ keys : \E c \in creds : c.owner = r.owner /\ c.live]_vars

(* restore_principal_names brings any earlier backup to exactly the        *)
(* audited names, in whatever order their rows come, without tripping over *)
(* a row that the backup already holds.                                    *)
BackupsAreRestorable ==
  RestoreNames(backup.names, names) = [names |-> names, ok |-> TRUE] /\ HistoryKnown
=============================================================================
