------------------------------ MODULE Journal ------------------------------
(***************************************************************************)
(* The records and inboxes of the journal service (crates/journal-service: *)
(* records.rs, inbox.rs) as HTTP clients meet them: requests are sent any  *)
(* number of times, handled in any order and interleaving, and answers get *)
(* lost. Each service call is one SQLite transaction. A restore puts back  *)
(* an earlier backup with the allocation heads of the audit (module        *)
(* RecoveryAudit).                                                         *)
(***************************************************************************)
EXTENDS Naturals, FiniteSets, FiniteSetsExt

CONSTANTS
  Principals,  \* authors and recipients
  Spaces,
  Keys,        \* values of the Idempotency-Key header
  Bodies,      \* append requests: [to : recipients, targets : record ids]
  Handlers,    \* HTTP requests the server may be handling at once
  Readers,     \* clients that page through an inbox, a space or receipts
  Score,       \* per record: the spans the query highlights, 0 without a match
  Place,       \* per record and recipient: how its random identifier sorts
  PageLimit,   \* query.effective_limit()
  MaxId,       \* bound on records ever created
  MaxTokens,   \* bound on tokens per principal
  MaxEpoch     \* bound on restores

Ids == 1..MaxId

ASSUME ConstantsAssumption ==
  /\ PageLimit \in Nat \ {0}
  /\ MaxId \in Nat /\ MaxTokens \in Nat \ {0} /\ MaxEpoch \in Nat
  /\ \A b \in Bodies : b.to \in SUBSET Principals /\ b.targets \in SUBSET Ids
  /\ Score \in [Ids -> Nat]
  /\ Place \in [Ids \cup Principals -> Nat \ {0}]
  /\ \A i, j \in DOMAIN Place : Place[i] = Place[j] => i = j

Tokens == Principals \X (1..MaxTokens)

Records == [id : Ids, space : Spaces, seq : Nat, author : Principals,
            to : SUBSET Principals, targets : SUBSET Ids]

(* A mailbox item; its id stands for the random item id as well, since no  *)
(* record has two items for one recipient.                                 *)
Items == [id : Ids, to : Principals, seq : Nat, acked : BOOLEAN]

(* A row of idempotency_keys; the body stands for its hash. *)
KeyRows == [author : Principals, space : Spaces, key : Keys, body : Bodies, id : Ids]

Requests == [token : Tokens, space : Spaces, key : Keys, body : Bodies]

Idle == [phase |-> "idle"]

Handling == [phase : {"authenticated", "answered"}, req : Requests, id : 0..MaxId]

VARIABLES
  \* Tables
  records, mail, keys,
  heads,       \* inbox_sequences.last_seq, 0 when there is no row
  secret,      \* the cursor secret, 0 while there is none
  epoch,       \* recovery_anchor.inbox_epoch
  live,        \* tokens of unrevoked credentials
  \* Requests and clients
  handler,     \* per handler: phase, request and the id it answers with
  reader,      \* per reader: what it pages through and how far it got
  backup,      \* what the latest backup holds
  \* Random values: how many were drawn so far, none comes twice
  created,     \* record ids
  secrets,     \* cursor secrets
  issued,      \* tokens, per principal
  \* History, read by no guard
  told,        \* appends whose caller was told Ok and whose loss nobody accepted
  given        \* every inbox allocation [to, seq, id] ever committed

tables == <<records, mail, keys, heads, secret, epoch>>
vars == <<tables, live, handler, reader, backup, created, secrets, issued, told, given>>

-----------------------------------------------------------------------------
(* What a transaction reads *)

(* SELECT coalesce(max(space_seq),0)+1 FROM records WHERE space_id=? *)
NextSeq(s) == Max({0} \cup {r.seq : r \in {x \in records : x.space = s}}) + 1

BugEntriesIgnoreAuthor(q) == {k \in keys : k.space = q.space /\ k.key = q.key}

(* The idempotency row of a request: at most one. *)
Entries(q) ==
  {k \in keys : k.author = q.token[1] /\ k.space = q.space /\ k.key = q.key}

BugTargetsUnchecked(q) == TRUE

(* Relations point to records of the space that are already there. *)
TargetsExist(q) ==
  \A t \in q.body.targets : \E r \in records : r.id = t /\ r.space = q.space

BugNextHeadsInsertOnly(to) == [p \in Principals |-> IF p \in to THEN Max({1, heads[p]}) ELSE heads[p]]

(* inbox_sequences: INSERT ... ON CONFLICT DO UPDATE SET last_seq=last_seq+1 *)
NextHeads(to) == [p \in Principals |-> IF p \in to THEN heads[p] + 1 ELSE heads[p]]

BugCursorCodecReadOnly == UNCHANGED <<secret, secrets>>

(* cursor_codec: the secret is created when it is first needed. *)
CursorCodec ==
  IF secret = 0 THEN secret' = secrets + 1 /\ secrets' = secrets + 1
                ELSE UNCHANGED <<secret, secrets>>

-----------------------------------------------------------------------------
(* POST /v1/spaces/{space}/records *)

Drop(h) == handler' = [handler EXCEPT ![h] = Idle]

(* A request arrives, a new one or one whose sender never got an answer,   *)
(* and authenticate_append_replay lets it pass: a read of its own, before  *)
(* the transaction of append_record.                                       *)
Authenticate(h) ==
  /\ handler[h].phase = "idle"
  /\ \E t \in live, s \in Spaces, k \in Keys, b \in Bodies :
       handler' = [handler EXCEPT ![h] =
         [phase |-> "authenticated",
          req |-> [token |-> t, space |-> s, key |-> k, body |-> b], id |-> 0]]
  /\ UNCHANGED <<tables, live, reader, backup, created, secrets, issued, told, given>>

(* append_record finds the key: the same body gets the record it created. *)
AppendReplay(h) ==
  LET q == handler[h].req IN
  /\ handler[h].phase = "authenticated"
  /\ q.token \in live
  /\ \E k \in Entries(q) :
       /\ k.body = q.body
       /\ handler' = [handler EXCEPT ![h] = [@ EXCEPT !.phase = "answered", !.id = k.id]]
  /\ UNCHANGED <<tables, live, reader, backup, created, secrets, issued, told, given>>

(* Unauthorized, IdempotencyConflict or NotFound: nothing is kept. *)
AppendRejected(h) ==
  LET q == handler[h].req IN
  /\ handler[h].phase = "authenticated"
  /\ \/ q.token \notin live
     \/ \E k \in Entries(q) : k.body # q.body
     \/ Entries(q) = {} /\ ~TargetsExist(q)
  /\ Drop(h)
  /\ UNCHANGED <<tables, live, reader, backup, created, secrets, issued, told, given>>

(* A new record, its inbox items and its idempotency row. *)
AppendNew(h) ==
  LET q == handler[h].req
      new == created + 1
      next == NextHeads(q.body.to)
  IN
  /\ handler[h].phase = "authenticated"
  /\ q.token \in live
  /\ Entries(q) = {}
  /\ TargetsExist(q)
  /\ created < MaxId
  /\ CursorCodec
  /\ records' = records \cup {[id |-> new, space |-> q.space, seq |-> NextSeq(q.space),
                               author |-> q.token[1], to |-> q.body.to,
                               targets |-> q.body.targets]}
  /\ heads' = next
  /\ mail' = mail \cup {[id |-> new, to |-> p, seq |-> next[p], acked |-> FALSE] : p \in q.body.to}
  /\ keys' = keys \cup {[author |-> q.token[1], space |-> q.space, key |-> q.key,
                         body |-> q.body, id |-> new]}
  /\ created' = new
  /\ given' = given \cup {[to |-> p, seq |-> next[p], id |-> new] : p \in q.body.to}
  /\ handler' = [handler EXCEPT ![h] = [@ EXCEPT !.phase = "answered", !.id = new]]
  /\ UNCHANGED <<epoch, live, reader, backup, issued, told>>

(* The answer arrives, *)
Receive(h) ==
  LET q == handler[h].req IN
  /\ handler[h].phase = "answered"
  /\ told' = told \cup {[author |-> q.token[1], space |-> q.space, key |-> q.key,
                         body |-> q.body, id |-> handler[h].id]}
  /\ Drop(h)
  /\ UNCHANGED <<tables, live, reader, backup, created, secrets, issued, given>>

(* ... or the request or its answer is lost on the way. *)
Lose(h) ==
  /\ handler[h].phase # "idle"
  /\ Drop(h)
  /\ UNCHANGED <<tables, live, reader, backup, created, secrets, issued, told, given>>

-----------------------------------------------------------------------------
(* GET /v1/inbox, /v1/spaces/{space}/records, /v1/spaces/{space}/search,   *)
(* /v1/records/{record_id}/delivery-status; POST /v1/inbox/{item_id}/ack   *)

HasToken(p) == \E t \in live : t[1] = p

Row(id, pos) == [id |-> id, pos |-> pos]

(* The default filter: unacknowledged items behind the cursor, up to its   *)
(* bound.                                                                  *)
Unacked(p, after, upper) ==
  {Row(i.id, i.seq) : i \in {x \in mail :
                             x.to = p /\ after < x.seq /\ x.seq <= upper /\ ~x.acked}}

(* Per-space sequences are unique: the cursor row is excluded. *)
RecordsAfter(s, after) ==
  {Row(r.id, r.seq) : r \in {x \in records : x.space = s /\ after < x.seq}}

(* search_page_sql in the order of the sequence. *)
FoundAfter(s, after) == {row \in RecordsAfter(s, after) : Score[row.id] > 0}

(* ... and by rank: ORDER BY score DESC, id. A record scores by itself,    *)
(* whatever else the journal holds, so its place among all is fixed.       *)
Outranks(i, j) == Score[i] > Score[j] \/ (Score[i] = Score[j] /\ Place[i] < Place[j])

RankOf(i) == Cardinality({j \in Ids : Outranks(j, i)}) + 1

BugRankedAfter(s, after) ==
  {row \in {Row(r.id, RankOf(r.id)) : r \in {x \in records : x.space = s /\ Score[x.id] > 0}} :
     \A i \in Ids : RankOf(i) = after => Score[row.id] < Score[i]}

(* score < ? OR (score = ? AND id > ?) *)
RankedAfter(s, after) ==
  {row \in {Row(r.id, RankOf(r.id)) : r \in {x \in records : x.space = s /\ Score[x.id] > 0}} :
     after < row.pos}

(* The receipts of a record: all of them for its author, their own for a   *)
(* recipient.                                                              *)
Receipts(p, r, after) ==
  {Row(i.to, Place[i.to]) : i \in {x \in mail : /\ x.id = r.id
                                               /\ (r.author = p \/ x.to = p)
                                               /\ after < Place[x.to]}}

(* LIMIT: the first rows in order. *)
FirstRows(rows) == {i \in rows : Cardinality({j \in rows : j.pos < i.pos}) < PageLimit}

(* finish_page: one row more than the limit was read to know whether there *)
(* is a next page, whose cursor holds the position of the last row.        *)
FinishPage(r, cursor, rows) ==
  LET page == FirstRows(rows) IN
  reader' = [reader EXCEPT ![r] =
    [cursor EXCEPT !.phase = IF Cardinality(rows) > PageLimit THEN "paging" ELSE "complete",
                   !.after = Max({@} \cup {i.pos : i \in page}),
                   !.got = @ \cup {i.id : i \in page},
                   !.rows = @ + Cardinality(page)]]

(* A request without a cursor starts a traversal by a principal of its     *)
(* inbox, a space or the receipts of a record. Its cursor holds a          *)
(* position, a bound, and the epoch and the secret it was made with; got   *)
(* and rows tell what was returned, and how many rows that were.           *)
FirstPage(r, route, p, of, upper, key, rows) ==
  /\ reader[r].phase = "idle"
  /\ HasToken(p)
  /\ FinishPage(r, [phase |-> "paging", route |-> route, by |-> p, of |-> of, after |-> 0,
                    upper |-> upper, epoch |-> epoch, secret |-> key, got |-> {}, rows |-> 0],
                rows)

(* CursorCodec.decode: the cursor was made with this secret, for this      *)
(* route and order and with the same filters. The filters name the caller, *)
(* what they read and, for the inbox, the epoch.                           *)
Decode(c, route, p, of) ==
  /\ c.secret = secret
  /\ c.route = route
  /\ c.by = p /\ c.of = of
  /\ route = "inbox" => c.epoch = epoch

(* Whichever cursor a request comes with, it continues only the traversal  *)
(* that the cursor is from.                                                *)
NextPage(r, route, p, of, rows) ==
  /\ reader[r].phase = "paging"
  /\ HasToken(p)
  /\ Decode(reader[r], route, p, of)
  /\ FinishPage(r, reader[r], rows)

(* inbox without a cursor captures the bound. Without a secret there can   *)
(* be no items, and the page is empty.                                     *)
InboxFirst(r, p) ==
  LET upper == Max({0} \cup {i.seq : i \in {x \in mail : x.to = p}}) IN
  /\ secret # 0
  /\ FirstPage(r, "inbox", p, p, upper, secret, Unacked(p, 0, upper))
  /\ UNCHANGED <<tables, live, handler, backup, created, secrets, issued, told, given>>

InboxNext(r, p) ==
  /\ NextPage(r, "inbox", p, p, Unacked(p, reader[r].after, reader[r].upper))
  /\ UNCHANGED <<tables, live, handler, backup, created, secrets, issued, told, given>>

(* list_records: read_paged makes sure of the secret; there is no bound. *)
RecordsFirst(r, p, s) ==
  /\ CursorCodec
  /\ FirstPage(r, "records", p, s, 0, secret', RecordsAfter(s, 0))
  /\ UNCHANGED <<records, mail, keys, heads, epoch, live, handler, backup, created, issued,
                 told, given>>

RecordsNext(r, p, s) ==
  /\ NextPage(r, "records", p, s, RecordsAfter(s, reader[r].after))
  /\ UNCHANGED <<tables, live, handler, backup, created, secrets, issued, told, given>>

(* search_records, in either order; the secret is made as for a listing.   *)
(* The bound is kept to tell which records were there at the start.        *)
SearchFirst(r, p, s) ==
  /\ CursorCodec
  /\ \/ FirstPage(r, "search", p, s, NextSeq(s) - 1, secret', FoundAfter(s, 0))
     \/ FirstPage(r, "ranked", p, s, NextSeq(s) - 1, secret', RankedAfter(s, 0))
  /\ UNCHANGED <<records, mail, keys, heads, epoch, live, handler, backup, created, issued,
                 told, given>>

SearchNext(r, p, s) ==
  /\ \/ NextPage(r, "search", p, s, FoundAfter(s, reader[r].after))
     \/ NextPage(r, "ranked", p, s, RankedAfter(s, reader[r].after))
  /\ UNCHANGED <<tables, live, handler, backup, created, secrets, issued, told, given>>

(* delivery_status: the author and the recipients of a record may ask. *)
MayAsk(p, q) == q.author = p \/ \E i \in mail : i.id = q.id /\ i.to = p

StatusFirst(r, p, q) ==
  /\ MayAsk(p, q)
  /\ secret # 0
  /\ FirstPage(r, "status", p, q.id, 0, secret, Receipts(p, q, 0))
  /\ UNCHANGED <<tables, live, handler, backup, created, secrets, issued, told, given>>

StatusNext(r, p, q) ==
  /\ MayAsk(p, q)
  /\ NextPage(r, "status", p, q.id, Receipts(p, q, reader[r].after))
  /\ UNCHANGED <<tables, live, handler, backup, created, secrets, issued, told, given>>

(* An invalid cursor is an error; the reader starts over without one. A    *)
(* reader may also give up.                                                *)
Restart(r) ==
  /\ reader[r].phase # "idle"
  /\ reader' = [reader EXCEPT ![r] = Idle]
  /\ UNCHANGED <<tables, live, handler, backup, created, secrets, issued, told, given>>

(* acknowledge_inbox_item; a second acknowledgment changes nothing. *)
Acknowledge(t, i) ==
  /\ t \in live
  /\ i.to = t[1]
  /\ mail' = (mail \ {i}) \cup {[i EXCEPT !.acked = TRUE]}
  /\ UNCHANGED <<records, keys, heads, secret, epoch, live, handler, reader, backup, created,
                 secrets, issued, told, given>>

-----------------------------------------------------------------------------
(* Administration *)

(* issue_principal, after the tokens it replaces were revoked. *)
Issue(p, revoked) ==
  /\ issued[p] < MaxTokens
  /\ live' = (live \ revoked) \cup {<<p, issued[p] + 1>>}
  /\ issued' = [issued EXCEPT ![p] = @ + 1]

(* rotate *)
Rotate(t) ==
  /\ t \in live
  /\ Issue(t[1], {t})
  /\ UNCHANGED <<tables, handler, reader, backup, created, secrets, told, given>>

(* recover_principal *)
RecoverPrincipal(p) ==
  /\ Issue(p, {t \in live : t[1] = p})
  /\ UNCHANGED <<tables, handler, reader, backup, created, secrets, told, given>>

(* revoke *)
Revoke(t) ==
  /\ t \in live
  /\ live' = live \ {t}
  /\ UNCHANGED <<tables, handler, reader, backup, created, secrets, issued, told, given>>

Tables == [records |-> records, mail |-> mail, keys |-> keys, secret |-> secret]

Backup ==
  /\ backup' = Tables
  /\ UNCHANGED <<tables, live, handler, reader, created, secrets, issued, told, given>>

BugRestoredHeads(b) ==
  [p \in Principals |-> Max({0} \cup {i.seq : i \in {x \in b.mail : x.to = p}})]

(* restore_security: allocation heads never go back, *)
RestoredHeads(b) == heads

(* ... nothing else of the tables modelled here is in the audit, and every *)
(* credential is revoked. The operator accepts what is lost.               *)
Restore ==
  /\ epoch < MaxEpoch
  /\ records' = backup.records
  /\ mail' = backup.mail
  /\ keys' = backup.keys
  /\ secret' = backup.secret
  /\ heads' = RestoredHeads(backup)
  /\ epoch' = epoch + 1
  /\ live' = {}
  /\ handler' = [h \in Handlers |-> Idle]
  /\ told' = told \cap backup.keys
  /\ UNCHANGED <<reader, backup, created, secrets, issued, given>>

-----------------------------------------------------------------------------
(* Every principal is registered; nothing was appended yet. *)
Init ==
  /\ records = {} /\ mail = {} /\ keys = {}
  /\ heads = [p \in Principals |-> 0]
  /\ secret = 0 /\ secrets = 0
  /\ epoch = 0
  /\ live = {<<p, 1>> : p \in Principals}
  /\ issued = [p \in Principals |-> 1]
  /\ handler = [h \in Handlers |-> Idle]
  /\ reader = [r \in Readers |-> Idle]
  /\ backup = Tables
  /\ created = 0
  /\ told = {} /\ given = {}

HandleAppend(h) ==
  \/ Authenticate(h)
  \/ AppendReplay(h)
  \/ AppendRejected(h)
  \/ AppendNew(h)
  \/ Receive(h)
  \/ Lose(h)

Page(r) ==
  \/ \E p \in Principals : InboxFirst(r, p) \/ InboxNext(r, p)
  \/ \E p \in Principals, s \in Spaces : RecordsFirst(r, p, s) \/ RecordsNext(r, p, s)
  \/ \E p \in Principals, s \in Spaces : SearchFirst(r, p, s) \/ SearchNext(r, p, s)
  \/ \E p \in Principals, q \in records : StatusFirst(r, p, q) \/ StatusNext(r, p, q)
  \/ Restart(r)

Administer ==
  \/ \E t \in live : Rotate(t) \/ Revoke(t)
  \/ \E p \in Principals : RecoverPrincipal(p)
  \/ Backup
  \/ Restore

Next ==
  \/ \E h \in Handlers : HandleAppend(h)
  \/ \E r \in Readers : Page(r)
  \/ \E t \in live, i \in mail : Acknowledge(t, i)
  \/ Administer

Spec == Init /\ [][Next]_vars

-----------------------------------------------------------------------------
(* Properties *)

(* The keys of an author in a space, each bound to one request and one     *)
(* record.                                                                 *)
KeysOf(K, R) ==
  /\ \A j, k \in K : j.author = k.author /\ j.space = k.space /\ j.key = k.key => j = k
  /\ \A j, k \in K : j.id = k.id => j = k
  /\ \A k \in K : \E r \in R :
       r.id = k.id /\ r.author = k.author /\ r.space = k.space /\ r.to = k.body.to
  /\ \A r \in R : \E k \in K : r.id = k.id

(* append_record: however often a request is sent, and with whichever of   *)
(* its author's tokens, it creates one record, and every caller told of    *)
(* success was told of the record that its key and body still name.        *)
AppendedOnce == KeysOf(keys, records) /\ told \subseteq keys

(* append_record: each recipient in a record's attention has one inbox     *)
(* item for it, and its items are ordered as the records of a space are.   *)
InboxFollowsRecords ==
  /\ \A r \in records, p \in Principals :
       Cardinality({i \in mail : i.id = r.id /\ i.to = p}) = (IF p \in r.to THEN 1 ELSE 0)
  /\ \A i \in mail : \E r \in records : r.id = i.id
  /\ \A i, j \in mail, q, r \in records :
       /\ i.to = j.to /\ i.id = q.id /\ j.id = r.id
       /\ q.space = r.space /\ q.seq < r.seq
       => i.seq < j.seq

(* inbox_sequences: a number a recipient was once given is never given to  *)
(* another item, not even when a backup without the first one is restored, *)
(* and every item in the inbox still has the number it was given.          *)
NumbersNeverReused ==
  /\ \A g, h \in given : g.to = h.to /\ g.seq = h.seq => g.id = h.id
  /\ \A i \in mail : [to |-> i.to, seq |-> i.seq, id |-> i.id] \in given

(* The records of a space are numbered without gaps or repetition, and a   *)
(* relation points to a record of the same space with a smaller number: no *)
(* chain of relations ever comes back to where it started.                 *)
RelationsPointBack ==
  /\ \A q, r \in records : q.id = r.id \/ (q.space = r.space /\ q.seq = r.seq) => q = r
  /\ \A r \in records : \A n \in 1..r.seq : \E q \in records : q.space = r.space /\ q.seq = n
  /\ \A r \in records : \A t \in r.targets :
       \E q \in records : q.id = t /\ q.space = r.space /\ q.seq < r.seq

(* inbox and delivery_status fail when there are items or records but no   *)
(* cursor secret: that never happens, whatever was restored.               *)
SecretBeforeRecords == records # {} \/ mail # {} => secret # 0

Completes(r) == reader[r].phase # "complete" /\ reader'[r].phase = "complete"

(* A traversal of the inbox has returned no item twice, nothing that       *)
(* arrived after it started, and every item up to there that still awaits  *)
(* acknowledgment, whatever was restored meanwhile.                        *)
InboxTraversed(r) ==
  LET c == reader'[r] IN
  /\ Cardinality(c.got) = c.rows
  /\ \A i \in mail : i.to = c.of /\ i.seq <= c.upper /\ ~i.acked => i.id \in c.got
  /\ \A i \in mail : i.to = c.of /\ i.id \in c.got => i.seq <= c.upper

(* A traversal of a space that no restore interrupted has returned every   *)
(* record of the space, once.                                              *)
SpaceTraversed(r) ==
  LET c == reader'[r] IN
  /\ Cardinality(c.got) = c.rows
  /\ c.epoch = epoch => c.got = {q.id : q \in {x \in records : x.space = c.of}}

(* A search that no restore interrupted has returned no record twice, ties *)
(* in its rank included; in the order of the sequence it has returned      *)
(* every match ("deterministic"), by rank every match that was there when  *)
(* it started ("best-effort").                                             *)
Searched(r) ==
  LET c == reader'[r]
      found == {q \in records : q.space = c.of /\ Score[q.id] > 0}
  IN
  /\ Cardinality(c.got) = c.rows
  /\ c.epoch = epoch =>
       /\ c.got \subseteq {q.id : q \in found}
       /\ \A q \in found : c.route = "search" \/ q.seq <= c.upper => q.id \in c.got

(* The author of a record has a receipt for each of its recipients, once,  *)
(* and a recipient its own alone, whatever was restored between the pages. *)
ReceiptsTraversed(r) ==
  LET c == reader'[r] IN
  /\ Cardinality(c.got) = c.rows
  /\ \E q \in records : q.id = c.of /\ c.got = (IF q.author = c.by THEN q.to ELSE {c.by})

(* inbox, list_records, search_records and delivery_status: by its last    *)
(* page a traversal has returned every row it should, once, and no other,  *)
(* whatever was appended, acknowledged or restored between its pages.      *)
PassesAreComplete ==
  [][\A r \in Readers : Completes(r) =>
       CASE reader'[r].route = "inbox"                -> InboxTraversed(r)
         [] reader'[r].route = "records"              -> SpaceTraversed(r)
         [] reader'[r].route \in {"search", "ranked"} -> Searched(r)
         [] reader'[r].route = "status"               -> ReceiptsTraversed(r)]_vars
=============================================================================
