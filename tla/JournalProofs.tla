--------------------------- MODULE JournalProofs ---------------------------
(***************************************************************************)
(* Proofs about Journal, for any number of principals, spaces, keys,       *)
(* request bodies, concurrent requests, readers, records and restores.     *)
(***************************************************************************)
EXTENDS Journal, FiniteSetTheorems, TLAPS

(* The time a leaf may take on a busy machine; a leaf with arithmetic has *)
(* a second attempt.                                                      *)
USE ZenonT(60)

-----------------------------------------------------------------------------
(* The inductive invariant. What it says of the tables it also says of the *)
(* backup, since a restore makes one the other.                            *)

(* The records of a space have the numbers 1 .. n. *)
Numbered(R) ==
  /\ \A q, r \in R : q.id = r.id => q = r
  /\ \A q, r \in R : q.space = r.space /\ q.seq = r.seq => q = r
  /\ \A s \in Spaces : \E n \in Nat : {r.seq : r \in {x \in R : x.space = s}} = 1..n

Related(R) ==
  \A r \in R : \A t \in r.targets : \E q \in R : q.id = t /\ q.space = r.space /\ q.seq < r.seq

(* One item per record and recipient. *)
Delivered(R, M) ==
  /\ \A i \in M : \E r \in R : r.id = i.id /\ i.to \in r.to
  /\ \A r \in R : \A p \in r.to : \E i \in M : i.id = r.id /\ i.to = p
  /\ \A i, j \in M : i.id = j.id /\ i.to = j.to => i = j

Ordered(R, M) ==
  \A i, j \in M, q, r \in R :
    i.to = j.to /\ i.id = q.id /\ j.id = r.id /\ q.space = r.space /\ q.seq < r.seq
      => i.seq < j.seq

TablesOK(R, M, K) ==
  /\ R \in SUBSET Records /\ M \in SUBSET Items /\ K \in SUBSET KeyRows
  /\ KeysOf(K, R) /\ Numbered(R) /\ Related(R) /\ Delivered(R, M) /\ Ordered(R, M)

(* Record ids and inbox numbers are drawn from counters that no restore    *)
(* puts back.                                                              *)
Drawn(R, M) ==
  /\ \A r \in R : r.id <= created
  /\ \A i \in M : [to |-> i.to, seq |-> i.seq, id |-> i.id] \in given

Allocated ==
  /\ given \in SUBSET [to : Principals, seq : Nat, id : Ids]
  /\ \A g \in given : g.seq <= heads[g.to] /\ g.id <= created
  /\ \A g, h \in given : g.to = h.to /\ g.seq = h.seq => g.id = h.id

KeyRow(h) ==
  [author |-> handler[h].req.token[1], space |-> handler[h].req.space,
   key |-> handler[h].req.key, body |-> handler[h].req.body, id |-> handler[h].id]

(* An answer that is under way names what is in the tables. *)
Answered ==
  /\ handler \in [Handlers -> {Idle} \cup Handling]
  /\ \A h \in Handlers : handler[h].phase = "answered" => KeyRow(h) \in keys
  /\ told \subseteq keys

Counters ==
  /\ heads \in [Principals -> Nat] /\ created \in 0..MaxId
  /\ secret \in Nat /\ secrets \in Nat
  /\ issued \in [Principals -> 1..MaxTokens] /\ live \in SUBSET Tokens

BackupOK ==
  /\ TablesOK(backup.records, backup.mail, backup.keys)
  /\ Drawn(backup.records, backup.mail)
  /\ backup.secret \in Nat
  /\ backup.records # {} => backup.secret # 0

JournalInv ==
  /\ Counters
  /\ TablesOK(records, mail, keys) /\ Drawn(records, mail)
  /\ records # {} => secret # 0
  /\ BackupOK /\ Allocated /\ Answered

-----------------------------------------------------------------------------
(* Lemmas about the operators.                                             *)

(* NextSeq: the first number that the space does not have. *)
LEMMA NextSeqIsNew ==
  ASSUME NEW s \in Spaces, Numbered(records)
  PROVE  \E n \in Nat : /\ NextSeq(s) = n + 1
                        /\ {r.seq : r \in {x \in records : x.space = s}} = 1..n
<1>1. PICK n \in Nat : {r.seq : r \in {x \in records : x.space = s}} = 1..n
  BY DEF Numbered
<1>2. n \in {0} \cup 1..n /\ \A y \in {0} \cup 1..n : n >= y
  BY SMTT(30), SMTT(45)
<1>3. \A x \in {0} \cup 1..n : (\A y \in {0} \cup 1..n : x >= y) => x = n
  <2> SUFFICES ASSUME NEW x \in {0} \cup 1..n, \A y \in {0} \cup 1..n : x >= y PROVE x = n
    OBVIOUS
  <2>1. x >= n /\ n >= x /\ x \in Int
    BY <1>2, SMTT(30), SMTT(45)
  <2> QED BY <2>1, SMTT(30), SMTT(45)
<1>4. Max({0} \cup 1..n) = n
  BY <1>2, <1>3 DEF Max
<1> QED BY <1>1, <1>4 DEF NextSeq

(* A request that is being handled is a whole request. *)
LEMMA RequestIsWhole ==
  ASSUME Answered, NEW h \in Handlers, handler[h].phase # "idle"
  PROVE  /\ handler[h] \in Handling /\ handler[h].req \in Requests
         /\ handler[h].req.token[1] \in Principals /\ handler[h].req.space \in Spaces
         /\ handler[h].req.key \in Keys /\ handler[h].req.body \in Bodies
         /\ handler[h].req.body.to \in SUBSET Principals
         /\ handler[h].req.body.targets \in SUBSET Ids
<1>1. handler[h] \in Handling
  BY SMTT(30), SMTT(45) DEF Answered, Idle
<1>2. handler[h].req \in Requests
  BY <1>1 DEF Handling
<1>3. handler[h].req.token \in Tokens /\ handler[h].req.space \in Spaces
      /\ handler[h].req.key \in Keys /\ handler[h].req.body \in Bodies
  BY <1>2 DEF Requests
<1> QED BY <1>1, <1>2, <1>3, ConstantsAssumption DEF Tokens

(* Answering a request only changes what is answered. *)
LEMMA AnswerIsWhole ==
  ASSUME NEW x \in Handling, NEW id \in 0..MaxId
  PROVE  LET y == [x EXCEPT !.phase = "answered", !.id = id] IN
         y \in Handling /\ y.req = x.req /\ y.id = id /\ y.phase = "answered"
BY DEF Handling

-----------------------------------------------------------------------------
(* append_record *)

(* The rows that append_record adds. *)
NewRecord(q) == [id |-> created + 1, space |-> q.space, seq |-> NextSeq(q.space),
                 author |-> q.token[1], to |-> q.body.to, targets |-> q.body.targets]

NewItem(p) == [id |-> created + 1, to |-> p, seq |-> heads[p] + 1, acked |-> FALSE]

NewItems(q) == {NewItem(p) : p \in q.body.to}

NewKey(q) == [author |-> q.token[1], space |-> q.space, key |-> q.key, body |-> q.body,
              id |-> created + 1]

(* What AppendNew does, by the rows it adds. *)
LEMMA AppendNewEffect ==
  ASSUME JournalInv, NEW h \in Handlers, AppendNew(h)
  PROVE  LET q == handler[h].req IN
         /\ handler[h].phase = "authenticated" /\ handler[h] \in Handling
         /\ q \in Requests /\ q.body.to \in SUBSET Principals /\ q.body.targets \in SUBSET Ids
         /\ q.token[1] \in Principals /\ q.space \in Spaces /\ q.key \in Keys /\ q.body \in Bodies
         /\ created' = created + 1 /\ created + 1 \in Ids
         /\ records' = records \cup {NewRecord(q)}
         /\ mail' = mail \cup NewItems(q)
         /\ keys' = keys \cup {NewKey(q)}
         /\ heads' = [p \in Principals |-> IF p \in q.body.to THEN heads[p] + 1 ELSE heads[p]]
         /\ given' = given \cup {[to |-> p, seq |-> heads[p] + 1, id |-> created + 1]
                                   : p \in q.body.to}
<1> DEFINE q == handler[h].req
<1>1. handler[h].phase = "authenticated"
  BY DEF AppendNew
<1>2. /\ handler[h] \in Handling /\ q \in Requests /\ q.token[1] \in Principals
      /\ q.space \in Spaces /\ q.key \in Keys /\ q.body \in Bodies
      /\ q.body.to \in SUBSET Principals /\ q.body.targets \in SUBSET Ids
  BY <1>1, RequestIsWhole DEF JournalInv
<1>3. created' = created + 1 /\ created + 1 \in Ids
  <2>1. created' = created + 1 /\ created < MaxId /\ created \in 0..MaxId
    BY DEF AppendNew, JournalInv, Counters
  <2>2. created + 1 \in 1..MaxId
    BY <2>1, ConstantsAssumption, SMTT(30), SMTT(45)
  <2> QED BY <2>1, <2>2 DEF Ids
<1>4. heads' = [p \in Principals |-> IF p \in q.body.to THEN heads[p] + 1 ELSE heads[p]]
  BY DEF AppendNew, NextHeads
<1>5. \A p \in q.body.to : NextHeads(q.body.to)[p] = heads[p] + 1
  BY <1>2 DEF NextHeads
<1>6. mail' = mail \cup NewItems(q)
  BY <1>5 DEF AppendNew, NewItems, NewItem
<1>7. given' = given \cup {[to |-> p, seq |-> heads[p] + 1, id |-> created + 1]
                             : p \in q.body.to}
  BY <1>5 DEF AppendNew
<1>8. records' = records \cup {NewRecord(q)} /\ keys' = keys \cup {NewKey(q)}
  BY DEF AppendNew, NewRecord, NewKey
<1> QED BY <1>1, <1>2, <1>3, <1>4, <1>6, <1>7, <1>8

(* The new rows fit the tables. *)
LEMMA AppendNewTables ==
  ASSUME JournalInv, NEW h \in Handlers, AppendNew(h)
  PROVE  TablesOK(records', mail', keys')
<1> DEFINE q == handler[h].req
           rec == NewRecord(q)
<1>1. /\ q.body.to \in SUBSET Principals /\ q.body.targets \in SUBSET Ids
      /\ q.token[1] \in Principals /\ q.space \in Spaces /\ q.key \in Keys /\ q.body \in Bodies
      /\ created + 1 \in Ids
      /\ records' = records \cup {rec} /\ mail' = mail \cup NewItems(q)
      /\ keys' = keys \cup {NewKey(q)}
  BY AppendNewEffect
<1>2. TablesOK(records, mail, keys) /\ Drawn(records, mail) /\ created \in Nat
  <2>1. TablesOK(records, mail, keys) /\ Drawn(records, mail) /\ created \in 0..MaxId
    BY DEF JournalInv, Counters
  <2> QED BY <2>1, ConstantsAssumption, SMTT(30), SMTT(45)
<1>3. /\ records \in SUBSET Records /\ mail \in SUBSET Items /\ keys \in SUBSET KeyRows
      /\ KeysOf(keys, records) /\ Numbered(records) /\ Related(records)
      /\ Delivered(records, mail) /\ Ordered(records, mail)
  BY <1>2 DEF TablesOK
<1>4. PICK n \in Nat : /\ NextSeq(q.space) = n + 1
                       /\ {r.seq : r \in {x \in records : x.space = q.space}} = 1..n
  BY <1>1, <1>3, NextSeqIsNew
<1>5. \A r \in records : r.id \in Nat /\ r.id # created + 1
  BY <1>2, <1>3, SMTT(30), SMTT(45) DEF Drawn, Records, Ids
<1>6. \A r \in records : r.space = q.space => r.seq \in 1..n
  BY <1>4
<1>7. /\ rec.id = created + 1 /\ rec.space = q.space /\ rec.seq = n + 1
      /\ rec.author = q.token[1] /\ rec.to = q.body.to /\ rec.targets = q.body.targets
  BY <1>4 DEF NewRecord
<1>8. \A i \in mail : i.id # created + 1
  BY <1>3, <1>5 DEF Delivered
<1>9. \A i \in NewItems(q) : /\ i.id = created + 1 /\ i.to \in q.body.to
                              /\ i.seq = heads[i.to] + 1 /\ i.acked = FALSE
  BY SMTT(30), SMTT(45) DEF NewItems, NewItem
<1>10. \A p \in q.body.to : \E i \in NewItems(q) : i.to = p
  <2>1. \A p \in q.body.to : NewItem(p) \in NewItems(q)
    BY DEF NewItems
  <2>2. \A p \in q.body.to : NewItem(p).to = p
    BY DEF NewItem
  <2> QED BY <2>1, <2>2
<1>11. /\ rec \in Records /\ NewItems(q) \in SUBSET Items /\ NewKey(q) \in KeyRows
  <2>1. rec \in Records
    BY <1>1, <1>4, SMTT(30), SMTT(45) DEF NewRecord, Records
  <2>2. NewItems(q) \in SUBSET Items
    <3>1. \A p \in Principals : NewItem(p) \in Items
      BY <1>1, SMTT(30), SMTT(45) DEF NewItem, Items, JournalInv, Counters
    <3> QED BY <1>1, <3>1 DEF NewItems
  <2>3. NewKey(q) \in KeyRows
    BY <1>1 DEF NewKey, KeyRows
  <2> QED BY <2>1, <2>2, <2>3
<1>12. KeysOf(keys', records')
  <2>1. /\ NewKey(q).author = q.token[1] /\ NewKey(q).space = q.space /\ NewKey(q).key = q.key
        /\ NewKey(q).body = q.body /\ NewKey(q).id = created + 1
    BY DEF NewKey
  <2>2. \A k \in keys : ~(k.author = q.token[1] /\ k.space = q.space /\ k.key = q.key)
    BY DEF AppendNew, Entries
  <2>3. \A k \in keys : k.id # created + 1
    BY <1>3, <1>5, SMTT(30), SMTT(45) DEF KeysOf
  <2> QED BY <1>1, <1>3, <1>7, <2>1, <2>2, <2>3, SMTT(30), SMTT(45) DEF KeysOf
<1>13. Numbered(records')
  <2>1. \A a, b \in records' : a.id = b.id => a = b
    BY <1>1, <1>3, <1>5, <1>7 DEF Numbered
  <2>2. \A a, b \in records' : a.space = b.space /\ a.seq = b.seq => a = b
    BY <1>1, <1>3, <1>6, <1>7, SMTT(30), SMTT(45) DEF Numbered
  <2>3. ASSUME NEW s \in Spaces
        PROVE  \E m \in Nat : {r.seq : r \in {x \in records' : x.space = s}} = 1..m
    <3>1. CASE s = q.space
      <4>1. {r.seq : r \in {x \in records' : x.space = s}} = 1..n \cup {n + 1}
        BY <1>1, <1>4, <1>7, <3>1
      <4>2. 1..n \cup {n + 1} = 1..(n + 1) /\ n + 1 \in Nat
        BY SMTT(30), SMTT(45)
      <4> QED BY <4>1, <4>2
    <3>2. CASE s # q.space
      <4>1. {x \in records' : x.space = s} = {x \in records : x.space = s}
        BY <1>1, <1>7, <3>2
      <4> QED BY <1>3, <4>1 DEF Numbered
    <3> QED BY <3>1, <3>2
  <2> QED BY <2>1, <2>2, <2>3 DEF Numbered
<1>14. Related(records')
  <2>1. \A t \in rec.targets : \E r \in records : r.id = t /\ r.space = q.space /\ r.seq < n + 1
    <3>1. \A t \in rec.targets : \E r \in records : r.id = t /\ r.space = q.space
      BY <1>7 DEF AppendNew, TargetsExist
    <3>2. \A m \in 1..n : m < n + 1
      BY SMTT(30), SMTT(45)
    <3> QED BY <1>6, <3>1, <3>2
  <2>2. ASSUME NEW r \in records, NEW t \in r.targets
        PROVE  \E a \in records' : a.id = t /\ a.space = r.space /\ a.seq < r.seq
    BY <1>1, <1>3 DEF Related
  <2>3. ASSUME NEW t \in rec.targets
        PROVE  \E a \in records' : a.id = t /\ a.space = rec.space /\ a.seq < rec.seq
    <3>1. PICK a \in records : a.id = t /\ a.space = q.space /\ a.seq < n + 1
      BY <2>1
    <3> QED BY <1>1, <1>7, <3>1
  <2>4. ASSUME NEW r \in records', NEW t \in r.targets
        PROVE  \E a \in records' : a.id = t /\ a.space = r.space /\ a.seq < r.seq
    <3>1. CASE r \in records
      BY <2>2, <3>1
    <3>2. CASE r = rec
      BY <2>3, <3>2
    <3> QED BY <1>1, <3>1, <3>2
  <2> QED BY <2>4 DEF Related
<1>15. Delivered(records', mail')
  <2>1. \A i \in mail' : \E r \in records' : r.id = i.id /\ i.to \in r.to
    BY <1>1, <1>3, <1>7, <1>9 DEF Delivered
  <2>2. \A r \in records' : \A p \in r.to : \E i \in mail' : i.id = r.id /\ i.to = p
    BY <1>1, <1>3, <1>7, <1>9, <1>10, SMTT(30), SMTT(45) DEF Delivered
  <2>3. \A i, j \in NewItems(q) : i.to = j.to => i = j
    <3>1. \A i \in NewItems(q) : i = NewItem(i.to)
      <4>1. \A p \in q.body.to : NewItem(p).to = p
        BY DEF NewItem
      <4> QED BY <4>1 DEF NewItems
    <3> QED BY <3>1
  <2>4. \A i, j \in mail' : i.id = j.id /\ i.to = j.to => i = j
    BY <1>1, <1>3, <1>8, <1>9, <2>3, SMTT(30), SMTT(45) DEF Delivered
  <2> QED BY <2>1, <2>2, <2>4 DEF Delivered
<1>16. Ordered(records', mail')
  <2> SUFFICES ASSUME NEW i \in mail', NEW j \in mail', NEW a \in records', NEW b \in records',
                      i.to = j.to, i.id = a.id, j.id = b.id, a.space = b.space, a.seq < b.seq
               PROVE  i.seq < j.seq
    BY DEF Ordered
  <2>1. CASE i \in mail /\ j \in mail
    BY <1>1, <1>3, <1>7, <1>8, <2>1 DEF Ordered
  <2>2. CASE i \in mail /\ j \in NewItems(q)
    <3>1. i.seq \in Nat /\ i.to \in Principals
      BY <1>3, <2>2 DEF Items
    <3>2. i.seq <= heads[i.to] /\ heads[i.to] \in Nat
      <4>1. [to |-> i.to, seq |-> i.seq, id |-> i.id] \in given
        BY <1>2, <2>2 DEF Drawn
      <4> QED BY <3>1, <4>1 DEF JournalInv, Allocated, Counters
    <3>3. j.seq = heads[i.to] + 1
      BY <1>9, <2>2
    <3> QED BY <3>1, <3>2, <3>3, SMTT(30), SMTT(45)
  <2>3. CASE i \in NewItems(q)
    <3>1. a = rec
      BY <1>1, <1>5, <1>9, <2>3
    <3>2. b \in records => b.seq \in 1..n
      BY <1>6, <1>7, <3>1
    <3> QED BY <1>1, <1>7, <3>1, <3>2, SMTT(30), SMTT(45)
  <2> QED BY <1>1, <2>1, <2>2, <2>3
<1> QED BY <1>1, <1>3, <1>11, <1>12, <1>13, <1>14, <1>15, <1>16 DEF TablesOK

(* The secret is there after cursor_codec, and is kept once it is there. *)
LEMMA CursorCodecEffect ==
  ASSUME Counters, CursorCodec
  PROVE  secret' \in Nat /\ secrets' \in Nat /\ secret' # 0
BY SMTT(30), SMTT(45) DEF Counters, CursorCodec

(* A new record keeps the invariant. *)
LEMMA AppendNewStep ==
  ASSUME JournalInv, NEW h \in Handlers, AppendNew(h)
  PROVE  JournalInv'
<1> DEFINE q == handler[h].req
<1>1. /\ handler[h].phase = "authenticated" /\ handler[h] \in Handling
      /\ q \in Requests /\ q.body.to \in SUBSET Principals
      /\ created' = created + 1 /\ created + 1 \in Ids
      /\ records' = records \cup {NewRecord(q)}
      /\ mail' = mail \cup NewItems(q)
      /\ keys' = keys \cup {NewKey(q)}
      /\ heads' = [p \in Principals |-> IF p \in q.body.to THEN heads[p] + 1 ELSE heads[p]]
      /\ given' = given \cup {[to |-> p, seq |-> heads[p] + 1, id |-> created + 1]
                                : p \in q.body.to}
  BY AppendNewEffect
<1>2. /\ UNCHANGED <<backup, live, issued, told>>
      /\ handler' = [handler EXCEPT ![h] = [@ EXCEPT !.phase = "answered", !.id = created + 1]]
  BY DEF AppendNew
<1>3. secret' \in Nat /\ secrets' \in Nat /\ secret' # 0
  BY CursorCodecEffect DEF AppendNew, JournalInv
<1>4. /\ Counters /\ TablesOK(records, mail, keys) /\ Drawn(records, mail) /\ BackupOK
      /\ Allocated /\ Answered
  BY DEF JournalInv
<1>5. Counters'
  BY <1>1, <1>2, <1>3, <1>4, SMTT(30), SMTT(45) DEF Counters, Ids
<1>6. TablesOK(records', mail', keys')
  BY AppendNewTables
<1>7. created < created + 1 /\ created \in Nat
  BY <1>4, SMTT(30), SMTT(45) DEF Counters
<1>8. Drawn(records, mail)'
  <2>1. NewRecord(q).id = created + 1
    BY DEF NewRecord
  <2>2. \A r \in records : r.id \in Nat
    BY <1>4, SMTT(30), SMTT(45) DEF TablesOK, Records, Ids
  <2>3. \A r \in records' : r.id <= created'
    BY <1>1, <1>4, <1>7, <2>1, <2>2, SMTT(30), SMTT(45) DEF Drawn
  <2>4. \A i \in NewItems(q) : [to |-> i.to, seq |-> i.seq, id |-> i.id] \in given'
    BY <1>1, SMTT(30), SMTT(45) DEF NewItems, NewItem
  <2> QED BY <1>1, <1>4, <2>3, <2>4 DEF Drawn
<1>9. BackupOK'
  <2>1. \A r \in backup.records : r.id \in Nat
    BY <1>4, SMTT(30), SMTT(45) DEF BackupOK, TablesOK, Records, Ids
  <2>2. Drawn(backup.records, backup.mail)'
    BY <1>1, <1>2, <1>4, <1>7, <2>1, SMTT(30), SMTT(45) DEF BackupOK, Drawn
  <2> QED BY <1>2, <1>4, <2>2, SMTT(30), SMTT(45) DEF BackupOK, TablesOK, KeysOf, Numbered, Related, Delivered, Ordered
<1>10. Allocated'
  <2> DEFINE new == {[to |-> p, seq |-> heads[p] + 1, id |-> created + 1] : p \in q.body.to}
  <2>1. \A g \in new : /\ g \in [to : Principals, seq : Nat, id : Ids] /\ g.to \in q.body.to
                        /\ g.seq = heads[g.to] + 1 /\ g.id = created + 1
    BY <1>1, <1>4, SMTT(30), SMTT(45) DEF Counters
  <2>2. \A g \in given : /\ g.to \in Principals /\ g.seq \in Nat /\ g.id \in Nat
                          /\ g.seq <= heads[g.to] /\ g.id <= created
    BY <1>4, SMTT(30), SMTT(45) DEF Allocated, Ids
  <2>3. \A p \in Principals : heads[p] \in Nat /\ heads'[p] \in Nat /\ heads[p] <= heads'[p]
    BY <1>1, <1>4, SMTT(30), SMTT(45) DEF Counters
  <2>4. \A p \in q.body.to : heads'[p] = heads[p] + 1
    BY <1>1
  <2>5. \A g \in given' : g.seq <= heads'[g.to] /\ g.id <= created'
    BY <1>1, <1>7, <2>1, <2>2, <2>3, <2>4, SMTT(30), SMTT(45)
  <2>6. \A g, k \in given' : g.to = k.to /\ g.seq = k.seq => g.id = k.id
    <3>1. \A g \in given, k \in new : g.to = k.to => g.seq # k.seq
      BY <2>1, <2>2, <2>3, SMTT(30), SMTT(45)
    <3>2. \A g, k \in given : g.to = k.to /\ g.seq = k.seq => g.id = k.id
      BY <1>4 DEF Allocated
    <3>3. \A g, k \in new : g.id = k.id
      BY <2>1
    <3> QED BY <1>1, <3>1, <3>2, <3>3, SMTT(30), SMTT(45)
  <2>7. given' \in SUBSET [to : Principals, seq : Nat, id : Ids]
    BY <1>1, <1>4, <2>1 DEF Allocated
  <2> QED BY <2>5, <2>6, <2>7 DEF Allocated
<1>11. Answered'
  <2>1. handler' \in [Handlers -> {Idle} \cup Handling]
    <3>1. created + 1 \in 0..MaxId
      BY <1>1, SMTT(30), SMTT(45) DEF Ids
    <3>2. [handler[h] EXCEPT !.phase = "answered", !.id = created + 1] \in Handling
      BY <1>1, <3>1, AnswerIsWhole
    <3> QED BY <1>2, <1>4, <3>2 DEF Answered
  <2>2. ASSUME NEW g \in Handlers, handler'[g].phase = "answered" PROVE KeyRow(g)' \in keys'
    <3>1. CASE g = h
      <4>1. handler'[h].req = q /\ handler'[h].id = created + 1
        BY <1>1, <1>2, <1>4 DEF Answered, Handling
      <4> QED BY <1>1, <3>1, <4>1 DEF KeyRow, NewKey
    <3>2. CASE g # h
      <4>1. handler'[g] = handler[g]
        BY <1>2, <1>4, <3>2 DEF Answered
      <4> QED BY <1>1, <1>4, <2>2, <4>1 DEF Answered, KeyRow
    <3> QED BY <3>1, <3>2
  <2> QED BY <1>1, <1>2, <1>4, <2>1, <2>2 DEF Answered
<1> QED BY <1>3, <1>5, <1>6, <1>8, <1>9, <1>10, <1>11 DEF JournalInv

-----------------------------------------------------------------------------
(* Steps that leave the records alone.                                     *)

(* What an unchanged part of the state keeps. *)
LEMMA TablesFrame ==
  ASSUME JournalInv,
         UNCHANGED <<records, mail, keys, backup, created, given, heads>>
  PROVE  /\ TablesOK(records, mail, keys)' /\ Drawn(records, mail)' /\ BackupOK' /\ Allocated'
<1>1. TablesOK(records, mail, keys)' /\ Drawn(records, mail)'
  <2>1. TablesOK(records, mail, keys) /\ Drawn(records, mail)
    BY DEF JournalInv
  <2>2. TablesOK(records, mail, keys)'
    BY <2>1
  <2>3. Drawn(records, mail)'
    BY <2>1 DEF Drawn
  <2> QED BY <2>2, <2>3
<1>2. BackupOK'
  BY SMTT(30), SMTT(45) DEF JournalInv, BackupOK, TablesOK, KeysOf, Numbered, Related, Delivered, Ordered, Drawn
<1>3. Allocated'
  BY DEF JournalInv, Allocated
<1> QED BY <1>1, <1>2, <1>3

(* A request arrives, is answered from its key, is refused, or its answer  *)
(* arrives or is lost.                                                     *)
LEMMA HandlerSteps ==
  ASSUME JournalInv, NEW h \in Handlers,
         Authenticate(h) \/ AppendReplay(h) \/ AppendRejected(h) \/ Receive(h) \/ Lose(h)
  PROVE  JournalInv'
<1> USE DEF tables
<1>1. UNCHANGED <<records, mail, keys, heads, secret, secrets, live, issued, backup, created, given>>
  BY DEF Authenticate, AppendReplay, AppendRejected, Receive, Lose
<1>2. Counters'
  BY <1>1 DEF JournalInv, Counters
<1>3. /\ TablesOK(records, mail, keys)' /\ Drawn(records, mail)' /\ BackupOK' /\ Allocated'
  BY <1>1, TablesFrame
<1>4. Answered'
  <2>0. Answered
    BY DEF JournalInv
  <2>1. CASE Authenticate(h)
    <3>1. PICK t \in live, s \in Spaces, k \in Keys, b \in Bodies :
            handler' = [handler EXCEPT ![h] =
              [phase |-> "authenticated",
               req |-> [token |-> t, space |-> s, key |-> k, body |-> b], id |-> 0]]
      BY <2>1 DEF Authenticate
    <3>2. [phase |-> "authenticated",
           req |-> [token |-> t, space |-> s, key |-> k, body |-> b], id |-> 0] \in Handling
      BY ConstantsAssumption, SMTT(30), SMTT(45) DEF Handling, Requests, JournalInv, Counters
    <3>3. handler' \in [Handlers -> {Idle} \cup Handling]
      BY <2>0, <3>1, <3>2 DEF Answered
    <3>4. \A g \in Handlers : handler'[g].phase = "answered" => handler'[g] = handler[g]
      BY <2>0, <3>1 DEF Answered
    <3>5. told' = told
      BY <2>1 DEF Authenticate
    <3> QED BY <1>1, <2>0, <3>3, <3>4, <3>5 DEF Answered, KeyRow
  <2>2. CASE AppendReplay(h)
    <3>1. PICK k \in Entries(handler[h].req) :
            /\ k.body = handler[h].req.body
            /\ handler' = [handler EXCEPT ![h] = [@ EXCEPT !.phase = "answered", !.id = k.id]]
      BY <2>2 DEF AppendReplay
    <3>2. /\ k \in keys /\ k.author = handler[h].req.token[1] /\ k.space = handler[h].req.space
          /\ k.key = handler[h].req.key /\ k \in KeyRows
      BY <3>1 DEF Entries, JournalInv, TablesOK
    <3>3. handler[h] \in Handling
      BY <2>0, <2>2, RequestIsWhole DEF AppendReplay
    <3>4. k.id \in 0..MaxId
      BY <3>2, SMTT(30), SMTT(45) DEF KeyRows, Ids
    <3>5. LET y == [handler[h] EXCEPT !.phase = "answered", !.id = k.id] IN
          y \in Handling /\ y.req = handler[h].req /\ y.id = k.id
      BY <3>3, <3>4, AnswerIsWhole
    <3>6. /\ handler' \in [Handlers -> {Idle} \cup Handling]
          /\ handler'[h].req = handler[h].req /\ handler'[h].id = k.id
          /\ \A g \in Handlers \ {h} : handler'[g] = handler[g]
      BY <2>0, <3>1, <3>5 DEF Answered
    <3>7. k = [author |-> k.author, space |-> k.space, key |-> k.key, body |-> k.body, id |-> k.id]
      BY <3>2 DEF KeyRows
    <3>8. KeyRow(h)' \in keys
      BY <3>1, <3>2, <3>6, <3>7 DEF KeyRow
    <3>9. told' = told
      BY <2>2 DEF AppendReplay
    <3> QED BY <1>1, <2>0, <3>6, <3>8, <3>9 DEF Answered, KeyRow
  <2>3. CASE AppendRejected(h) \/ Lose(h)
    <3>1. told' = told /\ handler' = [handler EXCEPT ![h] = Idle]
      BY <2>3 DEF AppendRejected, Lose, Drop
    <3>2. \A g \in Handlers : handler'[g].phase = "answered" => handler'[g] = handler[g]
      BY <2>0, <3>1 DEF Answered, Idle
    <3> QED BY <1>1, <2>0, <3>1, <3>2 DEF Answered, KeyRow
  <2>4. CASE Receive(h)
    <3>1. told' = told \cup {KeyRow(h)} /\ handler' = [handler EXCEPT ![h] = Idle]
          /\ KeyRow(h) \in keys
      BY <2>0, <2>4 DEF Receive, Drop, Answered, KeyRow
    <3>2. \A g \in Handlers : handler'[g].phase = "answered" => handler'[g] = handler[g]
      BY <2>0, <3>1 DEF Answered, Idle
    <3> QED BY <1>1, <2>0, <3>1, <3>2 DEF Answered, KeyRow
  <2> QED BY <2>1, <2>2, <2>3, <2>4
<1> QED BY <1>1, <1>2, <1>3, <1>4 DEF JournalInv

(* Reading changes nothing but the cursor secret. *)
LEMMA ReaderSteps ==
  ASSUME JournalInv, NEW r \in Readers, Page(r)
  PROVE  JournalInv'
<1> USE DEF tables
<1>1. UNCHANGED <<records, mail, keys, heads, live, handler, backup, created, issued, told, given>>
  BY DEF Page, InboxFirst, InboxNext, RecordsFirst, RecordsNext, SearchFirst, SearchNext,
         StatusFirst, StatusNext, Restart
<1>2. UNCHANGED <<secret, secrets>> \/ CursorCodec
  BY DEF Page, InboxFirst, InboxNext, RecordsFirst, RecordsNext, SearchFirst, SearchNext,
         StatusFirst, StatusNext, Restart
<1>3. secret' \in Nat /\ secrets' \in Nat /\ (secret # 0 => secret' # 0)
  BY <1>2, CursorCodecEffect DEF JournalInv, Counters
<1>4. Counters' /\ Answered'
  BY <1>1, <1>3 DEF JournalInv, Counters, Answered, KeyRow
<1>5. /\ TablesOK(records, mail, keys)' /\ Drawn(records, mail)' /\ BackupOK' /\ Allocated'
  BY <1>1, TablesFrame
<1> QED BY <1>1, <1>3, <1>4, <1>5 DEF JournalInv

(* Credentials come and go. *)
LEMMA CredentialSteps ==
  ASSUME JournalInv, NEW t, NEW p \in Principals,
         (t \in live /\ (Rotate(t) \/ Revoke(t))) \/ RecoverPrincipal(p)
  PROVE  JournalInv'
<1> USE DEF tables
<1>1. UNCHANGED <<records, mail, keys, heads, secret, secrets, handler, backup, created, told, given>>
  BY DEF Rotate, Revoke, RecoverPrincipal
<1>2. t \in live => t[1] \in Principals
  BY DEF JournalInv, Counters, Tokens
<1>3. ASSUME NEW u \in Principals, NEW old, Issue(u, old)
      PROVE  issued' \in [Principals -> 1..MaxTokens] /\ live' \in SUBSET Tokens
  <2>1. issued[u] + 1 \in 1..MaxTokens
    BY <1>3, ConstantsAssumption, SMTT(30), SMTT(45) DEF Issue, JournalInv, Counters
  <2>2. <<u, issued[u] + 1>> \in Tokens
    BY <2>1 DEF Tokens
  <2> QED BY <1>3, <2>1, <2>2 DEF Issue, JournalInv, Counters
<1>4. issued' \in [Principals -> 1..MaxTokens] /\ live' \in SUBSET Tokens
  BY <1>2, <1>3 DEF Rotate, Revoke, RecoverPrincipal, JournalInv, Counters
<1>5. Counters' /\ Answered'
  BY <1>1, <1>4 DEF JournalInv, Counters, Answered, KeyRow
<1>6. /\ TablesOK(records, mail, keys)' /\ Drawn(records, mail)' /\ BackupOK' /\ Allocated'
  BY <1>1, TablesFrame
<1> QED BY <1>1, <1>5, <1>6 DEF JournalInv

(* Acknowledging an item changes neither what it is for nor its number. *)
LEMMA AcknowledgeStep ==
  ASSUME JournalInv, NEW t \in live, NEW i \in mail, Acknowledge(t, i)
  PROVE  JournalInv'
<1> USE DEF tables
<1> DEFINE a == [i EXCEPT !.acked = TRUE]
<1>1. /\ UNCHANGED <<records, keys, heads, secret, secrets, live, handler, backup, created,
                     issued, told, given>>
      /\ mail' = (mail \ {i}) \cup {a}
  BY DEF Acknowledge
<1>2. i \in Items /\ mail \in SUBSET Items
  BY DEF JournalInv, TablesOK
<1>3. a \in Items /\ a.id = i.id /\ a.to = i.to /\ a.seq = i.seq
  BY <1>2 DEF Items
<1> HIDE DEF a
<1>4. mail' \in SUBSET Items
  BY <1>1, <1>2, <1>3
<1>5. \A j \in mail' : \E k \in mail : k.id = j.id /\ k.to = j.to /\ k.seq = j.seq
  BY <1>1, <1>3
<1>6. \A k \in mail : \E j \in mail' : k.id = j.id /\ k.to = j.to /\ k.seq = j.seq
  BY <1>1, <1>3
<1>7. Delivered(records, mail')
  <2>0. Delivered(records, mail)
    BY DEF JournalInv, TablesOK
  <2>1. \A j \in mail' : \E r \in records : r.id = j.id /\ j.to \in r.to
    BY <1>5, <2>0, SMTT(30), SMTT(45) DEF Delivered
  <2>2. \A r \in records : \A p \in r.to : \E j \in mail' : j.id = r.id /\ j.to = p
    <3> SUFFICES ASSUME NEW r \in records, NEW p \in r.to
                 PROVE  \E j \in mail' : j.id = r.id /\ j.to = p
      OBVIOUS
    <3>1. PICK k \in mail : k.id = r.id /\ k.to = p
      BY <2>0 DEF Delivered
    <3> QED BY <1>6, <3>1
  <2>3. \A j, k \in mail' : j.id = k.id /\ j.to = k.to => j = k
    <3> SUFFICES ASSUME NEW j \in mail', NEW k \in mail', j.id = k.id, j.to = k.to
                 PROVE  j = k
      OBVIOUS
    <3>1. \A x, y \in mail : x.id = y.id /\ x.to = y.to => x = y
      BY <2>0 DEF Delivered
    <3>2. CASE j = a /\ k = a
      BY <3>2
    <3>3. CASE j = a /\ k # a
      <4>1. k \in mail /\ k # i
        BY <1>1, <3>3
      <4>2. k = i
        BY <1>3, <3>1, <3>3, <4>1
      <4> QED BY <4>1, <4>2
    <3>4. CASE j # a /\ k = a
      <4>1. j \in mail /\ j # i
        BY <1>1, <3>4
      <4>2. j = i
        BY <1>3, <3>1, <3>4, <4>1
      <4> QED BY <4>1, <4>2
    <3>5. CASE j # a /\ k # a
      <4>1. j \in mail /\ k \in mail
        BY <1>1, <3>5
      <4> QED BY <3>1, <4>1
    <3> QED BY <3>2, <3>3, <3>4, <3>5
  <2> QED BY <2>1, <2>2, <2>3 DEF Delivered
<1>8. Ordered(records, mail')
  <2> SUFFICES ASSUME NEW j \in mail', NEW k \in mail', NEW q \in records, NEW r \in records,
                      j.to = k.to, j.id = q.id, k.id = r.id, q.space = r.space, q.seq < r.seq
               PROVE  j.seq < k.seq
    BY DEF Ordered
  <2>1. PICK x \in mail : x.id = j.id /\ x.to = j.to /\ x.seq = j.seq
    BY <1>5
  <2>2. PICK y \in mail : y.id = k.id /\ y.to = k.to /\ y.seq = k.seq
    BY <1>5
  <2>3. x.seq < y.seq
    BY <2>1, <2>2 DEF JournalInv, TablesOK, Ordered
  <2> QED BY <2>1, <2>2, <2>3
<1>9. TablesOK(records, mail', keys)
  BY <1>4, <1>7, <1>8 DEF JournalInv, TablesOK
<1>10. TablesOK(records, mail, keys)'
  BY <1>1, <1>9
<1>11. Drawn(records, mail)'
  BY <1>1, <1>5 DEF JournalInv, Drawn
<1>12. BackupOK' /\ Allocated' /\ Counters' /\ Answered'
  <2>1. BackupOK'
    BY <1>1 DEF JournalInv, BackupOK, Drawn
  <2> QED BY <1>1, <2>1 DEF JournalInv, Allocated, Counters, Answered, KeyRow
<1> QED BY <1>1, <1>10, <1>11, <1>12 DEF JournalInv

(* A backup holds what the tables hold. *)
LEMMA BackupStep ==
  ASSUME JournalInv, Backup
  PROVE  JournalInv'
<1> USE DEF tables
<1>1. /\ UNCHANGED <<records, mail, keys, heads, secret, secrets, live, handler, created,
                     issued, told, given>>
      /\ backup'.records = records /\ backup'.mail = mail
      /\ backup'.keys = keys /\ backup'.secret = secret
  BY DEF Backup, Tables
<1>2. TablesOK(records, mail, keys)' /\ Drawn(records, mail)' /\ BackupOK'
  <2>1. TablesOK(records, mail, keys) /\ Drawn(records, mail)
    BY DEF JournalInv
  <2>2. TablesOK(records, mail, keys)' /\ TablesOK(backup'.records, backup'.mail, backup'.keys)
    BY <1>1, <2>1
  <2>3. Drawn(records, mail)' /\ Drawn(backup.records, backup.mail)'
    BY <1>1, <2>1 DEF Drawn
  <2> QED BY <1>1, <2>2, <2>3 DEF BackupOK, JournalInv, Counters
<1>3. Allocated' /\ Counters' /\ Answered'
  BY <1>1 DEF JournalInv, Allocated, Counters, Answered, KeyRow
<1> QED BY <1>1, <1>2, <1>3 DEF JournalInv

(* A restore brings the backup back and keeps the heads. *)
LEMMA RestoreStep ==
  ASSUME JournalInv, Restore
  PROVE  JournalInv'
<1>1. /\ records' = backup.records /\ mail' = backup.mail /\ keys' = backup.keys
      /\ secret' = backup.secret /\ heads' = heads /\ live' = {}
      /\ handler' = [h \in Handlers |-> Idle] /\ told' = told \cap backup.keys
      /\ UNCHANGED <<backup, created, secrets, issued, given>>
  BY DEF Restore, RestoredHeads
<1>2. BackupOK /\ Counters /\ Allocated
  BY DEF JournalInv
<1>3. TablesOK(records, mail, keys)' /\ Drawn(records, mail)'
  <2>1. TablesOK(backup.records, backup.mail, backup.keys) /\ Drawn(backup.records, backup.mail)
    BY <1>2 DEF BackupOK
  <2>2. TablesOK(records, mail, keys)'
    BY <1>1, <2>1
  <2>3. Drawn(records, mail)'
    BY <1>1, <2>1 DEF Drawn
  <2> QED BY <2>2, <2>3
<1>4. BackupOK'
  BY <1>1, <1>2 DEF BackupOK, Drawn
<1>5. Allocated' /\ Counters'
  BY <1>1, <1>2 DEF Allocated, Counters, BackupOK
<1>6. Answered'
  BY <1>1 DEF Answered, Idle
<1>7. records' # {} => secret' # 0
  BY <1>1, <1>2 DEF BackupOK
<1> QED BY <1>3, <1>4, <1>5, <1>6, <1>7 DEF JournalInv

-----------------------------------------------------------------------------
LEMMA InitIsFine ==
  ASSUME Init
  PROVE  JournalInv
<1>1. /\ records = {} /\ mail = {} /\ keys = {} /\ secret = 0 /\ secrets = 0
      /\ heads = [p \in Principals |-> 0] /\ issued = [p \in Principals |-> 1]
      /\ live = {<<p, 1>> : p \in Principals} /\ handler = [h \in Handlers |-> Idle]
      /\ created = 0 /\ told = {} /\ given = {}
      /\ backup.records = {} /\ backup.mail = {} /\ backup.keys = {} /\ backup.secret = 0
  BY DEF Init, Tables
<1>2. Counters
  <2>1. 1 \in 1..MaxTokens /\ 0 \in 0..MaxId
    BY ConstantsAssumption, SMTT(30), SMTT(45)
  <2>2. live \in SUBSET Tokens
    BY <1>1, <2>1, SMTT(30), SMTT(45) DEF Tokens
  <2> QED BY <1>1, <2>1, <2>2 DEF Counters
<1>3. TablesOK({}, {}, {}) /\ Drawn({}, {})
  <2>1. {r.seq : r \in {x \in {} : TRUE}} = 1..0
    BY SMTT(30), SMTT(45)
  <2>2. Numbered({})
    BY <2>1 DEF Numbered
  <2> QED BY <2>2 DEF TablesOK, KeysOf, Related, Delivered, Ordered, Drawn
<1>4. Allocated /\ Answered
  BY <1>1 DEF Allocated, Answered, Idle
<1> QED BY <1>1, <1>2, <1>3, <1>4, SMTT(30), SMTT(45) DEF JournalInv, BackupOK

LEMMA NextKeepsInv ==
  ASSUME JournalInv, [Next]_vars
  PROVE  JournalInv'
<1>1. CASE UNCHANGED vars
  <2>1. UNCHANGED <<records, mail, keys, heads, secret, secrets, live, handler, backup, created,
                    issued, told, given>>
    BY <1>1 DEF vars, tables
  <2>2. /\ TablesOK(records, mail, keys)' /\ Drawn(records, mail)' /\ BackupOK' /\ Allocated'
    BY <2>1, TablesFrame
  <2>3. Counters' /\ Answered'
    BY <2>1 DEF JournalInv, Counters, Answered, KeyRow
  <2> QED BY <2>1, <2>2, <2>3 DEF JournalInv
<1>2. ASSUME NEW h \in Handlers, HandleAppend(h) PROVE JournalInv'
  BY <1>2, HandlerSteps, AppendNewStep DEF HandleAppend
<1>3. ASSUME NEW r \in Readers, Page(r) PROVE JournalInv'
  BY <1>3, ReaderSteps
<1>4. ASSUME NEW t \in live, NEW i \in mail, Acknowledge(t, i) PROVE JournalInv'
  BY <1>4, AcknowledgeStep
<1>5. ASSUME Administer PROVE JournalInv'
  <2>1. ASSUME NEW t \in live, Rotate(t) \/ Revoke(t) PROVE JournalInv'
    <3>1. t[1] \in Principals
      BY DEF JournalInv, Counters, Tokens
    <3> QED BY <2>1, <3>1, CredentialSteps
  <2>2. ASSUME NEW p \in Principals, RecoverPrincipal(p) PROVE JournalInv'
    BY <2>2, CredentialSteps
  <2> QED BY <1>5, <2>1, <2>2, BackupStep, RestoreStep DEF Administer
<1> QED BY <1>1, <1>2, <1>3, <1>4, <1>5 DEF Next

(* In every reachable state of the journal, whatever requests are sent,    *)
(* repeated or lost, whoever reads, and whatever is backed up and          *)
(* restored, the inductive invariant holds.                                *)
THEOREM JournalInvariant == Spec => []JournalInv
BY InitIsFine, NextKeepsInv, PTL DEF Spec

(* append_record: a request creates one record, and every caller told of   *)
(* success was told of the record that its key and body name.              *)
THEOREM RequestsAppendOnce == Spec => []AppendedOnce
<1>1. JournalInv => AppendedOnce
  BY DEF JournalInv, TablesOK, Answered, AppendedOnce
<1> QED BY <1>1, JournalInvariant, PTL

(* append_record: each recipient has one item for a record, and items are  *)
(* ordered as the records of a space are.                                  *)
THEOREM InboxesFollow == Spec => []InboxFollowsRecords
<1>1. ASSUME JournalInv PROVE InboxFollowsRecords
  <2>0. Delivered(records, mail) /\ Ordered(records, mail)
    BY <1>1 DEF JournalInv, TablesOK
  <2>1. ASSUME NEW r \in records, NEW p \in Principals
        PROVE  Cardinality({i \in mail : i.id = r.id /\ i.to = p}) = (IF p \in r.to THEN 1 ELSE 0)
    <3>1. CASE p \in r.to
      <4>1. PICK i \in mail : i.id = r.id /\ i.to = p
        BY <2>0, <3>1 DEF Delivered
      <4>2. {j \in mail : j.id = r.id /\ j.to = p} = {i}
        BY <2>0, <4>1, SMTT(30), SMTT(45) DEF Delivered
      <4> QED BY <3>1, <4>2, FS_Singleton
    <3>2. CASE p \notin r.to
      <4>1. \A q \in records : q.id = r.id => q = r
        BY <1>1 DEF JournalInv, TablesOK, Numbered
      <4>2. {j \in mail : j.id = r.id /\ j.to = p} = {}
        BY <2>0, <3>2, <4>1, SMTT(30), SMTT(45) DEF Delivered
      <4> QED BY <3>2, <4>2, FS_EmptySet
    <3> QED BY <3>1, <3>2
  <2>2. \A i \in mail : \E r \in records : r.id = i.id
    BY <2>0 DEF Delivered
  <2> QED BY <2>0, <2>1, <2>2 DEF InboxFollowsRecords, Ordered
<1> QED BY <1>1, JournalInvariant, PTL

(* inbox_sequences: no number is given to two items, restores included. *)
THEOREM InboxNumbersAreFresh == Spec => []NumbersNeverReused
<1>1. JournalInv => NumbersNeverReused
  BY DEF JournalInv, Allocated, Drawn, NumbersNeverReused
<1> QED BY <1>1, JournalInvariant, PTL

(* The records of a space are numbered without gaps, and relations point   *)
(* back.                                                                   *)
THEOREM RelationsAreAcyclic == Spec => []RelationsPointBack
<1>1. ASSUME JournalInv PROVE RelationsPointBack
  <2>0. records \in SUBSET Records /\ Numbered(records) /\ Related(records)
    BY <1>1 DEF JournalInv, TablesOK
  <2>1. ASSUME NEW r \in records, NEW n \in 1..r.seq
        PROVE  \E q \in records : q.space = r.space /\ q.seq = n
    <3>1. r.space \in Spaces /\ r.seq \in Nat
      BY <2>0 DEF Records
    <3>2. PICK m \in Nat : {x.seq : x \in {y \in records : y.space = r.space}} = 1..m
      BY <2>0, <3>1 DEF Numbered
    <3>3. r.seq \in 1..m
      BY <3>2
    <3>4. n \in 1..m
      BY <3>1, <3>2, <3>3, SMTT(30), SMTT(45)
    <3> QED BY <3>2, <3>4
  <2>2. \A q, r \in records : q.id = r.id \/ (q.space = r.space /\ q.seq = r.seq) => q = r
    BY <2>0 DEF Numbered
  <2> QED BY <2>0, <2>1, <2>2 DEF RelationsPointBack, Related
<1> QED BY <1>1, JournalInvariant, PTL

(* There is a cursor secret wherever there are records or items. *)
THEOREM SecretIsThere == Spec => []SecretBeforeRecords
<1>1. JournalInv => SecretBeforeRecords
  BY DEF JournalInv, TablesOK, Delivered, SecretBeforeRecords
<1> QED BY <1>1, JournalInvariant, PTL
=============================================================================
