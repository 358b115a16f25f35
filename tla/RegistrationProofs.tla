------------------------- MODULE RegistrationProofs -------------------------
(***************************************************************************)
(* Proofs about Identity, for any number of names, principals, credentials *)
(* and revisions, and about Registration on top of it, for any number of   *)
(* state files, runs, kills and stops.                                     *)
(***************************************************************************)
EXTENDS Registration, WellFoundedInduction, TLAPS

(* The time a leaf may take on a busy machine; a leaf with arithmetic has *)
(* a second attempt.                                                      *)
USE ZenonT(60)

-----------------------------------------------------------------------------
(* The inductive invariant of Identity *)

(* A name has one owner, and a principal one current name at most. *)
NamesOK(N) == (\A q, r \in N : q.name = r.name => q = r) /\ OneCurrent(N)

(* Names only ever become aliases. *)
Later(M, N) ==
  \A r \in M : \E q \in N :
    q.name = r.name /\ q.owner = r.owner /\ (r.kind = "alias" => q.kind = "alias")

Named(n, p) == \E r \in names : r.name = n /\ r.owner = p

NamesInv ==
  /\ NamesOK(names) /\ NamesOK(backup.names) /\ Later(backup.names, names)
  /\ \A r \in names : r.owner <= made
  /\ \A p \in 1..made : \E n \in Names : [name |-> n, owner |-> p, kind |-> "current"] \in names
  /\ \A m \in members : Named(m.selector, m.owner)
  /\ granting.phase = "resolved" => Named(granting.selector, granting.owner)

CredsInv ==
  /\ \A c \in creds : c.id <= issued /\ c.owner <= made
  /\ \A c, d \in creds : c.id = d.id => c = d
  /\ \A b \in backup.creds : \E c \in creds : c.id = b.id /\ c.owner = b.owner /\ c.token = b.token
  /\ \A h \in Handlers : handler[h].phase = "authenticated" =>
       \E c \in creds : c.id = handler[h].cred /\ c.owner = handler[h].owner

ReceiptsInv ==
  /\ \A r \in receipts : /\ r.owner <= made /\ Named(r.handle, r.owner)
                         /\ \E c \in creds : c.token = r.token
  /\ \A q, r \in receipts : q.token = r.token \/ q.owner = r.owner => q = r
  /\ backup.receipts \subseteq receipts
  /\ told \cap Receipts \subseteq receipts

KeysInv ==
  /\ \A p \in 1..made : \A n \in 2..revision[p] :
       \E r \in keys : r.owner = p /\ r.response.revision = n
  /\ \A r \in keys : /\ r.owner <= made
                     /\ r.response.revision = r.payload.expected + 1
                     /\ r.response.handle = r.payload.handle
                     /\ r.response.revision <= revision[r.owner]
  /\ \A q, r \in keys : q.owner = r.owner
       /\ (q.key = r.key \/ q.response.revision = r.response.revision) => q = r
  /\ backup.keys \subseteq keys
  /\ told \cap KeyRows \subseteq keys

IdentityInv == TypeOK /\ NamesInv /\ CredsInv /\ ReceiptsInv /\ KeysInv

-----------------------------------------------------------------------------
(* Names in a restore *)

(* Numbers among what TypeOK says. *)
LEMMA Typed ==
  ASSUME TypeOK
  PROVE  /\ made \in Nat /\ issued \in Nat /\ \A p \in 1..made : p \in Ids /\ p <= made
         /\ \A p \in Ids : p \in Nat /\ revision[p] \in Nat
         /\ \A r \in names : r.owner \in Ids
         /\ \A r \in receipts : r.owner \in Ids
         /\ \A r \in keys : r.owner \in Ids /\ r.response.revision \in Nat
         /\ \A c \in creds : c.owner \in Ids
<1>1. /\ \A n \in Nat : \A x \in 1..n : x \in Nat /\ x <= n
      /\ \A n \in Nat : \A x \in 0..n : x \in Nat /\ \A y \in 1..x : y \in 1..n
  BY SMTT(30), SMTT(45)
<1>2. MaxPrincipals \in Nat /\ MaxCreds \in Nat /\ MaxRevision \in Nat
  BY ConstantsAssumption
<1>3. /\ made \in 0..MaxPrincipals /\ issued \in 0..MaxCreds
      /\ revision \in [Ids -> 1..MaxRevision]
  BY DEF TypeOK
<1>4. made \in Nat /\ issued \in Nat /\ \A p \in 1..made : p \in Ids /\ p <= made
  BY <1>1, <1>2, <1>3 DEF Ids
<1>5. \A p \in Ids : p \in Nat /\ revision[p] \in Nat
  BY <1>1, <1>2, <1>3 DEF Ids
<1>6. \A r \in keys : r.owner \in Ids /\ r.response.revision \in 1..MaxRevision
  BY DEF TypeOK, KeyRows, Responses
<1>7. /\ \A r \in names : r.owner \in Ids
      /\ \A r \in receipts : r.owner \in Ids
      /\ \A c \in creds : c.owner \in Ids
  BY DEF TypeOK, NameRows, Receipts, CredRows
<1> QED
  BY <1>1, <1>2, <1>4, <1>5, <1>6, <1>7

LEMMA LeastNumber ==
  ASSUME NEW T \in SUBSET Nat, T # {}
  PROVE  \E x \in T : \A y \in T : x <= y
<1> DEFINE R == OpToRel(<, Nat)
<1>1. IsWellFoundedOn(R, Nat)
  BY NatLessThanWellFounded
<1>2. \A x, y \in Nat : <<y, x>> \in R <=> y < x
  BY DEF OpToRel
<1> HIDE DEF R
<1>3. PICK x \in T : \A y \in T : ~ (<<y, x>> \in R)
  BY <1>1, WFMin
<1>4. ASSUME NEW y \in T
      PROVE  x <= y
  <2>1. x \in Nat /\ y \in Nat /\ ~ (<<y, x>> \in R)
    BY <1>3
  <2>2. ~ (y < x)
    BY <1>2, <2>1
  <2> QED
    BY <2>1, <2>2, SMTT(30), SMTT(45)
<1> QED
  BY <1>4

(* A row of the backup once the audited rows up to n are restored, *)
Kept(A, n, x) ==
  IF x.kind = "current" /\ \E a \in A : a.kind = "current" /\ a.owner = x.owner /\ a.name <= n
    THEN [x EXCEPT !.kind = "alias"] ELSE x

(* ... and all rows by then. *)
Partial(F, A, n) == {a \in A : a.name <= n} \cup {Kept(A, n, x) : x \in {y \in F : y.name > n}}

LEMMA KeptRow ==
  ASSUME NEW A, NEW n, NEW x \in NameRows
  PROVE  /\ Kept(A, n, x) \in NameRows /\ Kept(A, n, x).name = x.name /\ Kept(A, n, x).owner = x.owner
         /\ Kept(A, n, x).kind = "current" <=>
              x.kind = "current" /\ ~\E a \in A : a.kind = "current" /\ a.owner = x.owner /\ a.name <= n
         /\ x.kind = "alias" => Kept(A, n, x) = x
BY DEF Kept, NameRows

LEMMA RowsEqual ==
  ASSUME NEW x \in NameRows, NEW y \in NameRows, x.name = y.name, x.owner = y.owner, x.kind = y.kind
  PROVE  x = y
BY SMTT(30), SMTT(45) DEF NameRows

LEMMA PartialRow ==
  ASSUME NEW F \in SUBSET NameRows, NEW A \in SUBSET NameRows, NEW n
  PROVE  /\ Partial(F, A, n) \in SUBSET NameRows
         /\ \A y : y \in Partial(F, A, n) <=>
              \/ y \in A /\ y.name <= n
              \/ \E x \in F : x.name > n /\ y = Kept(A, n, x)
BY KeptRow, SMTT(30), SMTT(45) DEF Partial

LEMMA PartialStart ==
  ASSUME NEW F \in SUBSET NameRows, NEW A \in SUBSET NameRows
  PROVE  Partial(F, A, 0) = F
<1>1. \A x \in NameRows : x.name \in Nat /\ x.name > 0
  BY ConstantsAssumption, SMTT(30), SMTT(45) DEF NameRows, Names
<1>2. \A x \in F : Kept(A, 0, x) = x
  BY <1>1, SMTT(30), SMTT(45) DEF Kept
<1>3. ASSUME NEW y \in Partial(F, A, 0)
      PROVE  y \in F
  <2>1. ~ (y \in A /\ y.name <= 0)
    BY <1>1, SMTT(30), SMTT(45)
  <2> QED
    BY <2>1, <1>2, PartialRow, SMTT(30), SMTT(45)
<1>4. ASSUME NEW y \in F
      PROVE  y \in Partial(F, A, 0)
  <2>1. y.name > 0 /\ y = Kept(A, 0, y)
    BY <1>1, <1>2
  <2> QED
    BY <2>1, PartialRow
<1> QED
  BY <1>3, <1>4

LEMMA PartialEnd ==
  ASSUME NEW F \in SUBSET NameRows, NEW A \in SUBSET NameRows
  PROVE  Partial(F, A, MaxName) = A
<1>1. \A x \in NameRows : x.name \in Nat /\ x.name <= MaxName
  BY ConstantsAssumption, SMTT(30), SMTT(45) DEF NameRows, Names
<1>2. \A x \in F : ~ (x.name > MaxName)
  BY <1>1, ConstantsAssumption, SMTT(30), SMTT(45)
<1> QED
  BY <1>1, <1>2 DEF Partial

(* A name that the audit does not know is not in the backup. *)
LEMMA PartialSkip ==
  ASSUME NEW F \in SUBSET NameRows, NEW A \in SUBSET NameRows, NEW n \in Nat \ {0}, Later(F, A),
         ~\E r \in A : r.name = n
  PROVE  Partial(F, A, n) = Partial(F, A, n - 1)
<1>1. \A x \in NameRows : x.name \in Nat
  BY ConstantsAssumption, SMTT(30), SMTT(45) DEF NameRows, Names
<1>2. \A x \in F : x.name # n
  BY DEF Later
<1>3. \A x \in A \cup F : (x.name <= n <=> x.name <= n - 1) /\ (x.name > n <=> x.name > n - 1)
  BY <1>1, <1>2, SMTT(30), SMTT(45)
<1>4. \A x \in F : Kept(A, n, x) = Kept(A, n - 1, x)
  BY <1>3 DEF Kept
<1> QED
  BY <1>3, <1>4 DEF Partial

(* No two rows of it are current for one principal. *)
LEMMA PartialOneCurrent ==
  ASSUME NEW F \in SUBSET NameRows, NEW A \in SUBSET NameRows, NEW n \in Nat,
         NamesOK(F), NamesOK(A)
  PROVE  OneCurrent(Partial(F, A, n))
<1> SUFFICES ASSUME NEW x \in Partial(F, A, n), NEW y \in Partial(F, A, n),
                    x.kind = "current", y.kind = "current", x.owner = y.owner
             PROVE  x = y
  BY DEF OneCurrent
<1>1. ASSUME NEW u \in F, u.name > n, NEW v \in A, v.name <= n, v.kind = "current",
             Kept(A, n, u).kind = "current", Kept(A, n, u).owner = v.owner
      PROVE  FALSE
  BY <1>1, KeptRow, SMTT(30), SMTT(45)
<1>2. ASSUME NEW u \in F, NEW v \in F, x = Kept(A, n, u), y = Kept(A, n, v)
      PROVE  x = y
  BY <1>2, KeptRow, SMTT(30), SMTT(45) DEF NamesOK, OneCurrent
<1>3. ASSUME x \in A, y \in A
      PROVE  x = y
  BY <1>3 DEF NamesOK, OneCurrent
<1> QED
  BY <1>1, <1>2, <1>3, PartialRow, SMTT(30), SMTT(45)

(* One row of the audited snapshot. *)
LEMMA PartialNext ==
  ASSUME NEW F \in SUBSET NameRows, NEW A \in SUBSET NameRows, NEW n \in Nat \ {0},
         NamesOK(F), NamesOK(A), Later(F, A), NEW row \in A, row.name = n
  PROVE  RestoreName([names |-> Partial(F, A, n - 1), ok |-> TRUE], row)
           = [names |-> Partial(F, A, n), ok |-> TRUE]
<1> DEFINE D == Partial(F, A, n - 1)
           retires(x) == row.kind = "current" /\ x.owner = row.owner /\ x.kind = "current"
                           /\ x.name # row.name
           after(x) == IF retires(x) THEN [x EXCEPT !.kind = "alias"] ELSE x
           retired == {after(x) : x \in D}
           same == {x \in retired : x.name = row.name}
           result == (retired \ same) \cup {row}
<1>1. \A x \in NameRows : x.name \in Nat
  BY ConstantsAssumption, SMTT(30), SMTT(45) DEF NameRows, Names
<1>2. D \in SUBSET NameRows
  BY PartialRow
<1>3. \A a \in A : a.name = n => a = row
  BY DEF NamesOK
<1>4. \A a \in A : a.name <= n <=> a = row \/ a.name <= n - 1
  BY <1>1, <1>3, SMTT(30), SMTT(45)
<1>5. \A x \in F : x.name > n - 1 <=> x.name = n \/ x.name > n
  BY <1>1, SMTT(30), SMTT(45)
<1>6. ASSUME NEW a \in A, a.name <= n - 1
      PROVE  after(a) = a /\ a.name # n
  <2>1. a.name # n
    BY <1>1, <1>6, SMTT(30), SMTT(45)
  <2>2. ~ retires(a)
    BY <2>1 DEF NamesOK, OneCurrent
  <2> QED
    BY <2>1, <2>2
<1>7. ASSUME NEW x \in F, x.name = n
      PROVE  after(Kept(A, n - 1, x)) = Kept(A, n - 1, x) /\ Kept(A, n - 1, x).name = n
  BY <1>7, KeptRow
<1>8. ASSUME NEW x \in F, x.name > n
      PROVE  after(Kept(A, n - 1, x)) = Kept(A, n, x) /\ Kept(A, n, x).name # n
  <2> DEFINE k == Kept(A, n - 1, x)
             m == Kept(A, n, x)
  <2>1. x \in NameRows /\ x.name # n
    BY <1>1, <1>8, SMTT(30), SMTT(45)
  <2>2. /\ k \in NameRows /\ k.name = x.name /\ k.owner = x.owner
        /\ k.kind = "current" <=> x.kind = "current"
             /\ ~\E a \in A : a.kind = "current" /\ a.owner = x.owner /\ a.name <= n - 1
    BY <2>1, KeptRow, SMTT(30), SMTT(45)
  <2>3. /\ m \in NameRows /\ m.name = x.name /\ m.owner = x.owner
        /\ m.kind = "current" <=> x.kind = "current"
             /\ ~\E a \in A : a.kind = "current" /\ a.owner = x.owner /\ a.name <= n
    BY <2>1, KeptRow, SMTT(30), SMTT(45)
  <2> HIDE DEF k, m
  <2>4. after(k) \in NameRows /\ after(k).name = x.name /\ after(k).owner = x.owner
    BY <2>2 DEF NameRows
  <2>5. after(k).kind = "current" <=> k.kind = "current" /\ ~(row.kind = "current" /\ row.owner = x.owner)
    BY <2>1, <2>2 DEF NameRows
  <2>6. after(k).kind = "current" <=> m.kind = "current"
    BY <2>2, <2>3, <2>5, <1>4
  <2>7. after(k).kind = m.kind
    BY <2>3, <2>4, <2>6 DEF NameRows
  <2>8. after(k) = m
    BY <2>3, <2>4, <2>7, RowsEqual
  <2> QED
    BY <2>1, <2>3, <2>8 DEF k, m
<1> HIDE DEF after
<1>9. \A y : y \in retired <=>
        \/ y \in A /\ y.name <= n - 1
        \/ \E x \in F : x.name = n /\ y = Kept(A, n - 1, x)
        \/ \E x \in F : x.name > n /\ y = Kept(A, n, x)
  <2>1. ASSUME NEW z \in D
        PROVE  \/ after(z) \in A /\ after(z).name <= n - 1
               \/ \E x \in F : x.name = n /\ after(z) = Kept(A, n - 1, x)
               \/ \E x \in F : x.name > n /\ after(z) = Kept(A, n, x)
    BY <1>2, <1>5, <1>6, <1>7, <1>8, PartialRow, SMTT(30), SMTT(45)
  <2>2. ASSUME NEW y \in A, y.name <= n - 1
        PROVE  y \in retired
    BY <2>2, <1>2, <1>6, PartialRow
  <2>3. ASSUME NEW x \in F, x.name = n
        PROVE  Kept(A, n - 1, x) \in retired
    BY <2>3, <1>2, <1>5, <1>7, PartialRow
  <2>4. ASSUME NEW x \in F, x.name > n
        PROVE  Kept(A, n, x) \in retired
    BY <2>4, <1>2, <1>5, <1>8, PartialRow
  <2> QED
    BY <2>1, <2>2, <2>3, <2>4, SMTT(30), SMTT(45)
<1> HIDE DEF retired
<1>10. \A y : y \in same <=> \E x \in F : x.name = n /\ y = Kept(A, n - 1, x)
  BY <1>6, <1>7, <1>8, <1>9, SMTT(30), SMTT(45)
<1>11. \A x \in same : x.owner = row.owner /\ (x = row \/ x.kind = "current")
  <2> SUFFICES ASSUME NEW x \in F, x.name = n
               PROVE  LET k == Kept(A, n - 1, x) IN k.owner = row.owner /\ (k = row \/ k.kind = "current")
    BY <1>10, SMTT(30), SMTT(45)
  <2>1. x.owner = row.owner /\ (x.kind = "alias" => row.kind = "alias")
    BY <1>3 DEF Later
  <2>2. row.kind = "current" => ~\E a \in A : a.kind = "current" /\ a.owner = x.owner /\ a.name <= n - 1
    BY <2>1, <1>6 DEF NamesOK, OneCurrent
  <2> DEFINE k == Kept(A, n - 1, x)
  <2>3. /\ k \in NameRows /\ k.name = n /\ k.owner = x.owner
        /\ k.kind = "current" <=> x.kind = "current"
             /\ ~\E a \in A : a.kind = "current" /\ a.owner = x.owner /\ a.name <= n - 1
    BY KeptRow, SMTT(30), SMTT(45)
  <2> HIDE DEF k
  <2>4. k.kind # "current" => row.kind = "alias"
    BY <2>1, <2>2, <2>3 DEF NameRows
  <2>5. k.kind # "current" => k.kind = row.kind
    BY <2>3, <2>4 DEF NameRows
  <2>6. k.kind # "current" => k = row
    BY <2>1, <2>3, <2>5, RowsEqual
  <2> QED
    BY <2>1, <2>3, <2>6 DEF k
<1>12. result = Partial(F, A, n)
  <2>1. ASSUME NEW y \in result
        PROVE  y \in Partial(F, A, n)
    BY <1>4, <1>9, <1>10, PartialRow, SMTT(30), SMTT(45)
  <2>2. ASSUME NEW y \in Partial(F, A, n)
        PROVE  y \in result
    BY <1>4, <1>6, <1>8, <1>9, PartialRow, SMTT(30), SMTT(45)
  <2> QED
    BY <2>1, <2>2
<1>13. OneCurrent(result)
  BY <1>12, PartialOneCurrent
<1>14. RestoreName([names |-> D, ok |-> TRUE], row)
         = [names |-> result,
            ok |-> /\ TRUE
                   /\ \A x \in same : x.owner = row.owner /\ (x = row \/ x.kind = "current")
                   /\ OneCurrent(result)]
  BY DEF RestoreName, retired, after
<1> QED
  BY <1>11, <1>12, <1>13, <1>14

(* All of them: restore_principal_names makes the names of any earlier     *)
(* backup those of the audited snapshot, and fails on none.                *)
LEMMA NamesAreRestored ==
  ASSUME NEW F \in SUBSET NameRows, NEW A \in SUBSET NameRows, NamesOK(F), NamesOK(A), Later(F, A)
  PROVE  RestoreNames(F, A) = [names |-> A, ok |-> TRUE]
<1> DEFINE Made(g) ==
      [n \in 0..MaxName |->
         IF n = 0 THEN [names |-> F, ok |-> TRUE]
         ELSE IF \E r \in A : r.name = n
                THEN RestoreName(g[n - 1], CHOOSE r \in A : r.name = n)
                ELSE g[n - 1]]
           upTo == CHOOSE g : g = Made(g)
           f == [n \in 0..MaxName |-> [names |-> Partial(F, A, n), ok |-> TRUE]]
<1>1. RestoreNames(F, A) = upTo[MaxName]
  BY DEF RestoreNames
<1>2. ASSUME NEW n \in 0..MaxName, n # 0
      PROVE  f[n] = IF \E r \in A : r.name = n
                      THEN RestoreName(f[n - 1], CHOOSE r \in A : r.name = n)
                      ELSE f[n - 1]
  <2>1. n \in Nat \ {0} /\ n - 1 \in 0..MaxName
    BY <1>2, ConstantsAssumption, SMTT(30), SMTT(45)
  <2>2. f[n] = [names |-> Partial(F, A, n), ok |-> TRUE] /\ f[n - 1] = [names |-> Partial(F, A, n - 1), ok |-> TRUE]
    BY <2>1
  <2> HIDE DEF f
  <2>3. CASE \E r \in A : r.name = n
    <3> DEFINE row == CHOOSE r \in A : r.name = n
    <3>1. row \in A /\ row.name = n
      BY <2>3
    <3> HIDE DEF row
    <3>2. RestoreName(f[n - 1], row) = f[n]
      BY <2>1, <2>2, <3>1, PartialNext, SMTT(30), SMTT(45)
    <3> QED
      BY <2>3, <3>2 DEF row
  <2>4. CASE ~\E r \in A : r.name = n
    BY <2>1, <2>2, <2>4, PartialSkip
  <2> QED
    BY <2>3, <2>4
<1>3. f = Made(f)
  <2>1. f[0] = [names |-> F, ok |-> TRUE]
    <3>1. f[0] = [names |-> Partial(F, A, 0), ok |-> TRUE]
      BY ConstantsAssumption, SMTT(30), SMTT(45)
    <3> QED
      BY <3>1, PartialStart
  <2>2. \A n \in 0..MaxName : f[n] = Made(f)[n]
    <3> HIDE DEF f
    <3> QED
      BY <2>1, <1>2
  <2> QED
    BY <2>2
<1>4. upTo = Made(upTo)
  BY <1>3
<1>5. \A n \in 0..MaxName : upTo[n] = f[n]
  <2> DEFINE T == {n \in 0..MaxName : upTo[n] # f[n]}
  <2> SUFFICES ASSUME T # {} PROVE FALSE
    OBVIOUS
  <2>1. PICK x \in T : \A y \in T : x <= y
    <3>1. T \in SUBSET Nat
      BY ConstantsAssumption, SMTT(30), SMTT(45)
    <3> HIDE DEF T
    <3> QED
      BY <3>1, LeastNumber
  <2> HIDE DEF upTo, f
  <2>2. upTo[x] = Made(upTo)[x] /\ f[x] = Made(f)[x]
    BY <1>3, <1>4
  <2>3. x # 0
    BY <2>1, <2>2, ConstantsAssumption
  <2>4. x - 1 \in 0..MaxName /\ x - 1 \notin T
    BY <2>1, <2>3, ConstantsAssumption, SMTT(30), SMTT(45)
  <2>5. upTo[x - 1] = f[x - 1]
    BY <2>4
  <2> QED
    BY <2>1, <2>2, <2>3, <2>5
<1>6. MaxName \in 0..MaxName
  BY ConstantsAssumption, SMTT(30), SMTT(45)
<1>7. f[MaxName] = [names |-> A, ok |-> TRUE]
  BY <1>6, PartialEnd
<1> HIDE DEF upTo, f
<1> QED
  BY <1>1, <1>5, <1>6, <1>7

-----------------------------------------------------------------------------
(* Identity: types *)

LEMMA NewCredType ==
  ASSUME TypeOK, issued < MaxCreds, NEW p \in Ids, NEW t \in Tokens \cup {Drawn}
  PROVE  NewCred(p, t) \in CredRows /\ issued + 1 \in 0..MaxCreds
BY ConstantsAssumption, SMTT(30), SMTT(45) DEF TypeOK, NewCred, CredRows, CredIds

LEMMA RevokedType ==
  ASSUME NEW C \in SUBSET CredRows
  PROVE  Revoked(C) \in SUBSET CredRows
BY DEF Revoked, CredRows

LEMMA NewPrincipalType ==
  ASSUME TypeOK, NEW n \in Names, NewPrincipal(n)
  PROVE  /\ made' \in 0..MaxPrincipals /\ made + 1 \in Ids
         /\ revision' \in [Ids -> 1..MaxRevision]
         /\ names' \in SUBSET NameRows
<1>1. made + 1 \in Ids /\ made + 1 \in 0..MaxPrincipals
  BY ConstantsAssumption, SMTT(30), SMTT(45) DEF TypeOK, NewPrincipal, Ids
<1>2. [name |-> n, owner |-> made + 1, kind |-> "current"] \in NameRows
  BY <1>1 DEF NameRows
<1> QED
  BY <1>1, <1>2, ConstantsAssumption, SMTT(30), SMTT(45) DEF TypeOK, NewPrincipal

LEMMA RegisterType ==
  ASSUME TypeOK, NEW t \in Tokens, NEW n \in Names, RegisterNew(t, n) \/ RegisterReplay(t, n)
  PROVE  TypeOK'
<1>1. CASE RegisterNew(t, n)
  <2>1. [token |-> t, handle |-> n, owner |-> made + 1] \in Receipts
    BY <1>1, NewPrincipalType DEF RegisterNew, Receipts
  <2>2. NewCred(made + 1, t) \in CredRows /\ issued' \in 0..MaxCreds
    BY <1>1, NewPrincipalType, NewCredType DEF RegisterNew
  <2> QED
    BY <1>1, <2>1, <2>2, NewPrincipalType DEF RegisterNew, TypeOK
<1>2. CASE RegisterReplay(t, n)
  <2>1. PICK r \in ReceiptOf(t, n) : told' = told \cup {[token |-> t, handle |-> n, owner |-> r.owner]}
    BY <1>2 DEF RegisterReplay
  <2>2. [token |-> t, handle |-> n, owner |-> r.owner] \in Receipts
    BY <2>1 DEF ReceiptOf, TypeOK, Receipts
  <2> QED
    BY <1>2, <2>1, <2>2 DEF RegisterReplay, TypeOK, tables
<1> QED
  BY <1>1, <1>2

LEMMA CredentialType ==
  ASSUME TypeOK, \/ \E c \in creds : Rotate(c) \/ Revoke(c)
                 \/ \E p \in Ids : RecoverPrincipal(p)
  PROVE  TypeOK'
<1>1. ASSUME NEW C \in SUBSET creds, NEW p \in Ids, issued < MaxCreds, issued' = issued + 1, Replace(C, p),
             UNCHANGED <<made, revision, names, receipts, keys, members, handler, granting, backup, told>>
      PROVE  TypeOK'
  <2>1. NewCred(p, Drawn) \in CredRows /\ issued' \in 0..MaxCreds
    BY <1>1, NewCredType
  <2>2. Revoked(C) \in SUBSET CredRows
    BY <1>1, RevokedType DEF TypeOK
  <2>3. creds' \in SUBSET CredRows
    BY <1>1, <2>1, <2>2 DEF Replace, TypeOK
  <2> QED
    BY <1>1, <2>1, <2>3 DEF TypeOK
<1>2. ASSUME NEW c \in creds, Rotate(c)
      PROVE  TypeOK'
  <2>1. c.owner \in Ids /\ {c} \in SUBSET creds
    BY DEF TypeOK, CredRows
  <2> QED
    BY <1>1, <1>2, <2>1 DEF Rotate
<1>3. ASSUME NEW p \in Ids, RecoverPrincipal(p)
      PROVE  TypeOK'
  <2>1. {c \in creds : c.owner = p /\ c.live} \in SUBSET creds
    OBVIOUS
  <2> QED
    BY <1>1, <1>3, <2>1 DEF RecoverPrincipal
<1>4. ASSUME NEW c \in creds, Revoke(c)
      PROVE  TypeOK'
  <2>1. Revoked({c}) \in SUBSET CredRows
    BY RevokedType DEF TypeOK
  <2> QED
    BY <1>4, <2>1 DEF Revoke, TypeOK
<1> QED
  BY <1>2, <1>3, <1>4

(* A handler that has authenticated. *)
Authed == [phase : {"authenticated"}, cred : CredIds, owner : Ids, key : Keys, payload : Updates]

LEMMA AuthedType ==
  ASSUME TypeOK, NEW h \in Handlers, handler[h].phase = "authenticated"
  PROVE  /\ handler[h] \in Authed /\ handler[h].owner \in Ids /\ handler[h].key \in Keys
         /\ handler[h].payload \in Updates /\ handler[h].payload.handle \in Names
         /\ handler[h].payload.expected \in 1..MaxRevision
<1>1. handler[h] \in Authed
  BY SMTT(30), SMTT(45) DEF TypeOK, Authed, Idle
<1> QED
  BY <1>1 DEF Authed, Updates

LEMMA IdleType ==
  ASSUME TypeOK, NEW h \in Handlers, handler' = [handler EXCEPT ![h] = Idle]
  PROVE  handler' \in [Handlers -> {Idle} \cup Authed]
BY DEF TypeOK, Authed

(* The row an update adds. *)
RowOf(h) ==
  [owner |-> handler[h].owner, key |-> handler[h].key, payload |-> handler[h].payload,
   response |-> [handle |-> handler[h].payload.handle, revision |-> revision[handler[h].owner] + 1]]

LEMMA UpdateEffect ==
  ASSUME TypeOK, NEW h \in Handlers, UpdateProfile(h)
  PROVE  /\ RowOf(h) \in KeyRows /\ keys' = keys \cup {RowOf(h)}
         /\ RowOf(h).owner = handler[h].owner /\ RowOf(h).key = handler[h].key
         /\ RowOf(h).payload = handler[h].payload
         /\ RowOf(h).response.revision = revision[handler[h].owner] + 1
         /\ RowOf(h).response.handle = handler[h].payload.handle
         /\ told' \in {told, told \cup {RowOf(h)}}
         /\ handler' = [handler EXCEPT ![h] = Idle]
         /\ revision' = [revision EXCEPT ![handler[h].owner] = @ + 1]
         /\ handler[h].phase = "authenticated"
         /\ handler[h].payload.expected = revision[handler[h].owner]
         /\ \A r \in keys : ~ (r.owner = handler[h].owner /\ r.key = handler[h].key)
<1>1. handler[h].phase = "authenticated" /\ revision[handler[h].owner] < MaxRevision
  BY DEF UpdateProfile
<1>2. revision[handler[h].owner] + 1 \in 1..MaxRevision
  BY <1>1, AuthedType, ConstantsAssumption, SMTT(30), SMTT(45) DEF TypeOK
<1>3. [handle |-> handler[h].payload.handle, revision |-> revision[handler[h].owner] + 1] \in Responses
  BY <1>1, <1>2, AuthedType DEF Responses
<1>4. RowOf(h) \in KeyRows
  BY <1>1, <1>3, AuthedType DEF RowOf, KeyRows
<1>5. keys' = keys \cup {RowOf(h)} /\ Answered(h, RowOf(h))
  BY DEF UpdateProfile, RowOf
<1>6. \A r \in keys : ~ (r.owner = handler[h].owner /\ r.key = handler[h].key)
  BY DEF UpdateProfile, KeyRowsOf
<1> QED
  BY <1>1, <1>4, <1>5, <1>6 DEF Answered, RowOf, UpdateProfile, UpToDate

CurrentRow(p) == [name |-> Current(p), owner |-> p, kind |-> "current"]

LEMMA CurrentName ==
  ASSUME NEW p \in 1..made, NamesInv
  PROVE  Current(p) \in Names /\ CurrentRow(p) \in names
BY DEF NamesInv, Current, CurrentRow

(* Who updates a profile has one. *)
LEMMA UpdaterIsMade ==
  ASSUME TypeOK, CredsInv, NEW h \in Handlers, handler[h].phase = "authenticated"
  PROVE  handler[h].owner \in 1..made
<1>1. PICK c \in creds : c.id = handler[h].cred /\ c.owner = handler[h].owner
  BY DEF CredsInv
<1>2. c.owner <= made /\ handler[h].owner \in Ids
  BY AuthedType DEF CredsInv
<1> QED
  BY <1>1, <1>2, ConstantsAssumption, SMTT(30), SMTT(45) DEF TypeOK, Ids

(* A rename: the current name becomes an alias, the new one is free. *)
LEMMA RenameEffect ==
  ASSUME TypeOK, NamesInv, CredsInv, NEW h \in Handlers, UpdateProfile(h)
  PROVE  \/ names' = names
         \/ \E p \in 1..made, n \in Names :
              /\ \A r \in names : r.name # n
              /\ Current(p) \in Names /\ CurrentRow(p) \in names
              /\ names' = (names \ {CurrentRow(p)})
                            \cup {[name |-> Current(p), owner |-> p, kind |-> "alias"],
                                  [name |-> n, owner |-> p, kind |-> "current"]}
<1> DEFINE p == handler[h].owner
           n == handler[h].payload.handle
<1>1. /\ handler[h].phase = "authenticated" /\ names' = Renamed(p, n)
      /\ n = Current(p) \/ Owner(n) = {}
  BY DEF UpdateProfile
<1>2. p \in 1..made /\ n \in Names
  BY <1>1, UpdaterIsMade, AuthedType
<1>3. Owner(n) = {} => \A r \in names : r.name # n
  BY DEF Owner
<1>4. Current(p) \in Names /\ CurrentRow(p) \in names
  BY <1>2, CurrentName
<1> HIDE DEF p, n
<1>5. n # Current(p) =>
        names' = (names \ {CurrentRow(p)})
                   \cup {[name |-> Current(p), owner |-> p, kind |-> "alias"],
                         [name |-> n, owner |-> p, kind |-> "current"]}
  BY <1>1 DEF Renamed, CurrentRow
<1>6. n = Current(p) => names' = names
  BY <1>1 DEF Renamed
<1> QED
  BY <1>1, <1>2, <1>3, <1>4, <1>5, <1>6

LEMMA RestoreEffect ==
  ASSUME TypeOK, NamesInv, KeysInv, Restore
  PROVE  names' = names /\ keys' = keys
<1>1. RestoreNames(backup.names, names) = [names |-> names, ok |-> TRUE]
  BY NamesAreRestored DEF TypeOK, NamesInv
<1>2. names' = names
  BY <1>1, SMTT(30), SMTT(45) DEF Restore
<1>3. keys' = keys
  BY DEF Restore, KeysInv
<1> QED
  BY <1>2, <1>3

LEMMA ProfileType ==
  ASSUME TypeOK, NamesInv, CredsInv, NEW h \in Handlers, HandleProfile(h)
  PROVE  TypeOK'
<1>1. CASE Authenticate(h)
  <2>1. PICK c \in creds, k \in Keys, u \in Updates :
          handler' = [handler EXCEPT ![h] =
            [phase |-> "authenticated", cred |-> c.id, owner |-> c.owner, key |-> k, payload |-> u]]
    BY <1>1 DEF Authenticate
  <2>2. [phase |-> "authenticated", cred |-> c.id, owner |-> c.owner, key |-> k, payload |-> u] \in Authed
    BY DEF Authed, TypeOK, CredRows
  <2>3. handler' \in [Handlers -> {Idle} \cup Authed]
    BY <2>1, <2>2 DEF TypeOK, Authed
  <2> QED
    BY <1>1, <2>3 DEF Authenticate, tables, TypeOK, Authed
<1>2. CASE UpdateProfile(h)
  <2>1. handler' \in [Handlers -> {Idle} \cup Authed] /\ keys' \in SUBSET KeyRows
        /\ told' \in SUBSET (Receipts \cup KeyRows)
    BY <1>2, UpdateEffect, IdleType, SMTT(30), SMTT(45) DEF TypeOK
  <2>2. revision' \in [Ids -> 1..MaxRevision]
    <3>1. handler[h].phase = "authenticated" /\ revision[handler[h].owner] < MaxRevision
      BY <1>2 DEF UpdateProfile
    <3>2. handler[h].owner \in Ids
      BY <3>1, AuthedType
    <3>3. revision[handler[h].owner] + 1 \in 1..MaxRevision
      BY <3>1, <3>2, ConstantsAssumption, SMTT(30), SMTT(45) DEF TypeOK
    <3> QED
      BY <1>2, <3>2, <3>3 DEF UpdateProfile, TypeOK
  <2>3. names' \in SUBSET NameRows
    <3>1. \A p \in 1..made : p \in Ids
      BY Typed
    <3>2. ASSUME NEW p \in 1..made, NEW n \in Names
          PROVE  /\ [name |-> n, owner |-> p, kind |-> "alias"] \in NameRows
                 /\ [name |-> n, owner |-> p, kind |-> "current"] \in NameRows
      BY <3>1 DEF NameRows
    <3>3. names \in SUBSET NameRows
      BY DEF TypeOK
    <3>4. ASSUME NEW p \in 1..made, NEW n \in Names, Current(p) \in Names,
                 names' = (names \ {CurrentRow(p)})
                            \cup {[name |-> Current(p), owner |-> p, kind |-> "alias"],
                                  [name |-> n, owner |-> p, kind |-> "current"]}
          PROVE  names' \in SUBSET NameRows
      BY <3>2, <3>3, <3>4
    <3> QED
      BY <1>2, <3>3, <3>4, RenameEffect
  <2> QED
    BY <1>2, <2>1, <2>2, <2>3 DEF UpdateProfile, TypeOK, Authed
<1>3. CASE ReplayProfile(h)
  <2>1. PICK r \in KeyRowsOf(handler[h]) : Answered(h, r)
    BY <1>3 DEF ReplayProfile
  <2>2. handler' \in [Handlers -> {Idle} \cup Authed] /\ told' \in SUBSET (Receipts \cup KeyRows)
    BY <2>1, IdleType DEF Answered, KeyRowsOf, TypeOK
  <2> QED
    BY <1>3, <2>2 DEF ReplayProfile, tables, TypeOK, Authed
<1>4. CASE RejectProfile(h)
  <2>1. handler' \in [Handlers -> {Idle} \cup Authed]
    BY <1>4, IdleType DEF RejectProfile
  <2> QED
    BY <1>4, <2>1 DEF RejectProfile, tables, TypeOK, Authed
<1> QED
  BY <1>1, <1>2, <1>3, <1>4 DEF HandleProfile

LEMMA AdministerType ==
  ASSUME TypeOK, NamesInv, KeysInv, Administer
  PROVE  TypeOK'
<1>1. ASSUME NEW n \in Names, CreatePrincipal(n)
      PROVE  TypeOK'
  BY <1>1, NewPrincipalType DEF CreatePrincipal, TypeOK
<1>2. ASSUME NEW n \in Selectors, ResolveMember(n)
      PROVE  TypeOK'
  <2>1. PICK p \in Owner(n) : granting' = [phase |-> "resolved", owner |-> p, selector |-> n]
    BY <1>2 DEF ResolveMember
  <2>2. p \in Ids /\ n \in Names
    BY ConstantsAssumption, SMTT(30), SMTT(45) DEF Owner, TypeOK, NameRows, Names
  <2> QED
    BY <1>2, <2>1, <2>2 DEF ResolveMember, TypeOK, tables
<1>3. CASE SetMembership
  <2>1. granting.owner \in Ids /\ granting.selector \in Names
    BY <1>3, SMTT(30), SMTT(45) DEF SetMembership, TypeOK, Idle
  <2>2. [owner |-> granting.owner, selector |-> granting.selector] \in Grants
    BY <2>1 DEF Grants
  <2> QED
    BY <1>3, <2>2 DEF SetMembership, TypeOK
<1>4. CASE Backup
  BY <1>4 DEF Backup, TypeOK, tables
<1>5. CASE Restore
  <2>1. names' = names /\ keys' = keys
    BY <1>5, RestoreEffect
  <2>2. creds' \in SUBSET CredRows
    BY <1>5, RevokedType DEF Restore, RestoredCreds, TypeOK
  <2> QED
    BY <1>5, <2>1, <2>2 DEF Restore, TypeOK
<1> QED
  BY <1>1, <1>2, <1>3, <1>4, <1>5, CredentialType DEF Administer

-----------------------------------------------------------------------------
(* Identity: names and grants *)

LEMMA NewPrincipalKeepsNames ==
  ASSUME TypeOK, NamesInv, NEW n \in Names, NewPrincipal(n), UNCHANGED <<members, granting, backup>>
  PROVE  NamesInv' /\ Later(names, names')
<1> DEFINE new == [name |-> n, owner |-> made + 1, kind |-> "current"]
<1>1. made \in Nat /\ made' = made + 1 /\ names' = names \cup {new} /\ \A r \in names : r.name # n
  BY Typed DEF NewPrincipal, Owner
<1>2. \A r \in names : r.owner \in Nat /\ r.owner <= made /\ r.owner # made + 1
  <2>1. \A r \in names : r.owner \in Nat
    BY Typed
  <2> QED
    BY <2>1, <1>1, SMTT(30), SMTT(45) DEF NamesInv
<1>3. NamesOK(names')
  BY <1>1, <1>2, SMTT(30), SMTT(45) DEF NamesInv, NamesOK, OneCurrent
<1>4. Later(backup.names, names') /\ Later(names, names')
  BY <1>1 DEF NamesInv, Later
<1>5. \A r \in names' : r.owner <= made'
  BY <1>1, <1>2, SMTT(30), SMTT(45)
<1>6. ASSUME NEW p \in 1..made'
      PROVE  \E m \in Names : [name |-> m, owner |-> p, kind |-> "current"] \in names'
  <2>1. CASE p = made + 1
    BY <1>1, <2>1
  <2>2. CASE p \in 1..made
    BY <1>1, <2>2 DEF NamesInv
  <2> QED
    BY <1>1, <2>1, <2>2, SMTT(30), SMTT(45)
<1>7. \A x, p : Named(x, p) => Named(x, p)'
  BY <1>1 DEF Named
<1> QED
  BY <1>3, <1>4, <1>5, <1>6, <1>7 DEF NamesInv

LEMMA RenameKeepsNames ==
  ASSUME TypeOK, NamesInv, CredsInv, NEW h \in Handlers, UpdateProfile(h)
  PROVE  NamesInv' /\ Later(names, names')
<1>1. UNCHANGED <<made, members, granting, backup>>
  BY DEF UpdateProfile
<1>2. CASE names' = names
  BY <1>1, <1>2 DEF NamesInv, Named, Later
<1>3. ASSUME NEW p \in 1..made, NEW n \in Names,
             \A r \in names : r.name # n,
             Current(p) \in Names, CurrentRow(p) \in names,
             names' = (names \ {CurrentRow(p)})
                        \cup {[name |-> Current(p), owner |-> p, kind |-> "alias"],
                              [name |-> n, owner |-> p, kind |-> "current"]}
      PROVE  NamesInv' /\ Later(names, names')
  <2> DEFINE old == CurrentRow(p)
             alias == [name |-> Current(p), owner |-> p, kind |-> "alias"]
             new == [name |-> n, owner |-> p, kind |-> "current"]
  <2>1. /\ old \in names /\ old.name = alias.name /\ old.owner = p /\ old.kind = "current"
        /\ alias.owner = p /\ alias.kind = "alias" /\ new.owner = p /\ new.name = n /\ new.kind = "current"
    BY <1>3 DEF CurrentRow
  <2>2. names' = (names \ {old}) \cup {alias, new}
    BY <1>3
  <2> HIDE DEF old, alias, new
  <2>3. \A r \in names : r # old => r.name # alias.name /\ ~ (r.kind = "current" /\ r.owner = p)
    BY <2>1 DEF NamesInv, NamesOK, OneCurrent
  <2>4. alias.name # n
    BY <1>3, <2>1
  <2>5. NamesOK(names')
    <3>1. ASSUME NEW q \in names', NEW r \in names', q.name = r.name
          PROVE  q = r
      BY <1>3, <3>1, <2>1, <2>2, <2>3, <2>4, SMTT(30), SMTT(45) DEF NamesInv, NamesOK
    <3>2. ASSUME NEW q \in names', NEW r \in names', q.kind = "current", r.kind = "current", q.owner = r.owner
          PROVE  q = r
      BY <3>2, <2>1, <2>2, <2>3 DEF NamesInv, NamesOK, OneCurrent
    <3> QED
      BY <3>1, <3>2 DEF NamesOK, OneCurrent
  <2>6. Later(names, names')
    <3> SUFFICES ASSUME NEW r \in names
                 PROVE  \E q \in names' : /\ q.name = r.name /\ q.owner = r.owner
                                          /\ r.kind = "alias" => q.kind = "alias"
      BY DEF Later
    <3>1. CASE r = old
      BY <3>1, <2>1, <2>2
    <3>2. CASE r # old
      BY <3>2, <2>2
    <3> QED
      BY <3>1, <3>2
  <2>7. Later(backup.names, names')
    BY <2>6, SMTT(30), SMTT(45) DEF NamesInv, Later
  <2>8. \A r \in names' : r.owner <= made
    <3>1. p <= made
      BY Typed
    <3> QED
      BY <3>1, <2>1, <2>2 DEF NamesInv
  <2>9. ASSUME NEW x \in 1..made
        PROVE  \E m \in Names : [name |-> m, owner |-> x, kind |-> "current"] \in names'
    <3>1. CASE x = p
      BY <3>1, <2>2 DEF new
    <3>2. CASE x # p
      <4>1. PICK m \in Names : [name |-> m, owner |-> x, kind |-> "current"] \in names
        BY DEF NamesInv
      <4>2. [name |-> m, owner |-> x, kind |-> "current"] # old
        BY <3>2, <2>1, SMTT(30), SMTT(45)
      <4> QED
        BY <4>1, <4>2, <2>2
    <3> QED
      BY <3>1, <3>2
  <2>10. \A x, y : Named(x, y) => Named(x, y)'
    BY <2>6 DEF Named, Later
  <2> QED
    BY <1>1, <2>5, <2>6, <2>7, <2>8, <2>9, <2>10 DEF NamesInv
<1> QED
  BY <1>2, <1>3, RenameEffect

LEMMA LaterItself == ASSUME NEW N PROVE Later(N, N)
BY DEF Later

LEMMA StepKeepsNames ==
  ASSUME IdentityInv, [Next]_vars
  PROVE  NamesInv' /\ Later(names, names')
<1> USE DEF IdentityInv
<1>1. CASE UNCHANGED <<names, backup, made, members, granting>>
  BY <1>1, LaterItself DEF NamesInv, Named
<1>2. ASSUME NEW n \in Names, NewPrincipal(n), UNCHANGED <<members, granting, backup>>
      PROVE  NamesInv' /\ Later(names, names')
  BY <1>2, NewPrincipalKeepsNames
<1>3. ASSUME NEW t \in Tokens, NEW n \in Names, RegisterNew(t, n) \/ RegisterReplay(t, n)
      PROVE  NamesInv' /\ Later(names, names')
  BY <1>1, <1>2, <1>3 DEF RegisterNew, RegisterReplay, tables
<1>4. ASSUME NEW h \in Handlers, HandleProfile(h)
      PROVE  NamesInv' /\ Later(names, names')
  <2>1. CASE UpdateProfile(h)
    BY <2>1, RenameKeepsNames
  <2> QED
    BY <1>1, <1>4, <2>1 DEF HandleProfile, Authenticate, ReplayProfile, RejectProfile, tables
<1>5. ASSUME NEW n \in Selectors, ResolveMember(n)
      PROVE  NamesInv' /\ Later(names, names')
  <2>1. PICK p \in Owner(n) : granting' = [phase |-> "resolved", owner |-> p, selector |-> n]
    BY <1>5 DEF ResolveMember
  <2>2. Named(n, p)
    BY DEF Owner, Named
  <2>3. UNCHANGED <<names, backup, made, members>>
    BY <1>5 DEF ResolveMember, tables
  <2>4. Named(granting'.selector, granting'.owner)
    BY <2>1, <2>2
  <2> QED
    BY <2>3, <2>4, LaterItself DEF NamesInv, Named
<1>6. CASE SetMembership
  <2>1. UNCHANGED <<names, backup, made>> /\ granting' = Idle
    BY <1>6 DEF SetMembership
  <2>2. Named(granting.selector, granting.owner)
    BY <1>6 DEF SetMembership, NamesInv
  <2>3. \A m \in members' : Named(m.selector, m.owner)
    BY <1>6, <2>2, SMTT(30), SMTT(45) DEF SetMembership, NamesInv
  <2> QED
    BY <2>1, <2>3, LaterItself DEF NamesInv, Named, Idle
<1>7. CASE Backup
  <2>1. backup'.names = names /\ UNCHANGED <<names, made, members, granting>>
    BY <1>7 DEF Backup, tables
  <2> QED
    BY <2>1, LaterItself DEF NamesInv, Named
<1>8. CASE Restore
  <2>1. UNCHANGED <<names, backup, made, members>> /\ granting' = Idle
    BY <1>8, RestoreEffect DEF Restore
  <2> QED
    BY <2>1, LaterItself DEF NamesInv, Named, Idle
<1>9. CASE Administer
  BY <1>1, <1>2, <1>5, <1>6, <1>7, <1>8, <1>9
     DEF Administer, CreatePrincipal, Rotate, Revoke, RecoverPrincipal
<1>10. CASE UNCHANGED vars
  BY <1>1, <1>10 DEF vars, tables
<1> QED
  BY <1>3, <1>4, <1>9, <1>10 DEF Next

-----------------------------------------------------------------------------
(* Identity: credentials *)

(* Credentials are issued and revoked, never forgotten. *)
StillKnown(C, D) ==
  \A c \in C : \E d \in D : d.id = c.id /\ d.token = c.token /\ d.owner = c.owner /\ (d.live => c.live)

CredsOK(C, last, most) ==
  /\ \A c \in C : c.id <= last /\ c.owner <= most
  /\ \A c, d \in C : c.id = d.id => c = d

LEMMA RevokedRow ==
  ASSUME NEW C \in SUBSET CredRows
  PROVE  /\ \A d \in Revoked(C) : \E c \in C :
              /\ d.id = c.id /\ d.token = c.token /\ d.owner = c.owner /\ d.live = FALSE
              /\ d = [c EXCEPT !.live = FALSE]
         /\ \A c \in C : \E d \in Revoked(C) :
              d.id = c.id /\ d.token = c.token /\ d.owner = c.owner /\ d.live = FALSE
<1>1. \A c \in C : LET d == [c EXCEPT !.live = FALSE] IN
        d \in Revoked(C) /\ d.id = c.id /\ d.token = c.token /\ d.owner = c.owner /\ d.live = FALSE
  BY DEF Revoked, CredRows
<1>2. \A d \in Revoked(C) : \E c \in C : d = [c EXCEPT !.live = FALSE]
  BY DEF Revoked
<1> QED
  BY <1>1, <1>2

LEMMA RevokeSome ==
  ASSUME TypeOK, CredsInv, NEW C \in SUBSET creds, NEW D, D = (creds \ C) \cup Revoked(C)
  PROVE  CredsOK(D, issued, made) /\ StillKnown(creds, D) /\ D \in SUBSET CredRows
<1>1. C \in SUBSET CredRows
  BY DEF TypeOK
<1>2. ASSUME NEW d \in D
      PROVE  \E c \in creds : /\ d.id = c.id /\ d.owner = c.owner
                              /\ d = IF c \in C THEN [c EXCEPT !.live = FALSE] ELSE c
  <2>1. CASE d \in creds \ C
    BY <2>1
  <2>2. CASE d \in Revoked(C)
    BY <1>1, <2>2, RevokedRow
  <2> QED
    BY <2>1, <2>2
<1>3. \A d \in D : d.id <= issued /\ d.owner <= made
  BY <1>2 DEF CredsInv
<1>4. ASSUME NEW d \in D, NEW e \in D, d.id = e.id
      PROVE  d = e
  <2>1. PICK c \in creds : d.id = c.id /\ d = IF c \in C THEN [c EXCEPT !.live = FALSE] ELSE c
    BY <1>2
  <2>2. PICK b \in creds : e.id = b.id /\ e = IF b \in C THEN [b EXCEPT !.live = FALSE] ELSE b
    BY <1>2
  <2>3. c.id = b.id
    BY <1>4, <2>1, <2>2
  <2>4. c = b
    BY <2>3 DEF CredsInv
  <2> QED
    BY <2>1, <2>2, <2>4
<1>5. StillKnown(creds, D)
  <2> SUFFICES ASSUME NEW c \in creds
               PROVE  \E d \in D : d.id = c.id /\ d.token = c.token /\ d.owner = c.owner /\ (d.live => c.live)
    BY DEF StillKnown
  <2>1. CASE c \in C
    BY <1>1, <2>1, RevokedRow
  <2>2. CASE c \notin C
    BY <2>2
  <2> QED
    BY <2>1, <2>2
<1>6. D \in SUBSET CredRows
  BY <1>1, RevokedType DEF TypeOK
<1> QED
  BY <1>3, <1>4, <1>5, <1>6 DEF CredsOK

LEMMA IssueOne ==
  ASSUME NEW D \in SUBSET CredRows, NEW last \in Nat, NEW most \in Nat, NEW more \in Nat, CredsOK(D, last, most),
         NEW p, NEW t, most <= more, p <= more, StillKnown(creds, D)
  PROVE  LET E == D \cup {[id |-> last + 1, owner |-> p, token |-> t, live |-> TRUE]} IN
         CredsOK(E, last + 1, more) /\ StillKnown(creds, E)
<1> DEFINE new == [id |-> last + 1, owner |-> p, token |-> t, live |-> TRUE]
           E == D \cup {new}
<1>1. \A c \in D : c.id \in Nat /\ c.owner \in Nat /\ c.id <= last /\ c.owner <= most
  BY ConstantsAssumption, SMTT(30), SMTT(45) DEF CredsOK, CredRows, CredIds, Ids
<1>2. new.id = last + 1 /\ new.owner = p
  OBVIOUS
<1> HIDE DEF new
<1>3. CredsOK(E, last + 1, more)
  BY <1>1, <1>2, SMTT(30), SMTT(45) DEF CredsOK
<1>4. StillKnown(creds, E)
  BY DEF StillKnown
<1> QED
  BY <1>3, <1>4 DEF new

(* What keeps CredsInv. *)
LEMMA CredsStep ==
  ASSUME TypeOK, CredsInv, CredsOK(creds', issued', made'), StillKnown(creds, creds'), UNCHANGED backup,
         handler' = handler \/ \E h \in Handlers : handler' = [handler EXCEPT ![h] = Idle]
  PROVE  CredsInv'
<1>1. \A b \in backup.creds : \E c \in creds' : c.id = b.id /\ c.owner = b.owner /\ c.token = b.token
  BY SMTT(30), SMTT(45) DEF CredsInv, StillKnown
<1>2. ASSUME NEW h \in Handlers, handler'[h].phase = "authenticated"
      PROVE  \E c \in creds' : c.id = handler'[h].cred /\ c.owner = handler'[h].owner
  <2>1. handler'[h] = handler[h]
    BY <1>2, SMTT(30), SMTT(45) DEF TypeOK, Idle
  <2> QED
    BY <1>2, <2>1, SMTT(30), SMTT(45) DEF CredsInv, StillKnown
<1> QED
  BY <1>1, <1>2 DEF CredsInv, CredsOK

LEMMA StillKnownItself == ASSUME NEW C PROVE StillKnown(C, C)
BY DEF StillKnown

LEMMA StepKeepsCreds ==
  ASSUME IdentityInv, [Next]_vars
  PROVE  CredsInv' /\ StillKnown(creds, creds')
<1> USE DEF IdentityInv
<1>1. /\ CredsOK(creds, issued, made) /\ StillKnown(creds, creds)
      /\ issued \in Nat /\ made \in Nat /\ creds \in SUBSET CredRows
  BY StillKnownItself, Typed DEF CredsInv, CredsOK, TypeOK
<1>2. CASE /\ UNCHANGED <<creds, issued, made, backup>>
           /\ handler' = handler \/ \E h \in Handlers : handler' = [handler EXCEPT ![h] = Idle]
  BY <1>1, <1>2, CredsStep
<1>3. ASSUME NEW n \in Names, CreatePrincipal(n)
      PROVE  CredsInv' /\ StillKnown(creds, creds')
  <2>1. made' = made + 1 /\ UNCHANGED <<creds, issued, backup, handler>>
    BY <1>3 DEF CreatePrincipal, NewPrincipal
  <2>2. \A c \in creds : c.owner \in Nat
    BY Typed
  <2>3. CredsOK(creds, issued, made + 1)
    BY <1>1, <2>2, SMTT(30), SMTT(45) DEF CredsOK
  <2> QED
    BY <1>1, <2>1, <2>3, CredsStep
<1>4. ASSUME NEW t \in Tokens, NEW n \in Names, RegisterNew(t, n)
      PROVE  CredsInv' /\ StillKnown(creds, creds')
  <2>1. /\ made' = made + 1 /\ issued' = issued + 1 /\ UNCHANGED <<backup, handler>>
        /\ creds' = creds \cup {[id |-> issued + 1, owner |-> made + 1, token |-> t, live |-> TRUE]}
    BY <1>4 DEF RegisterNew, NewPrincipal, NewCred
  <2>2. made + 1 \in Nat /\ made <= made + 1 /\ made + 1 <= made + 1
    BY <1>1, SMTT(30), SMTT(45)
  <2>3. CredsOK(creds', issued', made') /\ StillKnown(creds, creds')
    BY <1>1, <2>1, <2>2, IssueOne
  <2> QED
    BY <2>1, <2>3, CredsStep
<1>5. ASSUME NEW C \in SUBSET creds, NEW p \in Ids, p <= made, issued' = issued + 1, Replace(C, p),
             UNCHANGED <<made, handler, backup>>
      PROVE  CredsInv' /\ StillKnown(creds, creds')
  <2> DEFINE D == (creds \ C) \cup Revoked(C)
  <2>1. CredsOK(D, issued, made) /\ StillKnown(creds, D) /\ D \in SUBSET CredRows
    BY RevokeSome
  <2>2. creds' = D \cup {[id |-> issued + 1, owner |-> p, token |-> Drawn, live |-> TRUE]}
    BY <1>5 DEF Replace, NewCred
  <2> HIDE DEF D
  <2>3. made <= made /\ p <= made /\ issued' = issued + 1 /\ made' = made
    BY <1>1, <1>5, SMTT(30), SMTT(45)
  <2>4. CredsOK(creds', issued', made') /\ StillKnown(creds, creds')
    BY <1>1, <2>1, <2>2, <2>3, IssueOne
  <2> QED
    BY <1>5, <2>4, CredsStep
<1>6. ASSUME NEW c \in creds, Rotate(c)
      PROVE  CredsInv' /\ StillKnown(creds, creds')
  <2>1. c.owner \in Ids /\ c.owner <= made /\ {c} \in SUBSET creds
    BY DEF TypeOK, CredRows, CredsInv
  <2> QED
    BY <1>5, <1>6, <2>1 DEF Rotate
<1>7. ASSUME NEW p \in Ids, RecoverPrincipal(p)
      PROVE  CredsInv' /\ StillKnown(creds, creds')
  <2>1. {c \in creds : c.owner = p /\ c.live} \in SUBSET creds
    OBVIOUS
  <2> QED
    BY <1>5, <1>7, <2>1 DEF RecoverPrincipal
<1>8. ASSUME NEW c \in creds, Revoke(c)
      PROVE  CredsInv' /\ StillKnown(creds, creds')
  <2>1. CredsOK(creds', issued, made) /\ StillKnown(creds, creds')
    BY <1>8, RevokeSome DEF Revoke
  <2> QED
    BY <1>8, <2>1, CredsStep DEF Revoke
<1>9. CASE Restore
  <2>1. creds' = (creds \ creds) \cup Revoked(creds)
    BY <1>9 DEF Restore, RestoredCreds
  <2>2. CredsOK(creds', issued, made) /\ StillKnown(creds, creds')
    BY <2>1, RevokeSome
  <2>3. UNCHANGED <<issued, made, backup>> /\ \A h \in Handlers : handler'[h] = Idle
    BY <1>9 DEF Restore
  <2>4. \A b \in backup.creds : \E c \in creds' : c.id = b.id /\ c.owner = b.owner /\ c.token = b.token
    <3> SUFFICES ASSUME NEW b \in backup.creds
                 PROVE  \E c \in creds' : c.id = b.id /\ c.owner = b.owner /\ c.token = b.token
      OBVIOUS
    <3>1. PICK c \in creds : c.id = b.id /\ c.owner = b.owner /\ c.token = b.token
      BY DEF CredsInv
    <3>2. PICK d \in creds' : d.id = c.id /\ d.token = c.token /\ d.owner = c.owner
      BY <2>2 DEF StillKnown
    <3> QED
      BY <3>1, <3>2
  <2>5. Idle.phase # "authenticated"
    BY DEF Idle
  <2> QED
    BY <2>2, <2>3, <2>4, <2>5 DEF CredsInv, CredsOK
<1>10. CASE Backup
  <2>1. backup'.creds = creds /\ UNCHANGED <<creds, issued, made, handler>>
    BY <1>10 DEF Backup, tables
  <2> QED
    BY <1>1, <2>1 DEF CredsInv
<1>11. ASSUME NEW h \in Handlers, Authenticate(h)
      PROVE  CredsInv' /\ StillKnown(creds, creds')
  <2>1. PICK c \in creds, k \in Keys, u \in Updates :
          handler' = [handler EXCEPT ![h] =
            [phase |-> "authenticated", cred |-> c.id, owner |-> c.owner, key |-> k, payload |-> u]]
    BY <1>11 DEF Authenticate
  <2>2. UNCHANGED <<creds, issued, made, backup>>
    BY <1>11 DEF Authenticate, tables
  <2>3. \A g \in Handlers : handler'[g].phase = "authenticated" =>
          \E d \in creds : d.id = handler'[g].cred /\ d.owner = handler'[g].owner
    BY <2>1 DEF TypeOK, CredsInv
  <2> QED
    BY <1>1, <2>2, <2>3 DEF CredsInv
<1>12. ASSUME NEW h \in Handlers, HandleProfile(h)
       PROVE  CredsInv' /\ StillKnown(creds, creds')
  BY <1>2, <1>11, <1>12
     DEF HandleProfile, UpdateProfile, ReplayProfile, RejectProfile, Answered, tables
<1>13. CASE Administer
  BY <1>2, <1>3, <1>6, <1>7, <1>8, <1>9, <1>10, <1>13
     DEF Administer, ResolveMember, SetMembership, tables
<1>14. ASSUME NEW t \in Tokens, NEW n \in Names, RegisterReplay(t, n)
       PROVE  CredsInv' /\ StillKnown(creds, creds')
  BY <1>2, <1>14 DEF RegisterReplay, tables
<1>15. CASE UNCHANGED vars
  BY <1>2, <1>15 DEF vars, tables
<1> QED
  BY <1>4, <1>12, <1>13, <1>14, <1>15 DEF Next

-----------------------------------------------------------------------------
(* Identity: receipts and profiles *)

LEMMA ReceiptsAreNotKeys == \A r \in Receipts : r \notin KeyRows
<1> SUFFICES ASSUME NEW r \in Receipts, r \in KeyRows PROVE FALSE
  OBVIOUS
<1>1. DOMAIN r = {"token", "handle", "owner"}
  BY DEF Receipts
<1>2. DOMAIN r = {"owner", "key", "payload", "response"}
  BY DEF KeyRows
<1> QED
  BY <1>1, <1>2, SMTT(30), SMTT(45)

(* What keeps ReceiptsInv when no receipt is added. *)
LEMMA ReceiptsFrame ==
  ASSUME TypeOK, ReceiptsInv, receipts' = receipts, made' \in Nat, made <= made',
         Later(names, names'), StillKnown(creds, creds'),
         backup'.receipts \in {backup.receipts, receipts},
         told' \cap Receipts \subseteq told \cup receipts
  PROVE  ReceiptsInv'
<1>1. ASSUME NEW r \in receipts
      PROVE  r.owner <= made' /\ Named(r.handle, r.owner)' /\ \E c \in creds' : c.token = r.token
  <2>1. r.owner \in Nat /\ made \in Nat /\ r.owner <= made
    BY Typed DEF ReceiptsInv
  <2>2. Named(r.handle, r.owner)'
    <3>1. PICK a \in names : a.name = r.handle /\ a.owner = r.owner
      BY DEF ReceiptsInv, Named
    <3>2. PICK b \in names' : b.name = a.name /\ b.owner = a.owner
      BY DEF Later
    <3> QED
      BY <3>1, <3>2 DEF Named
  <2>3. \E c \in creds' : c.token = r.token
    <3>1. PICK c \in creds : c.token = r.token
      BY DEF ReceiptsInv
    <3>2. PICK d \in creds' : d.token = c.token
      BY DEF StillKnown
    <3> QED
      BY <3>1, <3>2
  <2> QED
    BY <2>1, <2>2, <2>3, SMTT(30), SMTT(45)
<1>2. told' \cap Receipts \subseteq receipts
  BY DEF ReceiptsInv
<1> QED
  BY <1>1, <1>2 DEF ReceiptsInv

LEMMA RegisterKeepsReceipts ==
  ASSUME TypeOK, ReceiptsInv, NEW t \in Tokens, NEW n \in Names, RegisterNew(t, n)
  PROVE  ReceiptsInv'
<1> DEFINE new == [token |-> t, handle |-> n, owner |-> made + 1]
<1>1. /\ receipts' = receipts \cup {new} /\ told' = told \cup {new} /\ made' = made + 1
      /\ creds' = creds \cup {NewCred(made + 1, t)} /\ UNCHANGED backup
      /\ names' = names \cup {[name |-> n, owner |-> made + 1, kind |-> "current"]}
  BY DEF RegisterNew, NewPrincipal
<1>2. new.token = t /\ new.handle = n /\ new.owner = made + 1 /\ made \in Nat
  BY Typed
<1> HIDE DEF new
<1>3. \A r \in receipts : r.owner \in Nat /\ r.owner <= made
  BY Typed DEF ReceiptsInv
<1>4. \A r \in receipts : r.token # t
  BY DEF RegisterNew, ReceiptsInv
<1>5. \A x, y : Named(x, y) => Named(x, y)'
  BY <1>1 DEF Named
<1>6. /\ \E x \in names' : x.name = new.handle /\ x.owner = new.owner
      /\ \E c \in creds' : c.token = t
  <2>1. PICK x : x = [name |-> n, owner |-> made + 1, kind |-> "current"]
    OBVIOUS
  <2>2. x \in names' /\ x.name = n /\ x.owner = made + 1
    BY <1>1, <2>1
  <2>3. NewCred(made + 1, t).token = t
    BY DEF NewCred
  <2> QED
    BY <1>1, <1>2, <2>2, <2>3
<1>7. ASSUME NEW r \in receipts'
      PROVE  r.owner <= made' /\ Named(r.handle, r.owner)' /\ \E c \in creds' : c.token = r.token
  <2>1. CASE r \in receipts
    BY <1>1, <1>2, <1>3, <1>5, <2>1, SMTT(30), SMTT(45) DEF ReceiptsInv
  <2>2. CASE r = new
    <3>1. \E x \in names' : x.name = r.handle /\ x.owner = r.owner
      BY <1>6, <2>2
    <3> QED
      BY <3>1, <1>1, <1>2, <1>6, <2>2, SMTT(30), SMTT(45) DEF Named
  <2> QED
    BY <1>1, <2>1, <2>2
<1>8. \A q, r \in receipts' : q.token = r.token \/ q.owner = r.owner => q = r
  BY <1>1, <1>2, <1>3, <1>4, SMTT(30), SMTT(45) DEF ReceiptsInv
<1>9. backup'.receipts \subseteq receipts' /\ told' \cap Receipts \subseteq receipts'
  BY <1>1 DEF ReceiptsInv
<1> QED
  BY <1>7, <1>8, <1>9 DEF ReceiptsInv

LEMMA StepKeepsReceipts ==
  ASSUME IdentityInv, [Next]_vars
  PROVE  ReceiptsInv' /\ receipts \subseteq receipts'
<1> USE DEF IdentityInv
<1>1. Later(names, names') /\ StillKnown(creds, creds') /\ made \in Nat
  BY StepKeepsNames, StepKeepsCreds, Typed
<1>2. CASE /\ UNCHANGED <<receipts, backup, told>>
           /\ made' = made \/ made' = made + 1
  BY <1>1, <1>2, ReceiptsFrame, SMTT(30), SMTT(45)
<1>3. ASSUME NEW t \in Tokens, NEW n \in Names, RegisterNew(t, n)
      PROVE  ReceiptsInv' /\ receipts \subseteq receipts'
  BY <1>3, RegisterKeepsReceipts DEF RegisterNew
<1>4. ASSUME NEW t \in Tokens, NEW n \in Names, RegisterReplay(t, n)
      PROVE  ReceiptsInv' /\ receipts \subseteq receipts'
  <2>1. PICK r \in ReceiptOf(t, n) : told' = told \cup {[token |-> t, handle |-> n, owner |-> r.owner]}
    BY <1>4 DEF RegisterReplay
  <2>2. r \in receipts /\ r = [token |-> t, handle |-> n, owner |-> r.owner]
    BY DEF ReceiptOf, TypeOK, Receipts
  <2>3. UNCHANGED <<receipts, backup, made>>
    BY <1>4 DEF RegisterReplay, tables
  <2> QED
    BY <1>1, <2>1, <2>2, <2>3, ReceiptsFrame, SMTT(30), SMTT(45)
<1>5. ASSUME NEW h \in Handlers, HandleProfile(h)
      PROVE  ReceiptsInv' /\ receipts \subseteq receipts'
  <2>1. UNCHANGED <<receipts, backup, made>>
    BY <1>5 DEF HandleProfile, Authenticate, UpdateProfile, ReplayProfile, RejectProfile, tables
  <2>2. told' \cap Receipts \subseteq told
    <3>1. CASE UpdateProfile(h)
      BY <3>1, UpdateEffect, ReceiptsAreNotKeys, SMTT(30), SMTT(45)
    <3>2. CASE ReplayProfile(h)
      BY <3>2, ReceiptsAreNotKeys DEF ReplayProfile, Answered, KeyRowsOf, TypeOK
    <3> QED
      BY <1>5, <3>1, <3>2 DEF HandleProfile, Authenticate, RejectProfile
  <2> QED
    BY <1>1, <2>1, <2>2, ReceiptsFrame, SMTT(30), SMTT(45)
<1>6. CASE Backup
  <2>1. backup'.receipts = receipts /\ UNCHANGED <<receipts, told, made>>
    BY <1>6 DEF Backup, tables
  <2> QED
    BY <1>1, <2>1, ReceiptsFrame, SMTT(30), SMTT(45)
<1>7. CASE Administer
  BY <1>2, <1>6, <1>7
     DEF Administer, CreatePrincipal, NewPrincipal, Rotate, Revoke, RecoverPrincipal, ResolveMember,
         SetMembership, Restore, tables
<1>8. CASE UNCHANGED vars
  BY <1>2, <1>8 DEF vars, tables
<1> QED
  BY <1>3, <1>4, <1>5, <1>7, <1>8 DEF Next

(* What keeps KeysInv when no update is made. *)
LEMMA KeysFrame ==
  ASSUME TypeOK, KeysInv, UNCHANGED <<keys, revision, made>>,
         backup'.keys \in {backup.keys, keys}, told' \cap KeyRows \subseteq told \cup keys
  PROVE  KeysInv'
<1>1. backup'.keys \subseteq keys /\ told' \cap KeyRows \subseteq keys
  BY DEF KeysInv
<1> QED
  BY <1>1 DEF KeysInv

LEMMA NewPrincipalKeepsKeys ==
  ASSUME TypeOK, KeysInv, NEW n \in Names, NewPrincipal(n), UNCHANGED <<keys, backup>>,
         told' \cap KeyRows \subseteq told
  PROVE  KeysInv'
<1>1. made \in Nat /\ made + 1 \in Ids /\ made' = made + 1 /\ revision' = [revision EXCEPT ![made + 1] = 1]
  <2>1. made < MaxPrincipals /\ made' = made + 1 /\ revision' = [revision EXCEPT ![made + 1] = 1]
    BY DEF NewPrincipal
  <2>2. made + 1 \in 1..MaxPrincipals
    BY <2>1, Typed, ConstantsAssumption, SMTT(30), SMTT(45)
  <2> QED
    BY <2>1, <2>2, Typed DEF Ids
<1>2. \A r \in keys : r.owner \in Ids /\ r.owner <= made /\ r.owner # made + 1
  <2>1. \A r \in keys : r.owner \in Ids /\ r.owner \in Nat
    BY Typed
  <2> QED
    BY <1>1, <2>1, SMTT(30), SMTT(45) DEF KeysInv
<1>3. \A p \in Ids : revision'[p] = IF p = made + 1 THEN 1 ELSE revision[p]
  BY <1>1 DEF TypeOK
<1>4. ASSUME NEW p \in 1..made', NEW k \in 2..revision'[p]
      PROVE  \E r \in keys : r.owner = p /\ r.response.revision = k
  <2>1. p \in Ids
    BY <1>1, ConstantsAssumption, SMTT(30), SMTT(45) DEF Ids
  <2>2. p # made + 1
    BY <2>1, <1>3, SMTT(30), SMTT(45)
  <2>3. p \in 1..made /\ k \in 2..revision[p]
    BY <1>1, <1>3, <2>1, <2>2, SMTT(30), SMTT(45)
  <2> QED
    BY <2>3 DEF KeysInv
<1>5. \A r \in keys : r.owner <= made' /\ revision'[r.owner] = revision[r.owner]
  BY <1>1, <1>2, <1>3, ConstantsAssumption, SMTT(30), SMTT(45) DEF Ids
<1>6. told' \cap KeyRows \subseteq keys
  BY DEF KeysInv
<1> QED
  BY <1>4, <1>5, <1>6, SMTT(30), SMTT(45) DEF KeysInv

LEMMA UpdateKeepsKeys ==
  ASSUME TypeOK, NamesInv, CredsInv, KeysInv, NEW h \in Handlers, UpdateProfile(h)
  PROVE  KeysInv'
<1> DEFINE p == handler[h].owner
           new == RowOf(h)
<1>1. /\ new \in KeyRows /\ keys' = keys \cup {new} /\ new.owner = p /\ new.key = handler[h].key
      /\ new.payload = handler[h].payload /\ new.response.revision = revision[p] + 1
      /\ new.response.handle = handler[h].payload.handle
      /\ told' \in {told, told \cup {new}} /\ revision' = [revision EXCEPT ![p] = @ + 1]
      /\ handler[h].payload.expected = revision[p]
      /\ \A r \in keys : ~ (r.owner = p /\ r.key = handler[h].key)
  BY UpdateEffect
<1>2. p \in 1..made /\ p \in Ids
  BY UpdateEffect, UpdaterIsMade, AuthedType
<1> HIDE DEF p, new
<1>3. UNCHANGED <<made, backup>> /\ made \in Nat /\ p \in Nat
  BY <1>2, Typed DEF UpdateProfile
<1>4. \A x \in Ids : revision[x] \in Nat /\ revision'[x] = IF x = p THEN revision[x] + 1 ELSE revision[x]
  <2>1. revision \in [Ids -> 1..MaxRevision] /\ revision' = [revision EXCEPT ![p] = @ + 1]
    BY <1>1 DEF TypeOK
  <2>2. \A x \in Ids : revision'[x] = IF x = p THEN revision[x] + 1 ELSE revision[x]
    BY <2>1
  <2>3. \A x \in Ids : revision[x] \in Nat
    BY Typed
  <2> QED
    BY <2>2, <2>3
<1>5. \A r \in keys : r.owner \in Ids /\ r.response.revision \in Nat
  BY Typed
<1>6. ASSUME NEW x \in 1..made, NEW k \in 2..revision'[x]
      PROVE  \E r \in keys' : r.owner = x /\ r.response.revision = k
  <2>1. x \in Ids
    BY Typed
  <2>2. CASE x = p /\ k = revision[p] + 1
    BY <1>1, <2>2
  <2>3. CASE k \in 2..revision[x]
    <3>1. PICK r \in keys : r.owner = x /\ r.response.revision = k
      BY <2>3 DEF KeysInv
    <3>2. r \in keys'
      BY <1>1
    <3> QED
      BY <3>1, <3>2
  <2> QED
    BY <1>4, <2>1, <2>2, <2>3, SMTT(30), SMTT(45)
<1>7. ASSUME NEW r \in keys'
      PROVE  /\ r.owner <= made
             /\ r.response.revision = r.payload.expected + 1
             /\ r.response.handle = r.payload.handle
             /\ r.response.revision <= revision'[r.owner]
  <2>1. CASE r \in keys
    <3>1. /\ r.owner <= made /\ r.response.revision = r.payload.expected + 1
          /\ r.response.handle = r.payload.handle /\ r.response.revision <= revision[r.owner]
      BY <2>1 DEF KeysInv
    <3>2. revision[r.owner] \in Nat /\ revision'[r.owner] >= revision[r.owner] /\ revision'[r.owner] \in Nat
      BY <2>1, <1>4, <1>5, SMTT(30), SMTT(45)
    <3>3. r.response.revision <= revision'[r.owner]
      BY <2>1, <3>1, <3>2, <1>5, SMTT(30), SMTT(45)
    <3> QED
      BY <3>1, <3>3
  <2>2. CASE r = new
    BY <1>1, <1>2, <1>3, <1>4, <2>2, SMTT(30), SMTT(45)
  <2> QED
    BY <1>1, <2>1, <2>2
<1>8. ASSUME NEW r \in keys, r.owner = p
      PROVE  r.key # new.key /\ r.response.revision # new.response.revision
  <2>1. r.response.revision <= revision[p]
    BY <1>8 DEF KeysInv
  <2>2. /\ r.key # new.key /\ r.response.revision \in Nat /\ revision[p] \in Nat
        /\ new.response.revision = revision[p] + 1
    BY <1>1, <1>2, <1>4, <1>5, <1>8
  <2> QED
    BY <2>1, <2>2, SMTT(30), SMTT(45)
<1>9. \A q, r \in keys' : q.owner = r.owner
        /\ (q.key = r.key \/ q.response.revision = r.response.revision) => q = r
  <2>1. \A q, r \in keys : q.owner = r.owner
          /\ (q.key = r.key \/ q.response.revision = r.response.revision) => q = r
    BY DEF KeysInv
  <2>2. \A r \in keys' : r \in keys \/ r = new
    BY <1>1
  <2> QED
    BY <1>1, <1>8, <2>1, <2>2
<1>10. backup'.keys \subseteq keys' /\ told' \cap KeyRows \subseteq keys'
  BY <1>1, <1>3 DEF KeysInv
<1> QED
  BY <1>3, <1>6, <1>7, <1>9, <1>10 DEF KeysInv

LEMMA StepKeepsKeys ==
  ASSUME IdentityInv, [Next]_vars
  PROVE  KeysInv' /\ (keys' # keys => \E h \in Handlers : UpdateProfile(h))
<1> USE DEF IdentityInv
<1>1. CASE UNCHANGED <<keys, revision, made, backup, told>>
  BY <1>1, KeysFrame
<1>2. ASSUME NEW t \in Tokens, NEW n \in Names, RegisterNew(t, n)
      PROVE  KeysInv' /\ keys' = keys
  <2>1. [token |-> t, handle |-> n, owner |-> made + 1] \in Receipts
    BY <1>2, NewPrincipalType DEF RegisterNew, Receipts
  <2>2. told' \cap KeyRows \subseteq told
    BY <1>2, <2>1, ReceiptsAreNotKeys DEF RegisterNew
  <2> QED
    BY <1>2, <2>2, NewPrincipalKeepsKeys DEF RegisterNew
<1>3. ASSUME NEW t \in Tokens, NEW n \in Names, RegisterReplay(t, n)
      PROVE  KeysInv' /\ keys' = keys
  <2>1. PICK r \in ReceiptOf(t, n) : told' = told \cup {[token |-> t, handle |-> n, owner |-> r.owner]}
    BY <1>3 DEF RegisterReplay
  <2>2. [token |-> t, handle |-> n, owner |-> r.owner] \in Receipts
    BY DEF ReceiptOf, TypeOK, Receipts
  <2>3. told' \cap KeyRows \subseteq told
    BY <2>1, <2>2, ReceiptsAreNotKeys
  <2> QED
    BY <1>3, <2>3, KeysFrame DEF RegisterReplay, tables
<1>4. ASSUME NEW h \in Handlers, HandleProfile(h)
      PROVE  KeysInv' /\ (keys' = keys \/ UpdateProfile(h))
  <2>1. CASE UpdateProfile(h)
    BY <2>1, UpdateKeepsKeys
  <2>2. CASE ReplayProfile(h)
    <3>1. told' \subseteq told \cup keys /\ UNCHANGED <<keys, revision, made, backup>>
      BY <2>2 DEF ReplayProfile, Answered, KeyRowsOf, tables
    <3> QED
      BY <3>1, KeysFrame
  <2> QED
    BY <1>1, <1>4, <2>1, <2>2 DEF HandleProfile, Authenticate, RejectProfile, tables
<1>5. ASSUME NEW n \in Names, CreatePrincipal(n)
      PROVE  KeysInv' /\ keys' = keys
  BY <1>5, NewPrincipalKeepsKeys DEF CreatePrincipal
<1>6. CASE Backup
  <2>1. backup'.keys = keys /\ UNCHANGED <<keys, revision, made, told>>
    BY <1>6 DEF Backup, tables
  <2> QED
    BY <2>1, KeysFrame
<1>7. CASE Restore
  BY <1>7, <1>1, RestoreEffect DEF Restore
<1>8. CASE Administer
  BY <1>1, <1>5, <1>6, <1>7, <1>8
     DEF Administer, Rotate, Revoke, RecoverPrincipal, ResolveMember, SetMembership, tables
<1>9. CASE UNCHANGED vars
  BY <1>1, <1>9 DEF vars, tables
<1> QED
  BY <1>2, <1>3, <1>4, <1>8, <1>9 DEF Next

-----------------------------------------------------------------------------
(* The theorems about Identity *)

LEMMA IdentityInit == Init => IdentityInv
<1> SUFFICES ASSUME Init PROVE IdentityInv
  OBVIOUS
<1> USE DEF Init
<1>1. TypeOK
  <2>1. 0 \in 0..MaxPrincipals /\ 0 \in 0..MaxCreds /\ 1 \in 1..MaxRevision
    BY ConstantsAssumption, SMTT(30), SMTT(45)
  <2> QED
    BY <2>1 DEF TypeOK
<1>2. NamesInv
  <2>1. 1..made = {}
    BY SMTT(30), SMTT(45)
  <2>2. granting.phase # "resolved"
    BY DEF Idle
  <2>3. NamesOK({}) /\ Later({}, {})
    BY DEF NamesOK, OneCurrent, Later
  <2> QED
    BY <2>1, <2>2, <2>3 DEF NamesInv
<1>3. CredsInv
  BY DEF CredsInv, Idle
<1>4. ReceiptsInv
  BY DEF ReceiptsInv
<1>5. KeysInv
  <2>1. 1..made = {}
    BY SMTT(30), SMTT(45)
  <2> QED
    BY <2>1 DEF KeysInv
<1> QED
  BY <1>1, <1>2, <1>3, <1>4, <1>5 DEF IdentityInv

LEMMA StepKeepsTypes == ASSUME IdentityInv, [Next]_vars PROVE TypeOK'
<1> USE DEF IdentityInv
<1>1. ASSUME UNCHANGED vars PROVE TypeOK'
  BY <1>1 DEF vars, tables, TypeOK
<1> QED
  BY <1>1, RegisterType, ProfileType, AdministerType DEF Next

LEMMA IdentityStep == ASSUME IdentityInv, [Next]_vars PROVE IdentityInv'
BY StepKeepsTypes, StepKeepsNames, StepKeepsCreds, StepKeepsReceipts, StepKeepsKeys DEF IdentityInv

(* IdentityInv is inductive: names, credentials, receipts and profile rows *)
(* of the journal (crates/journal-service/src/bootstrap.rs) and of its     *)
(* latest backup stay related under every call, rename and restore.        *)
THEOREM IdentityInvariant == Spec => []IdentityInv
<1>1. Init => IdentityInv
  BY IdentityInit
<1>2. IdentityInv /\ [Next]_vars => IdentityInv'
  BY IdentityStep
<1> QED
  BY <1>1, <1>2, PTL DEF Spec

(* A name of one row has one owner. *)
LEMMA NamedOwner ==
  ASSUME NamesInv, NEW n, NEW p, Named(n, p)
  PROVE  Owner(n) = {p}
<1>1. PICK r \in names : r.name = n /\ r.owner = p
  BY DEF Named
<1>2. \A q \in names : q.name = n => q = r
  BY <1>1 DEF NamesInv, NamesOK
<1> QED
  BY <1>1, <1>2 DEF Owner

LEMMA RegisteredOnceHolds == ASSUME IdentityInv PROVE RegisteredOnce
<1>1. \A r \in told \cap Receipts : r \in receipts /\ Owner(r.handle) = {r.owner}
  BY NamedOwner DEF IdentityInv, ReceiptsInv
<1>2. \A q, r \in receipts : q.token = r.token \/ q.owner = r.owner => q = r
  BY DEF IdentityInv, ReceiptsInv
<1> QED
  BY <1>1, <1>2 DEF RegisteredOnce

(* register answers a repeated call with the principal of the first one,   *)
(* for any number of tokens, names and principals, and whatever was        *)
(* renamed, revoked or restored in between.                                *)
THEOREM RegistersOnce == Spec => []RegisteredOnce
<1>1. IdentityInv => RegisteredOnce
  BY RegisteredOnceHolds
<1> QED
  BY <1>1, IdentityInvariant, PTL

(* update_own_profile makes every revision from exactly one accepted       *)
(* update against the revision before it, for any number of handlers that  *)
(* authenticated before others changed the profile.                        *)
THEOREM UpdatesAreNotLost == Spec => []NoLostUpdate
<1>1. IdentityInv => NoLostUpdate
  BY DEF IdentityInv, KeysInv, NoLostUpdate
<1> QED
  BY <1>1, IdentityInvariant, PTL

(* restore_principal_names brings every backup that was taken to exactly   *)
(* the audited names, and validate_credential_history accepts it.          *)
THEOREM RestoresSucceed == Spec => []BackupsAreRestorable
<1>1. IdentityInv => BackupsAreRestorable
  <2> SUFFICES ASSUME IdentityInv PROVE BackupsAreRestorable
    OBVIOUS
  <2>1. RestoreNames(backup.names, names) = [names |-> names, ok |-> TRUE]
    BY NamesAreRestored DEF IdentityInv, TypeOK, NamesInv
  <2>2. HistoryKnown
    BY DEF IdentityInv, CredsInv, ReceiptsInv, HistoryKnown
  <2> QED
    BY <2>1, <2>2 DEF BackupsAreRestorable
<1> QED
  BY <1>1, IdentityInvariant, PTL

LEMMA OneNameEachHolds == IdentityInv => OneNameEach
<1> SUFFICES ASSUME IdentityInv PROVE OneNameEach
  OBVIOUS
<1> USE DEF IdentityInv
<1>1. ASSUME NEW p \in 1..made
      PROVE  \E row \in names : {r \in names : r.owner = p /\ r.kind = "current"} = {row}
  <2>1. PICK n \in Names : [name |-> n, owner |-> p, kind |-> "current"] \in names
    BY DEF NamesInv
  <2> DEFINE row == [name |-> n, owner |-> p, kind |-> "current"]
  <2>2. {r \in names : r.owner = p /\ r.kind = "current"} = {row}
    BY <2>1, SMTT(30), SMTT(45) DEF NamesInv, NamesOK, OneCurrent
  <2> QED
    BY <2>1, <2>2
<1> QED
  BY <1>1 DEF OneNameEach, NamesInv, NamesOK

(* principal_names: a name that ever named a principal names that          *)
(* principal for ever, and nobody else; a principal has exactly one        *)
(* current name, and a grant of set_membership is for the principal that   *)
(* its selector names, although it is made in two transactions.            *)
THEOREM NamesStay == Spec => NamesArePermanent
<1>1. ASSUME IdentityInv, [Next]_vars
      PROVE  [/\ OneNameEach'
              /\ \A m \in members' : Owner(m.selector)' = {m.owner}
              /\ \A r \in names : \E q \in names' :
                   q.name = r.name /\ q.owner = r.owner /\ (r.kind = "alias" => q.kind = "alias")]_vars
  <2>1. IdentityInv' /\ Later(names, names')
    BY <1>1, IdentityStep, StepKeepsNames
  <2>2. OneNameEach'
    BY <2>1, OneNameEachHolds, PTL
  <2>3. \A m \in members' : Owner(m.selector)' = {m.owner}
    <3>1. ASSUME NEW m \in members'
          PROVE  \E r \in names' : r.name = m.selector /\ r.owner = m.owner
      BY <2>1 DEF IdentityInv, NamesInv, Named
    <3>2. \A q, r \in names' : q.name = r.name => q = r
      BY <2>1 DEF IdentityInv, NamesInv, NamesOK
    <3> QED
      BY <3>1, <3>2 DEF Owner
  <2> QED
    BY <2>1, <2>2, <2>3 DEF Later
<1> QED
  BY <1>1, IdentityInvariant, PTL DEF Spec, NamesArePermanent

(* A credential that was revoked, rotated, replaced or invalidated by      *)
(* restore_security is never in force again nor forgotten, and a profile   *)
(* changes only under a credential in force in the same transaction.       *)
THEOREM RevocationStays == Spec => RevocationIsFinal
<1>1. ASSUME IdentityInv, [Next]_vars
      PROVE  [/\ \A c \in creds : \E d \in creds' :
                   d.id = c.id /\ d.token = c.token /\ d.owner = c.owner /\ (d.live => c.live)
              /\ \A r \in keys' \ keys : \E c \in creds : c.owner = r.owner /\ c.live]_vars
  <2>1. StillKnown(creds, creds')
    BY <1>1, StepKeepsCreds
  <2>2. ASSUME NEW h \in Handlers, UpdateProfile(h), NEW r \in keys' \ keys
        PROVE  \E c \in creds : c.owner = r.owner /\ c.live
    <3>1. r = RowOf(h) /\ r.owner = handler[h].owner
      <4>1. TypeOK
        BY <1>1 DEF IdentityInv
      <4>2. keys' = keys \cup {RowOf(h)} /\ RowOf(h).owner = handler[h].owner
        BY <4>1, <2>2, UpdateEffect
      <4> QED
        BY <4>2
    <3>2. PICK c \in creds : c.id = handler[h].cred /\ c.live
      BY <2>2 DEF UpdateProfile, Authorized
    <3>3. PICK d \in creds : d.id = handler[h].cred /\ d.owner = handler[h].owner
      BY <1>1, <2>2 DEF UpdateProfile, IdentityInv, CredsInv
    <3>4. c = d
      BY <1>1, <3>2, <3>3, SMTT(30), SMTT(45) DEF IdentityInv, CredsInv
    <3> QED
      BY <3>1, <3>2, <3>3, <3>4
  <2>3. keys' # keys => \E h \in Handlers : UpdateProfile(h)
    BY <1>1, StepKeepsKeys
  <2> QED
    BY <2>1, <2>2, <2>3, SMTT(30), SMTT(45) DEF StillKnown
<1> QED
  BY <1>1, IdentityInvariant, PTL DEF Spec, RevocationIsFinal

-----------------------------------------------------------------------------
(* The inductive invariant of Registration *)

(* The secret of a registration was drawn for that file. *)
DrawnFor(content, f) == \E d \in drawn : d.token = content.token /\ d.file = f

Bound(content) ==
  [token |-> content.token, handle |-> content.handle, owner |-> content.owner] \in receipts

(* A run past the lock holds it, and its file is as its last step left it. *)
RunOK(r) ==
  /\ pc[r] # "idle" => lock[at[r]] = r /\ own[r] # NoFile /\ DrawnFor(own[r], at[r])
  /\ pc[r] \in {"publish", "sync", "send", "wait"} => own[r] \in Pending
  /\ pc[r] \in {"complete", "syncdone"} => own[r] \in Completed /\ Bound(own[r])
  /\ pc[r] = "publish" => file[at[r]] = NoFile
  /\ pc[r] \in {"sync", "send", "wait", "complete"} => file[at[r]] = [own[r] EXCEPT !.owner = 0]
  /\ pc[r] = "syncdone" => file[at[r]] = own[r]
  /\ pc[r] \in {"send", "wait"} =>
       \A d \in drawn : d.token = own[r].token /\ ~d.exposed => Holds(disk[at[r]], own[r].token)
  /\ pc[r] = "wait" => [token |-> own[r].token, handle |-> own[r].handle] \in net

(* The holder of a lock is at work on that file; what is on the disk and   *)
(* what is visible are registrations under the same secret.                *)
FileOK(f) ==
  /\ lock[f] # NoRun => pc[lock[f]] # "idle" /\ at[lock[f]] = f
  /\ file[f] # NoFile => DrawnFor(file[f], f)
  /\ disk[f] # NoFile => file[f] # NoFile /\ disk[f].token = file[f].token
  /\ file[f] \in Completed => Bound(file[f])
  /\ disk[f] \in Completed => Bound(disk[f])

(* A secret is sent once it is in its file, for good unless it is exposed. *)
SecretsInv ==
  /\ \A d, e \in drawn : d.token = e.token => d = e
  /\ \A q \in net : \E d \in drawn : d.token = q.token
  /\ \A q \in net, d \in drawn : q.token = d.token /\ ~d.exposed =>
       Holds(file[d.file], d.token) /\ Holds(disk[d.file], d.token)
  /\ \A r \in receipts : \E q \in net : q.token = r.token

ClientInv ==
  /\ RegistrationTypeOK
  /\ \A r \in Runs : RunOK(r)
  /\ \A f \in Files : FileOK(f)
  /\ SecretsInv

RegistrationInv == IdentityInv /\ ClientInv

-----------------------------------------------------------------------------
(* The theorems about Registration *)

Steps == {"idle", "publish", "sync", "send", "wait", "complete", "syncdone"}

LEMMA Contents ==
  /\ NoFile \notin Pending /\ NoFile \notin Completed
  /\ \A c \in Pending : c \notin Completed /\ c.owner = 0 /\ [c EXCEPT !.owner = 0] = c
  /\ \A c \in Pending \cup Completed :
       /\ [c EXCEPT !.owner = 0] \in Pending /\ c # NoFile
       /\ [c EXCEPT !.owner = 0].token = c.token
       /\ c.token \in Tokens /\ c.handle \in Names
  /\ \A c \in Pending \cup Completed, p \in Ids :
       /\ [c EXCEPT !.owner = p] \in Completed
       /\ [c EXCEPT !.owner = p].token = c.token
       /\ [c EXCEPT !.owner = p].handle = c.handle
       /\ [c EXCEPT !.owner = p].owner = p
       /\ [[c EXCEPT !.owner = p] EXCEPT !.owner = 0] = [c EXCEPT !.owner = 0]
<1>1. NoFile \notin Pending /\ NoFile \notin Completed
  BY RegistrationAssumption
<1>2. 0 \notin Ids
  BY ConstantsAssumption, SMTT(30), SMTT(45) DEF Ids
<1> QED
  BY <1>1, <1>2 DEF Pending, Completed

(* The requests the server handles in a step are among those sent, *)
LEMMA ServerStep ==
  ASSUME IdentityInv, ClientInv, [RegistrationNext]_allvars
  PROVE  /\ [Next]_vars
         /\ \A r \in receipts' \ receipts : \E q \in net : q.token = r.token
<1> USE DEF IdentityInv, ClientInv
<1>1. ASSUME NEW q \in net, RegisterNew(q.token, q.handle) \/ RegisterReplay(q.token, q.handle)
      PROVE  /\ Next
             /\ \A r \in receipts' \ receipts : r.token = q.token
  <2>1. q.token \in Tokens /\ q.handle \in Names
    BY DEF RegistrationTypeOK
  <2>2. Next
    BY <1>1, <2>1 DEF Next
  <2>3. \A r \in receipts' \ receipts : r.token = q.token
    <3>1. CASE RegisterNew(q.token, q.handle)
      <4> DEFINE new == [token |-> q.token, handle |-> q.handle, owner |-> made + 1]
      <4>1. receipts' = receipts \cup {new} /\ new.token = q.token
        BY <3>1 DEF RegisterNew
      <4> QED
        BY <4>1
    <3>2. CASE RegisterReplay(q.token, q.handle)
      BY <3>2 DEF RegisterReplay, tables
    <3> QED
      BY <1>1, <3>1, <3>2
  <2> QED
    BY <2>2, <2>3
<1>2. CASE UNCHANGED vars
  BY <1>2 DEF vars, tables
<1>3. ASSUME NEW r \in Runs, CallRegister(r)
      PROVE  \E q \in net : RegisterNew(q.token, q.handle) \/ RegisterReplay(q.token, q.handle)
  <2>1. PICK q \in net : q = [token |-> own[r].token, handle |-> own[r].handle]
    BY <1>3 DEF RunOK, CallRegister
  <2>2. q.token = own[r].token /\ q.handle = own[r].handle
    BY <2>1
  <2> QED
    BY <1>3, <2>2 DEF CallRegister
<1>4. CASE ServeRequest
  BY <1>1, <1>4 DEF ServeRequest
<1>5. CASE Administer
  <2>1. receipts' = receipts
    BY <1>5 DEF Administer, CreatePrincipal, Rotate, Revoke, RecoverPrincipal, ResolveMember,
                SetMembership, Backup, Restore, tables
  <2> QED
    BY <1>5, <2>1 DEF Next
<1>6. ASSUME NEW r \in Runs, Run(r), ~CallRegister(r)
      PROVE  UNCHANGED vars
  BY <1>6 DEF Run, StartRun, WritePending, SyncParent, SyncFails, SendRequest, GiveUp,
              ReplacePending, Kill
<1>7. CASE MachineStops
  BY <1>2, <1>7 DEF MachineStops
<1>8. ASSUME NEW r \in Runs, Run(r)
      PROVE  [Next]_vars /\ \A a \in receipts' \ receipts : \E q \in net : q.token = a.token
  BY <1>1, <1>2, <1>3, <1>6, <1>8
<1> QED
  BY <1>2, <1>4, <1>5, <1>7, <1>8 DEF RegistrationNext, allvars

(* ... and answers tell of receipts. *)
LEMMA AnswerIsBound ==
  ASSUME IdentityInv, IdentityInv', NEW t \in Tokens, NEW n \in Names,
         RegisterNew(t, n) \/ RegisterReplay(t, n)
  PROVE  \E p \in Ids : /\ [token |-> t, handle |-> n, owner |-> p] \in receipts'
                        /\ (CHOOSE a \in receipts' : a.token = t).owner = p
<1>1. \E a \in receipts' : a.token = t /\ a.handle = n
  <2>1. CASE RegisterNew(t, n)
    <3>1. PICK a \in receipts' : a = [token |-> t, handle |-> n, owner |-> made + 1]
      BY <2>1 DEF RegisterNew
    <3> QED
      BY <3>1
  <2>2. CASE RegisterReplay(t, n)
    BY <2>2 DEF RegisterReplay, ReceiptOf, tables
  <2> QED
    BY <2>1, <2>2
<1>2. PICK a \in receipts' : a.token = t /\ a.handle = n
  BY <1>1
<1>3. a \in Receipts /\ a.owner \in Ids
  BY <1>2 DEF IdentityInv, TypeOK, Receipts
<1>4. a = [token |-> t, handle |-> n, owner |-> a.owner]
  BY <1>2, <1>3 DEF Receipts
<1>5. \A b \in receipts' : b.token = t => b = a
  BY <1>2 DEF IdentityInv, ReceiptsInv
<1>6. (CHOOSE b \in receipts' : b.token = t) = a
  BY <1>2, <1>5
<1> QED
  BY <1>2, <1>3, <1>4, <1>6

(* Secrets stay drawn for their files, and stay exposed. *)
DrawnStep ==
  /\ \A d \in drawn : \E e \in drawn' : e.token = d.token /\ e.file = d.file
  /\ \A e \in drawn' :
       \/ \E d \in drawn : d.token = e.token /\ d.file = e.file /\ (~e.exposed => ~d.exposed)
       \/ \A d \in drawn : d.token # e.token

(* A run that takes no step, and whose file nobody touches. *)
LEMMA RunKeeps ==
  ASSUME NEW r \in Runs, RunOK(r), DrawnStep, receipts \subseteq receipts', net \subseteq net',
         pc'[r] = pc[r], at'[r] = at[r], own'[r] = own[r],
         pc[r] # "idle" => /\ lock'[at[r]] = r /\ file'[at[r]] = file[at[r]]
                           /\ disk'[at[r]] = disk[at[r]]
  PROVE  RunOK(r)'
<1>1. CASE pc[r] = "idle"
  BY <1>1 DEF RunOK
<1>2. CASE pc[r] # "idle"
  <2>1. PICK d \in drawn : d.token = own[r].token /\ d.file = at[r]
    BY <1>2 DEF RunOK, DrawnFor
  <2>2. \E e \in drawn' : e.token = own[r].token /\ e.file = at[r]
    <3>1. \E e \in drawn' : e.token = d.token /\ e.file = d.file
      BY DEF DrawnStep
    <3> QED
      BY <2>1, <3>1
  <2>3. ASSUME NEW e \in drawn', e.token = own[r].token, ~e.exposed, pc[r] \in {"send", "wait"}
        PROVE  Holds(disk[at[r]], own[r].token)
    BY <2>1, <2>3, SMTT(30), SMTT(45) DEF DrawnStep, RunOK
  <2> QED
    BY <1>2, <2>2, <2>3 DEF RunOK, DrawnFor, Bound, Holds
<1> QED
  BY <1>1, <1>2

(* A file that nobody touches. *)
LEMMA FileKeeps ==
  ASSUME NEW f \in Files, FileOK(f), DrawnStep, receipts \subseteq receipts',
         file'[f] = file[f], disk'[f] = disk[f],
         lock'[f] # NoRun => pc'[lock'[f]] # "idle" /\ at'[lock'[f]] = f
  PROVE  FileOK(f)'
<1>1. file[f] # NoFile => \E e \in drawn' : e.token = file[f].token /\ e.file = f
  <2> SUFFICES ASSUME file[f] # NoFile
               PROVE  \E e \in drawn' : e.token = file[f].token /\ e.file = f
    OBVIOUS
  <2>1. PICK d \in drawn : d.token = file[f].token /\ d.file = f
    BY DEF FileOK, DrawnFor
  <2>2. PICK e \in drawn' : e.token = d.token /\ e.file = d.file
    BY DEF DrawnStep
  <2> QED
    BY <2>1, <2>2
<1> QED
  BY <1>1 DEF FileOK, DrawnFor, Bound

(* One run acts on one file that no other run is at. *)
LEMMA OneRunActs ==
  ASSUME ClientInv, DrawnStep, receipts \subseteq receipts', net \subseteq net',
         NEW r \in Runs, NEW g \in Files,
         pc[r] # "idle" => at[r] = g,
         \A s \in Runs \ {r} : /\ pc[s] # "idle" => at[s] # g
                               /\ pc'[s] = pc[s] /\ at'[s] = at[s] /\ own'[s] = own[s],
         \A f \in Files \ {g} : file'[f] = file[f] /\ disk'[f] = disk[f] /\ lock'[f] = lock[f],
         RegistrationTypeOK', RunOK(r)', FileOK(g)', SecretsInv'
  PROVE  ClientInv'
<1> USE DEF ClientInv
<1>1. ASSUME NEW s \in Runs \ {r}
      PROVE  RunOK(s)'
  <2>1. pc[s] # "idle" => lock[at[s]] = s /\ at[s] \in Files \ {g}
    BY DEF RunOK, RegistrationTypeOK
  <2> QED
    BY <2>1, RunKeeps
<1>2. ASSUME NEW f \in Files \ {g}
      PROVE  FileOK(f)'
  <2>1. ASSUME lock[f] # NoRun
        PROVE  pc'[lock[f]] # "idle" /\ at'[lock[f]] = f
    <3>1. pc[lock[f]] # "idle" /\ at[lock[f]] = f /\ lock[f] \in Runs
      BY <2>1 DEF FileOK, RegistrationTypeOK
    <3> QED
      BY <3>1
  <2> QED
    BY <2>1, FileKeeps
<1> QED
  BY <1>1, <1>2

(* Where a run is past the lock, it is alone. *)
LEMMA RunIsAlone ==
  ASSUME ClientInv, NEW r \in Runs, pc[r] # "idle", NEW g \in Files, g = at[r]
  PROVE  \A s \in Runs \ {r} : pc[s] # "idle" => at[s] # g
<1>1. \A s \in Runs : pc[s] # "idle" => lock[at[s]] = s
  BY DEF ClientInv, RunOK
<1> QED
  BY <1>1

(* Where nobody holds the lock, nobody is. *)
LEMMA NobodyIsThere ==
  ASSUME ClientInv, NEW f \in Files, lock[f] = NoRun
  PROVE  \A s \in Runs : pc[s] # "idle" => at[s] # f
<1>1. \A s \in Runs : pc[s] # "idle" => lock[at[s]] = s
  BY DEF ClientInv, RunOK
<1> QED
  BY <1>1, RegistrationAssumption

LEMMA DrawnKept == ASSUME drawn' = drawn PROVE DrawnStep
BY DEF DrawnStep

LEMMA FileNext ==
  ASSUME NEW g \in Files,
         lock'[g] # NoRun => pc'[lock'[g]] # "idle" /\ at'[lock'[g]] = g,
         file'[g] # NoFile => \E d \in drawn' : d.token = file'[g].token /\ d.file = g,
         disk'[g] # NoFile => file'[g] # NoFile /\ disk'[g].token = file'[g].token,
         \A c \in Completed : c = file'[g] \/ c = disk'[g] =>
           [token |-> c.token, handle |-> c.handle, owner |-> c.owner] \in receipts'
  PROVE  FileOK(g)'
BY DEF FileOK, DrawnFor, Bound

LEMMA SecretsNext ==
  ASSUME \A d, e \in drawn' : d.token = e.token => d = e,
         \A q \in net' : \E d \in drawn' : d.token = q.token,
         \A q \in net', d \in drawn' : q.token = d.token /\ ~d.exposed =>
           Holds(file'[d.file], d.token) /\ Holds(disk'[d.file], d.token),
         \A a \in receipts' : \E q \in net' : q.token = a.token
  PROVE  SecretsInv'
BY DEF SecretsInv, Holds

LEMMA StartNewKeeps ==
  ASSUME ClientInv, NEW r \in Runs, NEW f \in Files, NEW n \in Names, NEW t \in Tokens,
         pc[r] = "idle", lock[f] = NoRun, file[f] = NoFile,
         \A d \in drawn : d.token # t,
         drawn' = drawn \cup {[token |-> t, file |-> f, exposed |-> FALSE]},
         own' = [own EXCEPT ![r] = [owner |-> 0, token |-> t, handle |-> n]],
         pc' = [pc EXCEPT ![r] = "publish"],
         lock' = [lock EXCEPT ![f] = r], at' = [at EXCEPT ![r] = f],
         UNCHANGED <<receipts, file, disk, net>>
  PROVE  ClientInv'
<1> USE DEF ClientInv
<1> DEFINE new == [token |-> t, file |-> f, exposed |-> FALSE]
           begun == [owner |-> 0, token |-> t, handle |-> n]
<1>1. begun \in Pending /\ begun.token = t /\ begun # NoFile /\ begun \notin Completed
  BY Contents DEF Pending
<1>2. /\ new \in [token : Tokens, file : Files, exposed : BOOLEAN]
      /\ new.token = t /\ new.file = f /\ drawn' = drawn \cup {new}
  OBVIOUS
<1> HIDE DEF new, begun
<1>3. own' = [own EXCEPT ![r] = begun]
  BY DEF begun
<1>4. RegistrationTypeOK'
  <2>1. drawn' \subseteq [token : Tokens, file : Files, exposed : BOOLEAN]
    BY <1>2 DEF RegistrationTypeOK
  <2>2. own' \in [Runs -> Pending \cup Completed \cup {NoFile}]
    BY <1>1, <1>3 DEF RegistrationTypeOK
  <2> QED
    BY <2>1, <2>2 DEF RegistrationTypeOK
<1>5. /\ pc'[r] = "publish" /\ at'[r] = f /\ own'[r] = begun /\ lock'[f] = r
      /\ \A s \in Runs \ {r} : pc'[s] = pc[s] /\ at'[s] = at[s] /\ own'[s] = own[s]
      /\ \A g \in Files \ {f} : lock'[g] = lock[g]
  BY <1>3 DEF RegistrationTypeOK
<1>6. DrawnStep
  BY <1>2 DEF DrawnStep
<1>7. \A s \in Runs \ {r} : pc[s] # "idle" => at[s] # f
  BY NobodyIsThere
<1>8. RunOK(r)'
  BY <1>1, <1>2, <1>5, SMTT(30), SMTT(45) DEF RunOK, DrawnFor
<1>9. FileOK(f)'
  <2>1. disk[f] = NoFile
    BY DEF FileOK
  <2> QED
    BY <2>1, <1>5, Contents DEF FileOK
<1>10. SecretsInv'
  <2>1. \A d, e \in drawn' : d.token = e.token => d = e
    BY <1>2 DEF SecretsInv
  <2>2. \A q \in net : q.token # new.token
    BY <1>2 DEF SecretsInv
  <2>3. \A q \in net' : \E d \in drawn' : d.token = q.token
    BY <1>2 DEF SecretsInv
  <2>4. \A q \in net', d \in drawn' : q.token = d.token /\ ~d.exposed =>
          Holds(file'[d.file], d.token) /\ Holds(disk'[d.file], d.token)
    BY <1>2, <2>2 DEF SecretsInv
  <2>5. \A a \in receipts' : \E q \in net' : q.token = a.token
    BY DEF SecretsInv
  <2> QED
    BY <2>1, <2>3, <2>4, <2>5, SecretsNext
<1> QED
  BY <1>4, <1>5, <1>6, <1>7, <1>8, <1>9, <1>10, OneRunActs

LEMMA TakeUpKeeps ==
  ASSUME ClientInv, NEW r \in Runs, NEW f \in Files,
         pc[r] = "idle", lock[f] = NoRun, file[f] \in Pending,
         drawn' = {[d EXCEPT !.exposed = @ \/ (d.token = file[f].token /\ disk[f] = NoFile)] : d \in drawn},
         own' = [own EXCEPT ![r] = file[f]],
         pc' = [pc EXCEPT ![r] = "send"],
         lock' = [lock EXCEPT ![f] = r], at' = [at EXCEPT ![r] = f],
         UNCHANGED <<receipts, file, disk, net>>
  PROVE  ClientInv'
<1> USE DEF ClientInv
<1> DEFINE lost(d) == d.token = file[f].token /\ disk[f] = NoFile
           After(d) == [d EXCEPT !.exposed = @ \/ lost(d)]
<1>1. ASSUME NEW d \in drawn
      PROVE  /\ After(d) \in [token : Tokens, file : Files, exposed : BOOLEAN]
             /\ After(d).token = d.token /\ After(d).file = d.file
             /\ After(d).exposed <=> d.exposed \/ lost(d)
  BY DEF RegistrationTypeOK
<1>2. drawn' = {After(d) : d \in drawn}
  OBVIOUS
<1> HIDE DEF After
<1>3. RegistrationTypeOK'
  <2>1. drawn' \in SUBSET [token : Tokens, file : Files, exposed : BOOLEAN]
    BY <1>1, <1>2
  <2> QED
    BY <2>1 DEF RegistrationTypeOK
<1>4. /\ pc'[r] = "send" /\ at'[r] = f /\ own'[r] = file[f] /\ lock'[f] = r
      /\ \A s \in Runs \ {r} : pc'[s] = pc[s] /\ at'[s] = at[s] /\ own'[s] = own[s]
      /\ \A g \in Files \ {f} : lock'[g] = lock[g]
  BY DEF RegistrationTypeOK
<1>5. DrawnStep
  BY <1>1, <1>2, SMTT(30), SMTT(45) DEF DrawnStep
<1>6. \A s \in Runs \ {r} : pc[s] # "idle" => at[s] # f
  BY NobodyIsThere
<1>7. file[f] # NoFile /\ [file[f] EXCEPT !.owner = 0] = file[f] /\ file[f] \notin Completed
  BY Contents
<1>8. \E e \in drawn' : e.token = file[f].token /\ e.file = f
  BY <1>1, <1>2, <1>7, SMTT(30), SMTT(45) DEF FileOK, DrawnFor
<1>9. RunOK(r)'
  <2>1. ASSUME NEW e \in drawn', e.token = file[f].token, ~e.exposed
        PROVE  Holds(disk[f], file[f].token)
    <3>1. disk[f] # NoFile
      BY <1>1, <1>2, <2>1, SMTT(30), SMTT(45)
    <3> QED
      BY <3>1 DEF FileOK, Holds
  <2> QED
    BY <1>4, <1>7, <1>8, <2>1, SMTT(30), SMTT(45) DEF RunOK, DrawnFor, Holds
<1>10. FileOK(f)'
  BY <1>4, <1>7, <1>8 DEF FileOK, DrawnFor, Bound
<1>11. SecretsInv'
  <2>1. \A d, e \in drawn' : d.token = e.token => d = e
    BY <1>1, <1>2, SMTT(30), SMTT(45) DEF SecretsInv
  <2>2. \A q \in net' : \E d \in drawn' : d.token = q.token
    BY <1>1, <1>2, SMTT(30), SMTT(45) DEF SecretsInv
  <2>3. \A q \in net', d \in drawn' : q.token = d.token /\ ~d.exposed =>
          Holds(file'[d.file], d.token) /\ Holds(disk'[d.file], d.token)
    BY <1>1, <1>2, SMTT(30), SMTT(45) DEF SecretsInv
  <2>4. \A a \in receipts' : \E q \in net' : q.token = a.token
    BY DEF SecretsInv
  <2> QED
    BY <2>1, <2>2, <2>3, <2>4, SecretsNext
<1> QED
  BY <1>3, <1>4, <1>5, <1>6, <1>9, <1>10, <1>11, OneRunActs

LEMMA WriteKeeps ==
  ASSUME IdentityInv, ClientInv, NEW r \in Runs, WritePending(r)
  PROVE  ClientInv'
<1> USE DEF ClientInv
<1>1. PICK g \in Files : g = at[r]
  BY DEF RegistrationTypeOK
<1>2. /\ pc[r] = "publish" /\ file[g] = NoFile /\ own[r] \in Pending
      /\ file' = [file EXCEPT ![g] = own[r]] /\ pc' = [pc EXCEPT ![r] = "sync"]
      /\ UNCHANGED <<receipts, disk, lock, at, own, net, drawn>>
  BY <1>1 DEF WritePending, RunOK, vars, tables
<1>3. /\ file'[g] = own[r] /\ pc'[r] = "sync" /\ disk[g] = NoFile /\ lock[g] = r
      /\ own[r] # NoFile /\ own[r] \notin Completed /\ [own[r] EXCEPT !.owner = 0] = own[r]
      /\ \E d \in drawn : d.token = own[r].token /\ d.file = g
      /\ \A s \in Runs \ {r} : pc'[s] = pc[s]
      /\ \A f \in Files \ {g} : file'[f] = file[f]
  <2>1. /\ file'[g] = own[r] /\ pc'[r] = "sync"
        /\ \A s \in Runs \ {r} : pc'[s] = pc[s]
        /\ \A f \in Files \ {g} : file'[f] = file[f]
    BY <1>2 DEF RegistrationTypeOK
  <2>2. own[r] # NoFile /\ own[r] \notin Completed /\ [own[r] EXCEPT !.owner = 0] = own[r]
    BY <1>2, Contents
  <2>3. disk[g] = NoFile
    BY <1>2 DEF FileOK
  <2>4. lock[g] = r /\ \E d \in drawn : d.token = own[r].token /\ d.file = g
    BY <1>1, <1>2 DEF RunOK, DrawnFor
  <2> QED
    BY <2>1, <2>2, <2>3, <2>4
<1>4. RegistrationTypeOK'
  BY <1>2 DEF RegistrationTypeOK
<1>5. RunOK(r)'
  BY <1>1, <1>2, <1>3 DEF RunOK, DrawnFor
<1>6. FileOK(g)'
  <2>1. NoFile \notin Completed
    BY Contents
  <2>2. lock'[g] = r /\ pc'[r] # "idle" /\ at'[r] = g /\ disk'[g] = NoFile
    BY <1>1, <1>2, <1>3
  <2>3. \E d \in drawn' : d.token = file'[g].token /\ d.file = g
    BY <1>2, <1>3
  <2> QED
    BY <1>3, <2>1, <2>2, <2>3, FileNext
<1>7. SecretsInv'
  <2>1. \A d \in drawn : d.file \in Files
    BY DEF RegistrationTypeOK
  <2>2. \A q \in net', d \in drawn' : q.token = d.token /\ ~d.exposed =>
          Holds(file'[d.file], d.token) /\ Holds(disk'[d.file], d.token)
    BY <1>2, <1>3, <2>1, SMTT(30), SMTT(45) DEF SecretsInv, Holds
  <2> QED
    BY <1>2, <2>2, SecretsNext DEF SecretsInv
<1> QED
  BY <1>1, <1>2, <1>3, <1>4, <1>5, <1>6, <1>7, DrawnKept, RunIsAlone, OneRunActs, SMTT(30), SMTT(45)

(* A run that ends leaves its file as it is, or synced. *)
LEMMA LeaveKeeps ==
  ASSUME ClientInv, NEW r \in Runs, pc[r] # "idle", Leave(r), NEW g \in Files, g = at[r],
         disk' \in {disk, [disk EXCEPT ![g] = file[g]]},
         UNCHANGED <<receipts, file, at, own, net, drawn>>
  PROVE  ClientInv'
<1> USE DEF ClientInv
<1>1. /\ pc'[r] = "idle" /\ lock'[g] = NoRun /\ disk'[g] \in {disk[g], file[g]}
      /\ \A s \in Runs \ {r} : pc'[s] = pc[s]
      /\ \A f \in Files \ {g} : disk'[f] = disk[f] /\ lock'[f] = lock[f]
  BY SMTT(30), SMTT(45) DEF Leave, RegistrationTypeOK
<1>2. RegistrationTypeOK'
  BY DEF Leave, RegistrationTypeOK
<1>3. RunOK(r)'
  BY <1>1 DEF RunOK
<1>4. FileOK(g)'
  BY <1>1 DEF FileOK, DrawnFor, Bound
<1>5. SecretsInv'
  <2>1. \A d \in drawn : d.file \in Files
    BY DEF RegistrationTypeOK
  <2>2. \A q \in net', d \in drawn' : q.token = d.token /\ ~d.exposed =>
          Holds(file'[d.file], d.token) /\ Holds(disk'[d.file], d.token)
    <3> SUFFICES ASSUME NEW q \in net, NEW d \in drawn, q.token = d.token, ~d.exposed
                 PROVE  Holds(file[d.file], d.token) /\ Holds(disk'[d.file], d.token)
      OBVIOUS
    <3>1. Holds(file[d.file], d.token) /\ Holds(disk[d.file], d.token)
      BY DEF SecretsInv
    <3>2. disk'[d.file] \in {disk[d.file], file[d.file]}
      BY <1>1, <2>1
    <3> QED
      BY <3>1, <3>2
  <2> QED
    BY <2>2, SecretsNext DEF SecretsInv
<1>6. DrawnStep /\ \A s \in Runs \ {r} : pc[s] # "idle" => at[s] # g
  BY DrawnKept, RunIsAlone
<1> QED
  BY <1>1, <1>2, <1>3, <1>4, <1>5, <1>6, OneRunActs

LEMMA SyncKeeps ==
  ASSUME ClientInv, NEW r \in Runs, SyncParent(r)
  PROVE  ClientInv'
<1> USE DEF ClientInv
<1>1. PICK g \in Files : g = at[r]
  BY DEF RegistrationTypeOK
<1>2. CASE pc[r] = "syncdone"
  BY <1>1, <1>2, LeaveKeeps DEF SyncParent, vars, tables
<1>3. CASE pc[r] = "sync"
  <2>1. /\ disk' = [disk EXCEPT ![g] = file[g]] /\ pc' = [pc EXCEPT ![r] = "send"]
        /\ UNCHANGED <<receipts, file, lock, at, own, net, drawn>>
        /\ own[r] \in Pending /\ file[g] = [own[r] EXCEPT !.owner = 0] /\ lock[g] = r
        /\ \E d \in drawn : d.token = own[r].token /\ d.file = g
    BY <1>1, <1>3 DEF SyncParent, RunOK, DrawnFor, vars, tables
  <2>2. /\ disk'[g] = file[g] /\ pc'[r] = "send" /\ file[g] = own[r] /\ own[r] # NoFile
        /\ \A s \in Runs \ {r} : pc'[s] = pc[s]
        /\ \A f \in Files \ {g} : disk'[f] = disk[f]
    <3>1. file[g] = own[r] /\ own[r] # NoFile
      BY <2>1, Contents
    <3> QED
      BY <2>1, <3>1 DEF RegistrationTypeOK
  <2>3. RegistrationTypeOK'
    BY <2>1 DEF RegistrationTypeOK
  <2>4. RunOK(r)'
    BY <1>1, <2>1, <2>2 DEF RunOK, DrawnFor, Holds
  <2>5. FileOK(g)'
    <3>1. own[r] \notin Completed
      BY <2>1, Contents
    <3> QED
      BY <1>1, <2>1, <2>2, <3>1, FileNext, SMTT(30), SMTT(45)
  <2>6. SecretsInv'
    <3>1. \A d \in drawn : d.file \in Files
      BY DEF RegistrationTypeOK
    <3>2. \A q \in net', d \in drawn' : q.token = d.token /\ ~d.exposed =>
            Holds(file'[d.file], d.token) /\ Holds(disk'[d.file], d.token)
      BY <2>1, <2>2, <3>1, SMTT(30), SMTT(45) DEF SecretsInv, Holds
    <3> QED
      BY <2>1, <3>2, SecretsNext DEF SecretsInv
  <2> QED
    BY <1>1, <1>3, <2>1, <2>2, <2>3, <2>4, <2>5, <2>6, DrawnKept, RunIsAlone, OneRunActs, SMTT(30), SMTT(45)
<1> QED
  BY <1>2, <1>3 DEF SyncParent

LEMMA SendKeeps ==
  ASSUME ClientInv, NEW r \in Runs, SendRequest(r)
  PROVE  ClientInv'
<1> USE DEF ClientInv
<1>1. PICK g \in Files : g = at[r]
  BY DEF RegistrationTypeOK
<1> DEFINE new == [token |-> own[r].token, handle |-> own[r].handle]
<1>2. /\ pc[r] = "send" /\ net' = net \cup {new} /\ pc' = [pc EXCEPT ![r] = "wait"]
      /\ UNCHANGED <<receipts, file, disk, lock, at, own, drawn>>
  BY DEF SendRequest, vars, tables
<1>3. /\ own[r] \in Pending /\ file[g] = [own[r] EXCEPT !.owner = 0] /\ lock[g] = r
      /\ \A d \in drawn : d.token = own[r].token /\ ~d.exposed => Holds(disk[g], own[r].token)
  BY <1>1, <1>2 DEF RunOK
<1>4. /\ own[r].token \in Tokens /\ own[r].handle \in Names
      /\ file[g] = own[r] /\ own[r] # NoFile
  BY <1>3, Contents
<1>5. new \in [token : Tokens, handle : Names] /\ new.token = own[r].token
  BY <1>4
<1> HIDE DEF new
<1>6. RegistrationTypeOK'
  BY <1>2, <1>5 DEF RegistrationTypeOK
<1>7. pc'[r] = "wait" /\ \A s \in Runs \ {r} : pc'[s] = pc[s]
  BY <1>2 DEF RegistrationTypeOK
<1>8. PICK d0 \in drawn : d0.token = own[r].token /\ d0.file = g
  BY <1>1, <1>2 DEF RunOK, DrawnFor
<1>9. RunOK(r)'
  BY <1>1, <1>2, <1>3, <1>4, <1>7 DEF RunOK, DrawnFor, Holds, new
<1>10. FileOK(g)'
  <2>1. DrawnStep
    BY <1>2, DrawnKept
  <2>2. lock'[g] = r /\ pc'[r] # "idle" /\ at'[r] = g
    BY <1>1, <1>2, <1>3, <1>7
  <2> QED
    BY <1>2, <2>1, <2>2, FileKeeps
<1>11. SecretsInv'
  <2>1. \A d \in drawn : d.token = own[r].token => d = d0
    BY <1>8 DEF SecretsInv
  <2>2. ASSUME NEW d \in drawn, d.token = own[r].token, ~d.exposed
        PROVE  Holds(file[d.file], d.token) /\ Holds(disk[d.file], d.token)
    BY <1>3, <1>4, <1>8, <2>1, <2>2 DEF Holds
  <2>3. \A q \in net', d \in drawn' : q.token = d.token /\ ~d.exposed =>
          Holds(file'[d.file], d.token) /\ Holds(disk'[d.file], d.token)
    BY <1>2, <1>5, <2>2 DEF SecretsInv
  <2>4. \A q \in net' : \E d \in drawn' : d.token = q.token
    BY <1>2, <1>5, <1>8 DEF SecretsInv
  <2>5. /\ \A d, e \in drawn' : d.token = e.token => d = e
        /\ \A a \in receipts' : \E q \in net' : q.token = a.token
    BY <1>2 DEF SecretsInv
  <2> QED
    BY <2>3, <2>4, <2>5, SecretsNext
<1> QED
  BY <1>1, <1>2, <1>6, <1>7, <1>9, <1>10, <1>11, DrawnKept, RunIsAlone, OneRunActs

LEMMA CallKeeps ==
  ASSUME IdentityInv, IdentityInv', receipts \subseteq receipts', ClientInv,
         NEW r \in Runs, CallRegister(r),
         \A a \in receipts' \ receipts : \E q \in net : q.token = a.token
  PROVE  ClientInv'
<1> USE DEF ClientInv
<1>1. PICK g \in Files : g = at[r]
  BY DEF RegistrationTypeOK
<1>2. PICK t \in Tokens, n \in Names : t = own[r].token /\ n = own[r].handle
  BY Contents DEF CallRegister, RunOK
<1>3. /\ pc[r] = "wait" /\ pc' = [pc EXCEPT ![r] = "complete"]
      /\ own' = [own EXCEPT ![r].owner = (CHOOSE a \in receipts' : a.token = t).owner]
      /\ RegisterNew(t, n) \/ RegisterReplay(t, n)
      /\ UNCHANGED <<file, disk, lock, at, net, drawn>>
  BY <1>2 DEF CallRegister
<1>4. PICK p \in Ids : /\ [token |-> t, handle |-> n, owner |-> p] \in receipts'
                       /\ (CHOOSE a \in receipts' : a.token = t).owner = p
  BY <1>3, AnswerIsBound
<1>5. /\ own[r] \in Pending /\ file[g] = [own[r] EXCEPT !.owner = 0] /\ lock[g] = r
      /\ \E d \in drawn : d.token = own[r].token /\ d.file = g
  BY <1>1, <1>3 DEF RunOK, DrawnFor
<1>6. PICK done \in Completed : done = [own[r] EXCEPT !.owner = p]
  BY <1>5, Contents
<1>7. /\ done.token = t /\ done.handle = n /\ done.owner = p /\ done # NoFile
      /\ [done EXCEPT !.owner = 0] = [own[r] EXCEPT !.owner = 0]
  <2>1. done # NoFile
    BY Contents
  <2>2. done.token = t /\ done.handle = n /\ done.owner = p
    BY <1>2, <1>5, <1>6 DEF Pending
  <2>3. [done EXCEPT !.owner = 0] = [own[r] EXCEPT !.owner = 0]
    BY <1>5, <1>6 DEF Pending
  <2> QED
    BY <2>1, <2>2, <2>3
<1>8. own' = [own EXCEPT ![r] = done]
  BY <1>3, <1>4, <1>6 DEF RegistrationTypeOK
<1>9. RegistrationTypeOK'
  BY <1>3, <1>8 DEF RegistrationTypeOK
<1>10. /\ pc'[r] = "complete" /\ own'[r] = done
       /\ \A s \in Runs \ {r} : pc'[s] = pc[s] /\ own'[s] = own[s]
  BY <1>3, <1>8 DEF RegistrationTypeOK
<1>11. RunOK(r)'
  <2>1. at'[r] = g /\ lock'[g] = r /\ file'[g] = [done EXCEPT !.owner = 0]
    BY <1>1, <1>3, <1>5, <1>7
  <2>2. \E d \in drawn' : d.token = done.token /\ d.file = g
    BY <1>2, <1>3, <1>5, <1>7
  <2>3. [token |-> done.token, handle |-> done.handle, owner |-> done.owner] \in receipts'
    BY <1>4, <1>7
  <2> QED
    BY <1>7, <1>10, <2>1, <2>2, <2>3 DEF RunOK, DrawnFor, Bound
<1>12. DrawnStep
  BY <1>3, DrawnKept
<1>13. FileOK(g)'
  <2>1. lock'[g] = r /\ pc'[r] # "idle" /\ at'[r] = g
    BY <1>1, <1>3, <1>5, <1>10
  <2> QED
    BY <1>3, <1>12, <2>1, FileKeeps
<1>14. SecretsInv'
  BY <1>3, SecretsNext DEF SecretsInv
<1> QED
  BY <1>1, <1>3, <1>9, <1>10, <1>11, <1>12, <1>13, <1>14, RunIsAlone, OneRunActs

LEMMA ReplaceKeeps ==
  ASSUME ClientInv, NEW r \in Runs, ReplacePending(r)
  PROVE  ClientInv'
<1> USE DEF ClientInv
<1>1. PICK g \in Files : g = at[r]
  BY DEF RegistrationTypeOK
<1>2. /\ pc[r] = "complete" /\ file[g] = [own[r] EXCEPT !.owner = 0]
      /\ file' = [file EXCEPT ![g] = own[r]] /\ pc' = [pc EXCEPT ![r] = "syncdone"]
      /\ UNCHANGED <<receipts, disk, lock, at, own, net, drawn>>
  BY <1>1 DEF ReplacePending, vars, tables
<1>3. /\ own[r] \in Completed /\ Bound(own[r]) /\ lock[g] = r
      /\ \E d \in drawn : d.token = own[r].token /\ d.file = g
  BY <1>1, <1>2 DEF RunOK, DrawnFor
<1>4. own[r] # NoFile /\ file[g].token = own[r].token /\ file[g] # NoFile
  <2>1. own[r] # NoFile /\ file[g] \in Pending
    <3>1. file[g] \in Pending
      BY <1>2, <1>3 DEF Completed, Pending
    <3> QED
      BY <1>3, <3>1, Contents
  <2>2. file[g].token = own[r].token
    BY <1>2, <1>3 DEF Completed
  <2> QED
    BY <2>1, <2>2, Contents
<1>5. /\ file'[g] = own[r] /\ pc'[r] = "syncdone"
      /\ \A s \in Runs \ {r} : pc'[s] = pc[s]
      /\ \A f \in Files \ {g} : file'[f] = file[f]
  BY <1>2 DEF RegistrationTypeOK
<1>6. RegistrationTypeOK'
  BY <1>2, <1>3 DEF RegistrationTypeOK
<1>7. RunOK(r)'
  BY <1>1, <1>2, <1>3, <1>4, <1>5 DEF RunOK, DrawnFor, Bound
<1>8. FileOK(g)'
  <2>1. lock'[g] = r /\ pc'[r] # "idle" /\ at'[r] = g
    BY <1>1, <1>2, <1>3, <1>5
  <2>2. disk'[g] # NoFile => disk'[g].token = file'[g].token
    BY <1>2, <1>4, <1>5 DEF FileOK
  <2>3. \E d \in drawn' : d.token = file'[g].token /\ d.file = g
    BY <1>2, <1>3, <1>5
  <2>4. \A c \in Completed : c = file'[g] \/ c = disk'[g] =>
          [token |-> c.token, handle |-> c.handle, owner |-> c.owner] \in receipts'
    BY <1>2, <1>3, <1>5 DEF FileOK, Bound
  <2> QED
    BY <1>4, <1>5, <2>1, <2>2, <2>3, <2>4, FileNext
<1>9. SecretsInv'
  <2>1. \A d \in drawn : d.file \in Files
    BY DEF RegistrationTypeOK
  <2>2. \A q \in net', d \in drawn' : q.token = d.token /\ ~d.exposed =>
          Holds(file'[d.file], d.token) /\ Holds(disk'[d.file], d.token)
    <3>1. \A f \in Files, t \in Tokens : Holds(file[f], t) => Holds(file'[f], t)
      BY <1>4, <1>5 DEF Holds
    <3>2. \A d \in drawn : d.token \in Tokens
      BY DEF RegistrationTypeOK
    <3> QED
      BY <1>2, <2>1, <3>1, <3>2 DEF SecretsInv
  <2> QED
    BY <1>2, <2>2, SecretsNext DEF SecretsInv
<1> QED
  BY <1>1, <1>2, <1>5, <1>6, <1>7, <1>8, <1>9, DrawnKept, RunIsAlone, OneRunActs

LEMMA StopKeeps ==
  ASSUME ClientInv, MachineStops
  PROVE  ClientInv'
<1> USE DEF ClientInv
<1>1. /\ file' \in [Files -> {file[f] : f \in Files} \cup {disk[f] : f \in Files}]
      /\ \A f \in Files : file'[f] \in {file[f], disk[f]}
      /\ disk' = file'
      /\ pc' = [r \in Runs |-> "idle"] /\ lock' = [f \in Files |-> NoRun]
      /\ UNCHANGED <<receipts, at, own, net, drawn>>
  BY DEF MachineStops, vars, tables
<1>2. RegistrationTypeOK'
  <2>1. /\ {file[f] : f \in Files} \subseteq {NoFile} \cup Pending \cup Completed
        /\ {disk[f] : f \in Files} \subseteq {NoFile} \cup Pending \cup Completed
    BY DEF RegistrationTypeOK
  <2>2. file' \in [Files -> {NoFile} \cup Pending \cup Completed]
    BY <1>1, <2>1
  <2> QED
    BY <1>1, <2>2 DEF RegistrationTypeOK
<1>3. ASSUME NEW r \in Runs
      PROVE  RunOK(r)'
  BY <1>1 DEF RunOK
<1>4. ASSUME NEW f \in Files
      PROVE  FileOK(f)'
  <2>1. file'[f] # NoFile => \E d \in drawn : d.token = file'[f].token /\ d.file = f
    BY <1>1, SMTT(30), SMTT(45) DEF FileOK, DrawnFor
  <2>2. \A c \in Completed : c = file'[f] =>
          [token |-> c.token, handle |-> c.handle, owner |-> c.owner] \in receipts'
    <3>1. /\ file[f] \in Completed => Bound(file[f])
          /\ disk[f] \in Completed => Bound(disk[f])
      BY DEF FileOK
    <3> QED
      BY <1>1, <3>1 DEF Bound
  <2>3. lock'[f] = NoRun
    BY <1>1
  <2> QED
    BY <1>1, <2>1, <2>2, <2>3, FileNext
<1>5. SecretsInv'
  <2>1. \A d \in drawn : d.file \in Files
    BY DEF RegistrationTypeOK
  <2>2. \A q \in net', d \in drawn' : q.token = d.token /\ ~d.exposed =>
          Holds(file'[d.file], d.token) /\ Holds(disk'[d.file], d.token)
    BY <1>1, <2>1 DEF SecretsInv
  <2> QED
    BY <1>1, <2>2, SecretsNext DEF SecretsInv
<1> QED
  BY <1>2, <1>3, <1>4, <1>5

(* The server acts, and no client does. *)
LEMMA ServerKeeps ==
  ASSUME ClientInv, receipts \subseteq receipts', UNCHANGED client,
         \A a \in receipts' \ receipts : \E q \in net : q.token = a.token
  PROVE  ClientInv'
<1> USE DEF ClientInv
<1>1. UNCHANGED <<file, disk, lock, pc, at, own, net, drawn>>
  BY DEF client
<1>2. RegistrationTypeOK'
  BY <1>1 DEF RegistrationTypeOK
<1>3. DrawnStep
  BY <1>1, DrawnKept
<1>4. ASSUME NEW r \in Runs
      PROVE  RunOK(r)'
  <2>1. pc[r] # "idle" => lock[at[r]] = r
    BY DEF RunOK
  <2> QED
    BY <1>1, <1>3, <2>1, RunKeeps
<1>5. ASSUME NEW f \in Files
      PROVE  FileOK(f)'
  <2>1. lock[f] # NoRun => pc[lock[f]] # "idle" /\ at[lock[f]] = f
    BY DEF FileOK
  <2> QED
    BY <1>1, <1>3, <2>1, FileKeeps
<1>6. SecretsInv'
  BY <1>1, SecretsNext DEF SecretsInv
<1> QED
  BY <1>2, <1>4, <1>5, <1>6

LEMMA RegistrationStep ==
  ASSUME RegistrationInv, [RegistrationNext]_allvars
  PROVE  RegistrationInv'
<1> USE DEF RegistrationInv
<1>1. /\ [Next]_vars
      /\ \A a \in receipts' \ receipts : \E q \in net : q.token = a.token
  BY ServerStep
<1>2. IdentityInv' /\ receipts \subseteq receipts'
  BY <1>1, IdentityStep, StepKeepsReceipts
<1>3. ASSUME NEW r \in Runs, NEW f \in Files, NEW n \in Asked, StartRun(r, f, n)
      PROVE  ClientInv'
  <2>1. n \in Names
    BY RegistrationAssumption DEF Names
  <2>2. UNCHANGED <<receipts, file, disk, net>>
    BY <1>3 DEF StartRun, vars, tables
  <2> QED
    BY <1>3, <2>1, <2>2, StartNewKeeps, TakeUpKeeps DEF StartRun
<1>4. ASSUME NEW r \in Runs, SyncFails(r) \/ GiveUp(r) \/ Kill(r)
      PROVE  ClientInv'
  <2>1. PICK g \in Files : g = at[r]
    BY DEF ClientInv, RegistrationTypeOK
  <2>2. pc[r] # "idle" /\ Leave(r) /\ disk' = disk /\ UNCHANGED <<receipts, file, at, own, net, drawn>>
    BY <1>4 DEF SyncFails, GiveUp, Kill, vars, tables
  <2> QED
    BY <2>1, <2>2, LeaveKeeps
<1>5. ASSUME NEW r \in Runs, Run(r)
      PROVE  ClientInv'
  BY <1>1, <1>2, <1>3, <1>4, <1>5, WriteKeeps, SyncKeeps, SendKeeps, CallKeeps, ReplaceKeeps DEF Run
<1>6. CASE UNCHANGED client
  BY <1>1, <1>2, <1>6, ServerKeeps
<1>7. ClientInv'
  BY <1>5, <1>6, StopKeeps DEF RegistrationNext, ServeRequest, allvars
<1> QED
  BY <1>2, <1>7

LEMMA RegistrationStarts == RegistrationInit => RegistrationInv
<1> SUFFICES ASSUME RegistrationInit PROVE RegistrationInv
  OBVIOUS
<1> USE DEF RegistrationInit
<1>1. IdentityInv
  BY IdentityInit
<1>2. (CHOOSE f \in Files : TRUE) \in Files
  BY RegistrationAssumption
<1>3. RegistrationTypeOK
  BY <1>2 DEF RegistrationTypeOK
<1>4. ASSUME NEW r \in Runs PROVE RunOK(r)
  BY DEF RunOK
<1>5. ASSUME NEW f \in Files PROVE FileOK(f)
  BY Contents DEF FileOK
<1>6. SecretsInv
  BY DEF SecretsInv, Init
<1> QED
  BY <1>1, <1>3, <1>4, <1>5, <1>6 DEF RegistrationInv, ClientInv

(* RegistrationInv is inductive: the locks of crates/aj/src/lib.rs and the *)
(* order of its writes, syncs and requests tie what runs, files and disk   *)
(* hold to what the server has bound.                                      *)
THEOREM RegistrationInvariant == RegistrationSafety => []RegistrationInv
<1>1. RegistrationInit => RegistrationInv
  BY RegistrationStarts
<1>2. RegistrationInv /\ [RegistrationNext]_allvars => RegistrationInv'
  BY RegistrationStep
<1> QED
  BY <1>1, <1>2, PTL DEF RegistrationSafety

(* The service that aj register talks to is the one of module Identity:    *)
(* its clients, however they fail, take no step that Identity does not.    *)
THEOREM RegistrationUsesIdentity == RegistrationSafety => Spec
<1>1. RegistrationInit => Init
  BY DEF RegistrationInit
<1>2. RegistrationInv /\ [RegistrationNext]_allvars => [Next]_vars
  BY ServerStep DEF RegistrationInv
<1> QED
  BY <1>1, <1>2, RegistrationInvariant, PTL DEF RegistrationSafety, Spec

(* aj register: a secret that the server bound is in the file it was drawn *)
(* for, through kills, failed syncs and stops of the machine, unless a run *)
(* took the file up before it was synced.                                  *)
THEOREM SecretsAreKept == RegistrationSafety => []SecretIsKept
<1>1. RegistrationInv => SecretIsKept
  BY SMTT(30), SMTT(45) DEF RegistrationInv, ClientInv, SecretsInv, SecretIsKept
<1> QED
  BY <1>1, RegistrationInvariant, PTL

(* aj register makes at most one principal for a state file, and the       *)
(* identity in a completed file is the one that the server bound.          *)
THEOREM OneIdentity == RegistrationSafety => []OneIdentityPerFile
<1>1. RegistrationInv => OneIdentityPerFile
  <2> SUFFICES ASSUME RegistrationInv PROVE OneIdentityPerFile
    OBVIOUS
  <2> USE DEF RegistrationInv, ClientInv
  <2>1. \A f \in Files : file[f] \in Completed => Bound(file[f])
    BY DEF FileOK
  <2>2. ASSUME NEW q \in receipts, NEW r \in receipts, NEW d \in drawn, NEW e \in drawn,
               q.token = d.token, r.token = e.token, d.file = e.file, ~d.exposed, ~e.exposed
        PROVE  q = r
    <3>1. Holds(file[d.file], d.token) /\ Holds(file[e.file], e.token)
      BY <2>2, SMTT(30), SMTT(45) DEF SecretsInv
    <3>2. q.token = r.token
      BY <2>2, <3>1 DEF Holds
    <3> QED
      BY <3>2 DEF IdentityInv, ReceiptsInv
  <2> QED
    BY <2>1, <2>2 DEF OneIdentityPerFile, Bound
<1> QED
  BY <1>1, RegistrationInvariant, PTL
=============================================================================
