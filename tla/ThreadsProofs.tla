---------------------------- MODULE ThreadsProofs ---------------------------
(***************************************************************************)
(* Proofs about Threads, for any number of records, any limits and any     *)
(* graph of replies, whole or damaged.                                     *)
(***************************************************************************)
EXTENDS Threads, FunctionTheorems, FiniteSetTheorems, SequenceTheorems, TLAPS

(* The time a leaf may take on a busy machine; a leaf with arithmetic has *)
(* a second attempt.                                                      *)
USE ZenonT(60)

-----------------------------------------------------------------------------
(* Climbing in a graph *)

(* Up, in any graph. *)
UpIn(par, r, k) ==
  LET up[i \in 0..k] == IF i = 0 THEN r ELSE IF up[i - 1] \in Ids THEN par[up[i - 1]] ELSE 0
  IN up[k]

IsClimb(par, r, k, f) ==
  f = [i \in 0..k |-> IF i = 0 THEN r ELSE IF f[i - 1] \in Ids THEN par[f[i - 1]] ELSE 0]

LEMMA LeastNumber ==
  ASSUME NEW T \in SUBSET Nat, T # {}
  PROVE  \E x \in T : \A y \in T : x <= y
<1> DEFINE R == OpToRel(<, Nat)
<1>1. IsWellFoundedOn(R, Nat)
  BY NatLessThanWellFounded
<1>2. \A x, y \in Nat : <<y, x>> \in R <=> y < x
  BY DEF OpToRel
<1> HIDE DEF R
<1>3. PICK x \in T : \A y \in T : ~ (<<y, x>> \in R)
  BY <1>1, WFMin
<1>4. ASSUME NEW y \in T
      PROVE  x <= y
  <2>1. x \in Nat /\ y \in Nat /\ ~ (<<y, x>> \in R)
    BY <1>3
  <2>2. ~ (y < x)
    BY <1>2, <2>1
  <2> QED
    BY <2>1, <2>2, SMTT(30), SMTT(45)
<1> QED
  BY <1>4

(* A set of numbers that holds 0 and, with each number, the next one. *)
LEMMA AllNumbers ==
  ASSUME NEW T, 0 \in T, \A n \in Nat : n \in T => n + 1 \in T
  PROVE  \A n \in Nat : n \in T
<1> DEFINE W == Nat \ T
<1> SUFFICES ASSUME W # {}  PROVE FALSE
  OBVIOUS
<1>1. PICK x \in W : \A y \in W : x <= y
  BY LeastNumber
<1>2. x # 0 /\ x \in Nat
  OBVIOUS
<1>3. x - 1 \in Nat /\ (x - 1) + 1 = x /\ ~ (x <= x - 1)
  BY <1>2, SMTT(30), SMTT(45)
<1>4. x - 1 \in T
  BY <1>1, <1>3
<1> QED
  BY <1>3, <1>4

LEMMA ClimbExists ==
  ASSUME NEW par, NEW r, NEW k \in Nat
  PROVE  \E f : IsClimb(par, r, k, f)
<1> DEFINE T == {n \in Nat : \E f : IsClimb(par, r, n, f)}
<1>1. 0 \in T
  <2> DEFINE f == [i \in 0..0 |-> r]
  <2>1. IsClimb(par, r, 0, f)
    BY SMTT(30), SMTT(45) DEF IsClimb
  <2> QED
    BY <2>1, SMTT(30), SMTT(45)
<1>2. ASSUME NEW n \in Nat, n \in T  PROVE n + 1 \in T
  <2>1. PICK f : IsClimb(par, r, n, f)
    BY <1>2
  <2> DEFINE g == [i \in 0..(n + 1) |-> IF i = n + 1 THEN IF f[n] \in Ids THEN par[f[n]] ELSE 0 ELSE f[i]]
  <2>2. ASSUME NEW i \in 0..(n + 1)
        PROVE  g[i] = IF i = 0 THEN r ELSE IF g[i - 1] \in Ids THEN par[g[i - 1]] ELSE 0
    <3>1. CASE i = n + 1
      <4>1. g[i] = (IF f[n] \in Ids THEN par[f[n]] ELSE 0) /\ i # 0 /\ g[i - 1] = f[n]
        BY <3>1, SMTT(30), SMTT(45)
      <4> QED
        BY <4>1
    <3>2. CASE i # n + 1
      <4>1. i \in 0..n /\ g[i] = f[i] /\ (i # 0 => g[i - 1] = f[i - 1])
        BY <3>2, SMTT(30), SMTT(45)
      <4>2. f[i] = IF i = 0 THEN r ELSE IF f[i - 1] \in Ids THEN par[f[i - 1]] ELSE 0
        BY <2>1, <4>1 DEF IsClimb
      <4> QED
        BY <4>1, <4>2
    <3> QED
      BY <3>1, <3>2
  <2>3. IsClimb(par, r, n + 1, g)
    BY <2>2, SMTT(30), SMTT(45) DEF IsClimb
  <2> QED
    BY <2>3, SMTT(30), SMTT(45)
<1>3. k \in T
  <2> HIDE DEF T
  <2> QED
    BY <1>1, <1>2, AllNumbers
<1> QED
  BY <1>3

LEMMA ClimbIsUnique ==
  ASSUME NEW par, NEW r, NEW k \in Nat, NEW m \in Nat, k <= m, NEW f, NEW g,
         IsClimb(par, r, k, f), IsClimb(par, r, m, g)
  PROVE  f[k] = g[k]
<1> DEFINE T == {i \in Nat : i <= k => f[i] = g[i]}
<1>1. 0 \in T
  BY SMTT(30), SMTT(45) DEF IsClimb
<1>2. ASSUME NEW i \in Nat, i \in T  PROVE i + 1 \in T
  <2>1. CASE i + 1 <= k
    <3>1. i + 1 \in 0..k /\ i + 1 \in 0..m /\ i + 1 # 0 /\ (i + 1) - 1 = i /\ f[i] = g[i]
      BY <1>2, <2>1, SMTT(30), SMTT(45)
    <3> QED
      BY <3>1, SMTT(30), SMTT(45) DEF IsClimb
  <2> QED
    BY <2>1, SMTT(30), SMTT(45)
<1>3. k \in T
  BY <1>1, <1>2, AllNumbers
<1> QED
  BY <1>3, SMTT(30), SMTT(45)

LEMMA UpIsClimb ==
  ASSUME NEW par, NEW r, NEW k \in Nat
  PROVE  \E f : IsClimb(par, r, k, f) /\ UpIn(par, r, k) = f[k]
<1> DEFINE f == CHOOSE f : IsClimb(par, r, k, f)
<1>1. IsClimb(par, r, k, f)
  BY ClimbExists
<1>2. UpIn(par, r, k) = f[k]
  BY DEF UpIn, IsClimb
<1> QED
  BY <1>1, <1>2

(* What Up computes. *)
LEMMA UpStart ==
  ASSUME NEW par, NEW r
  PROVE  UpIn(par, r, 0) = r
<1>1. PICK f : IsClimb(par, r, 0, f) /\ UpIn(par, r, 0) = f[0]
  BY UpIsClimb
<1> QED
  BY <1>1, SMTT(30), SMTT(45) DEF IsClimb

LEMMA UpNext ==
  ASSUME NEW par, NEW r, NEW k \in Nat
  PROVE  UpIn(par, r, k + 1) = IF UpIn(par, r, k) \in Ids THEN par[UpIn(par, r, k)] ELSE 0
<1>1. PICK f : IsClimb(par, r, k, f) /\ UpIn(par, r, k) = f[k]
  BY UpIsClimb
<1>2. PICK g : IsClimb(par, r, k + 1, g) /\ UpIn(par, r, k + 1) = g[k + 1]
  BY UpIsClimb, SMTT(30), SMTT(45)
<1>3. f[k] = g[k]
  BY <1>1, <1>2, ClimbIsUnique, SMTT(30), SMTT(45)
<1>4. k + 1 \in 0..(k + 1) /\ k + 1 # 0 /\ (k + 1) - 1 = k
  BY SMTT(30), SMTT(45)
<1>5. g[k + 1] = IF g[k] \in Ids THEN par[g[k]] ELSE 0
  BY <1>2, <1>4, SMTT(30), SMTT(45) DEF IsClimb
<1> QED
  BY <1>1, <1>2, <1>3, <1>5

AnyGraph == [Ids -> 0..Elsewhere]

LEMMA Numbers ==
  /\ N \in Nat /\ 0 \notin Ids /\ 0 \in 0..Elsewhere /\ Ids \subseteq Nat
  /\ \A x \in 0..Elsewhere : x \in Ids \/ x = 0 \/ x = Elsewhere
  /\ Elsewhere \notin Ids /\ Elsewhere \in Nat /\ Elsewhere # 0 /\ Ids \subseteq 0..Elsewhere
  BY ConstantsAssumption, SMTT(30), SMTT(45) DEF Ids, Elsewhere

LEMMA UpType ==
  ASSUME NEW par \in AnyGraph, NEW r \in 0..Elsewhere, NEW k \in Nat
  PROVE  UpIn(par, r, k) \in 0..Elsewhere
<1> DEFINE T == {n \in Nat : UpIn(par, r, n) \in 0..Elsewhere}
<1>1. 0 \in T
  BY UpStart, SMTT(30), SMTT(45)
<1>2. ASSUME NEW n \in Nat, n \in T  PROVE n + 1 \in T
  <2>1. n + 1 \in Nat
    BY SMTT(30), SMTT(45)
  <2>2. UpIn(par, r, n + 1) \in 0..Elsewhere
    <3> DEFINE x == UpIn(par, r, n)
    <3>1. UpIn(par, r, n + 1) = IF x \in Ids THEN par[x] ELSE 0
      BY UpNext
    <3> HIDE DEF x
    <3>2. x \in Ids => par[x] \in 0..Elsewhere
      BY DEF AnyGraph
    <3> QED
      BY <3>1, <3>2, Numbers
  <2> QED
    BY <2>1, <2>2
<1>3. k \in T
  <2> HIDE DEF T
  <2> QED
    BY <1>1, <1>2, AllNumbers
<1> QED
  BY <1>3

(* To climb from where a climb has come to is to climb on. *)
LEMMA UpAdd ==
  ASSUME NEW par \in AnyGraph, NEW r, NEW i \in Nat, NEW j \in Nat
  PROVE  UpIn(par, UpIn(par, r, i), j) = UpIn(par, r, i + j)
<1> DEFINE T == {n \in Nat : UpIn(par, UpIn(par, r, i), n) = UpIn(par, r, i + n)}
<1>1. 0 \in T
  <2>1. i + 0 = i /\ 0 \in Nat
    BY SMTT(30), SMTT(45)
  <2> QED
    BY <2>1, UpStart
<1>2. ASSUME NEW n \in Nat, n \in T  PROVE n + 1 \in T
  <2>1. n + 1 \in Nat /\ i + n \in Nat /\ i + (n + 1) = (i + n) + 1
    BY SMTT(30), SMTT(45)
  <2>2. UpIn(par, UpIn(par, r, i), n) = UpIn(par, r, i + n)
    BY <1>2
  <2>3. UpIn(par, UpIn(par, r, i), n + 1) = UpIn(par, r, (i + n) + 1)
    BY <2>1, <2>2, UpNext, SMTT(30), SMTT(45)
  <2> QED
    BY <2>1, <2>3
<1>3. j \in T
  <2> HIDE DEF T
  <2> QED
    BY <1>1, <1>2, AllNumbers
<1> QED
  BY <1>3

LEMMA UpOfReply ==
  ASSUME NEW par \in AnyGraph, NEW c \in Ids, NEW k \in Nat
  PROVE  UpIn(par, c, k + 1) = UpIn(par, par[c], k)
<1>1. 1 \in Nat /\ 0 \in Nat /\ 0 + 1 = 1 /\ 1 + k = k + 1
  BY SMTT(30), SMTT(45)
<1>2. UpIn(par, c, 0 + 1) = par[c]
  BY <1>1, UpStart, UpNext, SMTT(30), SMTT(45)
<1>3. UpIn(par, UpIn(par, c, 1), k) = UpIn(par, c, 1 + k)
  BY <1>1, UpAdd, SMTT(30), SMTT(45)
<1> QED
  BY <1>1, <1>2, <1>3

(* A climb that has left the records does not come back. *)
LEMMA UpBelow ==
  ASSUME NEW par \in AnyGraph, NEW r, NEW k \in Nat, NEW m \in Nat, k <= m, UpIn(par, r, m) \in Ids
  PROVE  UpIn(par, r, k) \in Ids
<1> DEFINE T == {n \in Nat : UpIn(par, r, k + n) \in Ids => UpIn(par, r, k) \in Ids}
<1>1. 0 \in T
  <2>1. k + 0 = k /\ 0 \in Nat
    BY SMTT(30), SMTT(45)
  <2> QED
    BY <2>1
<1>2. ASSUME NEW n \in Nat, n \in T  PROVE n + 1 \in T
  <2>1. n + 1 \in Nat /\ k + n \in Nat /\ k + (n + 1) = (k + n) + 1
    BY SMTT(30), SMTT(45)
  <2>2. UpIn(par, r, (k + n) + 1) \in Ids => UpIn(par, r, k + n) \in Ids
    BY <2>1, UpNext, Numbers
  <2> QED
    BY <1>2, <2>1, <2>2
<1>3. m - k \in T /\ k + (m - k) = m
  <2>1. m - k \in Nat /\ k + (m - k) = m
    BY SMTT(30), SMTT(45)
  <2> HIDE DEF T
  <2> QED
    BY <1>1, <1>2, <2>1, AllNumbers
<1> QED
  BY <1>3

(* The climb from r ends after e steps. *)
Ends(par, r, e) == UpIn(par, r, e) \in Ids /\ UpIn(par, r, e + 1) \notin Ids

LEMMA EndsOnce ==
  ASSUME NEW par \in AnyGraph, NEW r, NEW e \in Nat, Ends(par, r, e)
  PROVE  /\ \A k \in Nat : UpIn(par, r, k) \in Ids <=> k <= e
         /\ \A d \in Nat : Ends(par, r, d) => d = e
<1>1. ASSUME NEW k \in Nat, k <= e  PROVE UpIn(par, r, k) \in Ids
  BY <1>1, UpBelow DEF Ends
<1>2. ASSUME NEW k \in Nat, ~ (k <= e)  PROVE UpIn(par, r, k) \notin Ids
  <2>1. e + 1 \in Nat /\ e + 1 <= k
    BY <1>2, SMTT(30), SMTT(45)
  <2> QED
    BY <2>1, UpBelow DEF Ends
<1>3. ASSUME NEW d \in Nat, Ends(par, r, d)  PROVE d = e
  <2>1. d <= e /\ d + 1 \in Nat /\ ~ (d + 1 <= e)
    BY <1>1, <1>2, <1>3, SMTT(30), SMTT(45) DEF Ends
  <2> QED
    BY <2>1, SMTT(30), SMTT(45)
<1> QED
  BY <1>1, <1>2, <1>3

(* A climb that ends visits no record twice. *)
LEMMA EndsDistinct ==
  ASSUME NEW par \in AnyGraph, NEW r, NEW e \in Nat, Ends(par, r, e),
         NEW i \in Nat, NEW j \in Nat, i < j, UpIn(par, r, j) \in Ids
  PROVE  UpIn(par, r, i) # UpIn(par, r, j)
<1> SUFFICES ASSUME UpIn(par, r, i) = UpIn(par, r, j)  PROVE FALSE
  OBVIOUS
<1>1. j <= e
  BY EndsOnce
<1> DEFINE m == (e + 1) - j
<1>2. m \in Nat /\ j + m = e + 1 /\ i + m \in Nat /\ i + m <= e
  BY <1>1, SMTT(30), SMTT(45)
<1>3. UpIn(par, r, i + m) = UpIn(par, r, e + 1)
  <2> HIDE DEF m
  <2> QED
    <3>1. UpIn(par, UpIn(par, r, i), m) = UpIn(par, r, i + m)
      BY <1>2, UpAdd, SMTT(30), SMTT(45)
    <3>2. UpIn(par, UpIn(par, r, j), m) = UpIn(par, r, j + m)
      BY <1>2, UpAdd, SMTT(30), SMTT(45)
    <3> QED
      BY <1>2, <3>1, <3>2
<1> QED
  BY <1>2, <1>3, EndsOnce, SMTT(30), SMTT(45) DEF Ends

(* ... and so is shorter than their number. *)
LEMMA EndsSoon ==
  ASSUME NEW par \in AnyGraph, NEW r, NEW e \in Nat, Ends(par, r, e)
  PROVE  e < N
<1> DEFINE f == [i \in 0..e |-> UpIn(par, r, i)]
<1>1. \A i \in 0..e : i \in Nat /\ i <= e
  BY SMTT(30), SMTT(45)
<1>2. f \in [0..e -> Ids]
  BY <1>1, EndsOnce
<1>3. ASSUME NEW i \in 0..e, NEW j \in 0..e, f[i] = f[j]  PROVE i = j
  <2>1. ~ (i < j) /\ ~ (j < i)
    BY <1>1, <1>2, <1>3, EndsDistinct
  <2> QED
    BY <1>1, <2>1, SMTT(30), SMTT(45)
<1> HIDE DEF f
<1>4. f \in Injection(0..e, Ids)
  BY <1>2, <1>3, Fun_IsInj
<1>5. IsFiniteSet(Ids) /\ Cardinality(Ids) = N
  BY ConstantsAssumption, FS_Interval, SMTT(30), SMTT(45) DEF Ids
<1>6. Cardinality(0..e) = e + 1
  BY FS_Interval, SMTT(30), SMTT(45)
<1>7. Cardinality(0..e) <= Cardinality(Ids)
  BY <1>4, <1>5, FS_Injection
<1> QED
  BY <1>5, <1>6, <1>7, ConstantsAssumption, SMTT(30), SMTT(45)

(* Depth and Tree, in any graph. *)
DepthIn(par, r) ==
  IF \E k \in 0..(N - 1) : UpIn(par, r, k + 1) \notin Ids
    THEN CHOOSE k \in 0..(N - 1) : UpIn(par, r, k) \in Ids /\ UpIn(par, r, k + 1) \notin Ids
    ELSE N

TreeIn(par, r) ==
  {q \in Ids : DepthIn(par, q) < N /\ UpIn(par, q, DepthIn(par, q)) = UpIn(par, r, DepthIn(par, r))}

LEMMA DepthOfEnd ==
  ASSUME NEW par \in AnyGraph, NEW r, NEW e \in Nat, Ends(par, r, e)
  PROVE  DepthIn(par, r) = e /\ e < N
<1>1. e \in 0..(N - 1) /\ e < N
  BY EndsSoon, ConstantsAssumption, SMTT(30), SMTT(45)
<1>2. \A k \in 0..(N - 1) : k \in Nat
  BY SMTT(30), SMTT(45)
<1>3. \A k \in 0..(N - 1) : UpIn(par, r, k) \in Ids /\ UpIn(par, r, k + 1) \notin Ids <=> k = e
  BY <1>2, EndsOnce DEF Ends
<1>4. (CHOOSE k \in 0..(N - 1) : UpIn(par, r, k) \in Ids /\ UpIn(par, r, k + 1) \notin Ids) = e
  BY <1>1, <1>3
<1> QED
  BY <1>1, <1>3, <1>4 DEF DepthIn

LEMMA DepthIsEnd ==
  ASSUME NEW par \in AnyGraph, NEW r \in Ids
  PROVE  /\ DepthIn(par, r) \in Nat /\ DepthIn(par, r) <= N
         /\ DepthIn(par, r) < N => Ends(par, r, DepthIn(par, r))
<1> DEFINE T == {k \in 0..(N - 1) : UpIn(par, r, k + 1) \notin Ids}
<1>1. CASE T = {}
  <2>1. DepthIn(par, r) = N
    BY <1>1 DEF DepthIn
  <2> QED
    BY <2>1, ConstantsAssumption, SMTT(30), SMTT(45)
<1>2. CASE T # {}
  <2>1. T \in SUBSET Nat
    BY SMTT(30), SMTT(45)
  <2>2. PICK k \in T : \A y \in T : k <= y
    <3> HIDE DEF T
    <3> QED
      BY <1>2, <2>1, LeastNumber
  <2>3. k \in 0..(N - 1) /\ k \in Nat /\ UpIn(par, r, k + 1) \notin Ids /\ k < N
    BY <2>1, <2>2, ConstantsAssumption, SMTT(30), SMTT(45)
  <2>4. UpIn(par, r, k) \in Ids
    <3>1. CASE k = 0
      BY <3>1, UpStart
    <3>2. CASE k # 0
      <4>1. k - 1 \in 0..(N - 1) /\ ~ (k <= k - 1) /\ (k - 1) + 1 = k
        BY <2>3, <3>2, ConstantsAssumption, SMTT(30), SMTT(45)
      <4> QED
        BY <2>2, <4>1
    <3> QED
      BY <3>1, <3>2
  <2>5. Ends(par, r, k)
    BY <2>3, <2>4 DEF Ends
  <2>6. DepthIn(par, r) = k
    BY <2>3, <2>5, DepthOfEnd
  <2> QED
    <3>1. k <= N
      BY <2>3, ConstantsAssumption, SMTT(30), SMTT(45)
    <3> QED
      BY <2>3, <2>5, <2>6, <3>1
<1> QED
  BY <1>1, <1>2

(* Whoever reaches the end of r is in its tree, and that deep. *)
LEMMA InTree ==
  ASSUME NEW par \in AnyGraph, NEW r \in Ids, NEW e \in Nat, Ends(par, r, e),
         NEW q \in Ids, NEW d \in Nat, UpIn(par, q, d) = UpIn(par, r, e)
  PROVE  DepthIn(par, q) = d /\ q \in TreeIn(par, r)
<1>1. Ends(par, q, d)
  BY UpNext DEF Ends
<1>2. DepthIn(par, q) = d /\ DepthIn(par, q) < N /\ DepthIn(par, r) = e
  BY <1>1, DepthOfEnd
<1> QED
  BY <1>2 DEF TreeIn

LEMMA TreeIsFinite ==
  ASSUME NEW par \in AnyGraph, NEW r
  PROVE  TreeIn(par, r) \subseteq Ids /\ IsFiniteSet(TreeIn(par, r)) /\ Cardinality(TreeIn(par, r)) \in Nat
<1>1. IsFiniteSet(Ids)
  BY ConstantsAssumption, FS_Interval, SMTT(30), SMTT(45) DEF Ids
<1>2. TreeIn(par, r) \subseteq Ids
  BY DEF TreeIn
<1>3. IsFiniteSet(TreeIn(par, r))
  BY <1>1, <1>2, FS_Subset
<1> QED
  BY <1>2, <1>3, FS_CardinalityType

(* The definitions of Threads are these, in the graph that is read. *)
LEMMA InTheGraph ==
  /\ \A r, k : Up(r, k) = UpIn(parent, r, k)
  /\ \A r : Depth(r) = DepthIn(parent, r)
  /\ \A r : Tree(r) = TreeIn(parent, r)
<1>1. \A r, k : Up(r, k) = UpIn(parent, r, k)
  BY DEF Up, UpIn
<1>2. ASSUME NEW r  PROVE Depth(r) = DepthIn(parent, r)
  BY DEF Depth, DepthIn, Up, UpIn
<1>3. ASSUME NEW r  PROVE Tree(r) = TreeIn(parent, r)
  BY <1>1, <1>2 DEF Tree, TreeIn
<1> QED
  BY <1>1, <1>2, <1>3

LEMMA GreatestNumber ==
  ASSUME NEW S \in SUBSET Nat, S # {}, NEW n \in Nat, \A s \in S : s <= n
  PROVE  \E x \in S : \A y \in S : y <= x
<1> DEFINE T == {x \in Nat : \A y \in S : y <= x}
<1>1. PICK x \in T : \A y \in T : x <= y
  <2>1. T \in SUBSET Nat /\ T # {}
    OBVIOUS
  <2> HIDE DEF T
  <2> QED
    BY <2>1, LeastNumber
<1>2. CASE x \in S
  BY <1>1, <1>2
<1>3. CASE x \notin S
  <2>1. PICK s \in S : TRUE
    OBVIOUS
  <2>2. x # 0 /\ \A y \in S : y <= x - 1
    BY <1>1, <1>3, <2>1, SMTT(30), SMTT(45)
  <2>3. x - 1 \in T /\ ~ (x <= x - 1)
    BY <1>1, <2>2, SMTT(30), SMTT(45)
  <2> QED
    BY <1>1, <2>3
<1> QED
  BY <1>2, <1>3

(* The recursive query finds the end of a climb that is not too long ... *)
LEMMA RootOfEnd ==
  ASSUME parent \in AnyGraph, NEW r \in Ids, NEW e \in Nat, e <= MaxDepth, Ends(parent, r, e)
  PROVE  Deepest(r) = UpIn(parent, r, e)
<1>1. \A i, k : i \in 0..k => i \in Nat
  BY SMTT(30), SMTT(45)
<1>2. e \in Chain(r)
  <2>1. e \in 0..MaxDepth /\ \A j \in 0..e : j \in Nat /\ j <= e
    BY ConstantsAssumption, SMTT(30), SMTT(45)
  <2>2. \A i, j \in 0..e : i < j => UpIn(parent, r, i) # UpIn(parent, r, j)
    BY <2>1, EndsDistinct, EndsOnce
  <2> QED
    BY <2>1, <2>2, InTheGraph DEF Chain, Ends
<1>3. \A k \in Chain(r) : k \in Nat /\ k <= e
  BY <1>1, EndsOnce, InTheGraph DEF Chain
<1>4. \A k \in Chain(r) : (\A j \in Chain(r) : j <= k) => k = e
  BY <1>2, <1>3, SMTT(30), SMTT(45)
<1>5. (CHOOSE k \in Chain(r) : \A j \in Chain(r) : j <= k) = e
  BY <1>2, <1>3, <1>4
<1> QED
  BY <1>5, InTheGraph DEF Deepest

(* ... and names the record itself when there is none. *)
LEMMA RootOfNoEnd ==
  ASSUME parent \in AnyGraph, NEW r \in Ids, \A e \in Nat : e <= MaxDepth => ~Ends(parent, r, e)
  PROVE  ThreadRoot(r) = r
<1>1. 0 \in Chain(r)
  <2>1. 0 \in 0..MaxDepth /\ \A i, j \in 0..0 : ~ (i < j)
    BY ConstantsAssumption, SMTT(30), SMTT(45)
  <2> QED
    BY <2>1, InTheGraph, UpStart DEF Chain
<1>2. Chain(r) \in SUBSET Nat /\ \A k \in Chain(r) : k <= MaxDepth
  BY ConstantsAssumption, SMTT(30), SMTT(45) DEF Chain
<1>3. \E k \in Chain(r) : \A j \in Chain(r) : j <= k
  BY <1>1, <1>2, GreatestNumber, ConstantsAssumption
<1>4. PICK k \in Chain(r) : k = CHOOSE m \in Chain(r) : \A j \in Chain(r) : j <= m
  BY <1>3
<1>5. k \in Nat /\ k <= MaxDepth /\ UpIn(parent, r, k) \in Ids /\ Deepest(r) = UpIn(parent, r, k)
  BY <1>2, <1>4, InTheGraph DEF Chain, Deepest
<1>6. parent[UpIn(parent, r, k)] \in Ids
  BY <1>5, UpNext DEF Ends
<1> QED
  BY <1>5, <1>6, Numbers DEF ThreadRoot

-----------------------------------------------------------------------------
(* The inductive invariant *)

(* How far the anchor is from where its climb ends. *)
Above == DepthIn(parent, anchor)

IdsOf(p) == {p[i].id : i \in DOMAIN p}

Exceeds ==
  \/ \E r \in TreeIn(parent, anchor) : DepthIn(parent, r) > MaxDepth
  \/ Cardinality(TreeIn(parent, anchor)) > MaxNodes
  \/ Above + Cardinality(TreeIn(parent, anchor)) - 1 > MaxEdges

(* The climb has come edges steps, each to a record it had not met. *)
Climbs ==
  /\ seen = {} /\ pending = <<>> /\ result = <<>>
  /\ root = UpIn(parent, anchor, edges)
  /\ \A a \in ancestors : \E i \in Nat : i < edges /\ a = UpIn(parent, anchor, i)
  /\ Cardinality(ancestors) = edges
  /\ edges <= MaxDepth /\ edges <= MaxEdges

(* What is left to visit, p, beside the visited records, V: no record       *)
(* twice, each that far below the root and its parent visited before it.    *)
Frontier(V, p) ==
  /\ p \in Seq([id : Ids, depth : Nat])
  /\ \A i, j \in DOMAIN p : p[i].id = p[j].id => i = j
  /\ IdsOf(p) \cap V = {}
  /\ root \in V \cup IdsOf(p)
  /\ \A x \in V \cup IdsOf(p) : x = root \/ parent[x] \in V
  /\ \A i \in DOMAIN p : UpIn(parent, p[i].id, p[i].depth) = root
  /\ \A x \in V : \E d \in Nat : d <= MaxDepth /\ UpIn(parent, x, d) = root

(* The climb ended at the root, and the search of its tree goes on. *)
Descends ==
  /\ Above < N /\ Above <= MaxDepth /\ root = UpIn(parent, anchor, Above)
  /\ resolved = (parent[root] = 0)
  /\ Frontier(seen, pending)
  /\ \A x \in seen : Children(x) \subseteq seen \cup IdsOf(pending)
  /\ {result[i] : i \in DOMAIN result} = seen /\ Len(result) = Cardinality(seen)
  /\ edges + 1 = Above + Cardinality(seen) + Len(pending)
  /\ Cardinality(seen) + Len(pending) <= MaxNodes /\ edges <= MaxEdges

SearchInv ==
  /\ TypeOK
  /\ step = "ascend" => Climbs
  /\ step \in {"descend", "ok"} => Descends
  /\ step = "ok" => pending = <<>>
  /\ step = "corrupt" => Above = N
  /\ step = "limit" /\ Above < N => Exceeds

-----------------------------------------------------------------------------
(* The lists of the search *)

Items == [id : Ids, depth : Nat]

LEMMA IdsAreFinite ==
  ASSUME NEW S \in SUBSET Ids
  PROVE  IsFiniteSet(S) /\ Cardinality(S) \in Nat
<1>1. IsFiniteSet(Ids)
  BY ConstantsAssumption, FS_Interval, SMTT(30), SMTT(45) DEF Ids
<1>2. IsFiniteSet(S)
  BY <1>1, FS_Subset
<1> QED
  BY <1>2, FS_CardinalityType

LEMMA IdsAre ==
  ASSUME NEW p
  PROVE  \A x : x \in IdsOf(p) <=> \E i \in DOMAIN p : x = p[i].id
  BY DEF IdsOf

(* A list names no record twice, and all of them when it was not cut. *)
LEMMA ListingIs ==
  ASSUME NEW S \in SUBSET Ids, NEW k \in Nat, NEW kids \in Listings(S, k)
  PROVE  /\ kids \in Seq(Ids) /\ Len(kids) \in Nat /\ DOMAIN kids = 1..Len(kids)
         /\ \A i \in DOMAIN kids : kids[i] \in S
         /\ \A i, j \in DOMAIN kids : kids[i] = kids[j] => i = j
         /\ Len(kids) < k => \A x \in S : \E i \in DOMAIN kids : kids[i] = x
<1> DEFINE n == Smaller(Cardinality(S), k)
<1>1. IsFiniteSet(S) /\ Cardinality(S) \in Nat
  BY IdsAreFinite
<1>2. n \in Nat /\ (n < k => n = Cardinality(S))
  BY <1>1, SMTT(30), SMTT(45) DEF Smaller
<1>3. kids \in [1..n -> S] /\ \A i, j \in DOMAIN kids : i < j => kids[i] < kids[j]
  BY DEF Listings
<1> HIDE DEF n
<1>4. kids \in Seq(S) /\ Len(kids) = n
  BY <1>2, <1>3, SMTT(30), SMTT(45)
<1>5. ASSUME NEW i \in 1..n, NEW j \in 1..n, kids[i] = kids[j]  PROVE i = j
  <2>1. kids[i] \in Nat /\ kids[j] \in Nat
    BY <1>3, Numbers
  <2>2. ~ (i < j) /\ ~ (j < i)
    BY <1>3, <1>5, <2>1, SMTT(30), SMTT(45)
  <2> QED
    BY <2>2, SMTT(30), SMTT(45)
<1>6. kids \in Injection(1..n, S)
  BY <1>3, <1>5, Fun_IsInj
<1>7. IsFiniteSet(1..n) /\ Cardinality(1..n) = n
  BY <1>2, FS_Interval, SMTT(30), SMTT(45)
<1>8. n = Cardinality(S) => kids \in Surjection(1..n, S)
  BY <1>1, <1>6, <1>7, FS_Injection
<1>9. Len(kids) < k => \A x \in S : \E i \in 1..n : kids[i] = x
  BY <1>2, <1>4, <1>8 DEF Surjection
<1>10. kids \in Seq(Ids)
  BY <1>4, SeqMonotonic
<1> QED
  BY <1>2, <1>3, <1>4, <1>5, <1>9, <1>10

(* The record to visit next, and those that wait behind it and its replies. *)
Top == pending[Len(pending)]
Rest == SubSeq(pending, 1, Len(pending) - 1)
More(kids) == Rest \o [i \in 1..Len(kids) |-> [id |-> kids[i], depth |-> Top.depth + 1]]

LEMMA RestIs ==
  ASSUME TypeOK, pending # <<>>
  PROVE  /\ Rest \in Seq(Items) /\ Len(Rest) \in Nat /\ Len(pending) = Len(Rest) + 1
         /\ DOMAIN Rest = 1..Len(Rest) /\ DOMAIN pending = 1..Len(pending)
         /\ \A i \in DOMAIN Rest : i \in DOMAIN pending /\ i # Len(pending) /\ Rest[i] = pending[i]
         /\ \A i \in DOMAIN pending : i # Len(pending) => i \in DOMAIN Rest
         /\ Len(pending) \in DOMAIN pending /\ Top \in Items /\ Top.id \in Ids /\ Top.depth \in Nat
         /\ IdsOf(pending) = IdsOf(Rest) \cup {Top.id}
<1>1. pending \in Seq(Items)
  BY DEF TypeOK, Items
<1>2. Len(pending) \in Nat \ {0} /\ pending \in [1..Len(pending) -> Items] /\ DOMAIN pending = 1..Len(pending)
  BY <1>1, EmptySeq, LenProperties
<1>3. /\ Rest \in Seq(Items) /\ Len(Rest) = Len(pending) - 1
      /\ \A i \in 1..(Len(pending) - 1) : Rest[i] = pending[i]
  BY <1>1, <1>2, SMTT(30), SMTT(45) DEF Rest
<1>4. DOMAIN Rest = 1..Len(Rest)
  BY <1>3, LenProperties
<1>5. Len(Rest) \in Nat /\ Len(pending) = Len(Rest) + 1 /\ Len(pending) \in 1..Len(pending)
  BY <1>2, <1>3, SMTT(30), SMTT(45)
<1>6. \A i : i \in 1..Len(Rest) <=> i \in 1..Len(pending) /\ i # Len(pending)
  BY <1>5, SMTT(30), SMTT(45)
<1>7. \A i \in DOMAIN Rest : Rest[i] = pending[i]
  BY <1>3, <1>4
<1>8. Top \in Items
  BY <1>2, <1>5 DEF Top
<1>9. IdsOf(pending) = IdsOf(Rest) \cup {Top.id}
  BY <1>2, <1>4, <1>5, <1>6, <1>7 DEF IdsOf, Top
<1>10. Top.id \in Ids /\ Top.depth \in Nat
  BY <1>8 DEF Items
<1> QED
  BY <1>2, <1>3, <1>4, <1>5, <1>6, <1>7, <1>8, <1>9, <1>10

LEMMA MoreIs ==
  ASSUME TypeOK, pending # <<>>, NEW kids \in Seq(Ids)
  PROVE  /\ More(kids) \in Seq(Items) /\ Len(More(kids)) = Len(Rest) + Len(kids)
         /\ DOMAIN Rest \subseteq DOMAIN More(kids)
         /\ \A i \in DOMAIN Rest : More(kids)[i] = Rest[i]
         /\ \A i \in DOMAIN More(kids) : i \notin DOMAIN Rest =>
              /\ i \in Nat /\ i - Len(Rest) \in DOMAIN kids
              /\ More(kids)[i].id = kids[i - Len(Rest)] /\ More(kids)[i].depth = Top.depth + 1
         /\ \A i \in DOMAIN kids :
              i + Len(Rest) \in DOMAIN More(kids) /\ More(kids)[i + Len(Rest)].id = kids[i]
<1> DEFINE d == Top.depth + 1
           new == [i \in 1..Len(kids) |-> [id |-> kids[i], depth |-> d]]
           more == Rest \o new
<1>1. /\ Len(kids) \in Nat /\ DOMAIN kids = 1..Len(kids) /\ kids \in [1..Len(kids) -> Ids]
      /\ Rest \in Seq(Items) /\ Len(Rest) \in Nat /\ DOMAIN Rest = 1..Len(Rest)
  BY RestIs, LenProperties
<1>2. d \in Nat
  BY RestIs, SMTT(30), SMTT(45)
<1> HIDE DEF d
<1>3. new \in [1..Len(kids) -> Items]
  BY <1>1, <1>2 DEF Items
<1>4. new \in Seq(Items) /\ Len(new) = Len(kids)
  <2> HIDE DEF new
  <2> QED
    BY <1>1, <1>3, SMTT(30), SMTT(45)
<1>5. \A i \in 1..Len(kids) : new[i].id = kids[i] /\ new[i].depth = d
  OBVIOUS
<1> HIDE DEF new
<1>6. /\ more \in Seq(Items) /\ Len(more) = Len(Rest) + Len(new)
      /\ \A i \in 1..(Len(Rest) + Len(new)) : more[i] = IF i <= Len(Rest) THEN Rest[i] ELSE new[i - Len(Rest)]
  BY <1>1, <1>4, ConcatProperties
<1>7. More(kids) = more
  BY DEF More, d, new
<1> HIDE DEF more
<1>8. DOMAIN more = 1..Len(more)
  BY <1>6, LenProperties
<1>9. /\ \A i \in 1..Len(Rest) : i \in 1..(Len(Rest) + Len(kids)) /\ i <= Len(Rest)
      /\ \A i \in 1..(Len(Rest) + Len(kids)) :
           i \notin 1..Len(Rest) => i \in Nat /\ ~ (i <= Len(Rest)) /\ i - Len(Rest) \in 1..Len(kids)
      /\ \A i \in 1..Len(kids) : /\ i + Len(Rest) \in 1..(Len(Rest) + Len(kids)) /\ ~ (i + Len(Rest) <= Len(Rest))
                                 /\ (i + Len(Rest)) - Len(Rest) = i
  BY <1>1, SMTT(30), SMTT(45)
<1>10. /\ \A i \in 1..Len(Rest) : more[i] = Rest[i]
       /\ \A i \in 1..(Len(Rest) + Len(kids)) : i \notin 1..Len(Rest) => more[i] = new[i - Len(Rest)]
       /\ \A i \in 1..Len(kids) : more[i + Len(Rest)] = new[i]
  BY <1>4, <1>6, <1>9
<1>11. DOMAIN more = 1..(Len(Rest) + Len(kids)) /\ Len(more) = Len(Rest) + Len(kids)
  BY <1>4, <1>6, <1>8
<1>12. \A i \in DOMAIN more : i \notin DOMAIN Rest =>
         /\ i \in Nat /\ i - Len(Rest) \in DOMAIN kids
         /\ more[i].id = kids[i - Len(Rest)] /\ more[i].depth = d
  BY <1>1, <1>5, <1>9, <1>10, <1>11, SMTT(30), SMTT(45)
<1>13. \A i \in DOMAIN kids : i + Len(Rest) \in DOMAIN more /\ more[i + Len(Rest)].id = kids[i]
  BY <1>1, <1>5, <1>9, <1>10, <1>11
<1>14. DOMAIN Rest \subseteq DOMAIN more /\ \A i \in DOMAIN Rest : more[i] = Rest[i]
  BY <1>1, <1>9, <1>10, <1>11
<1> QED
  BY <1>6, <1>7, <1>11, <1>12, <1>13, <1>14 DEF d

LEMMA CountIds ==
  ASSUME NEW p \in Seq(Items), \A i, j \in DOMAIN p : p[i].id = p[j].id => i = j
  PROVE  IdsOf(p) \subseteq Ids /\ IsFiniteSet(IdsOf(p)) /\ Cardinality(IdsOf(p)) = Len(p)
<1> DEFINE f == [i \in 1..Len(p) |-> p[i].id]
<1>1. Len(p) \in Nat /\ DOMAIN p = 1..Len(p) /\ p \in [1..Len(p) -> Items]
  BY LenProperties
<1>2. f \in Bijection(1..Len(p), IdsOf(p))
  <2>1. f \in [1..Len(p) -> IdsOf(p)] /\ \A t \in IdsOf(p) : \E i \in 1..Len(p) : f[i] = t
    BY <1>1 DEF IdsOf
  <2>2. \A i, j \in 1..Len(p) : f[i] = f[j] => i = j
    BY <1>1
  <2> HIDE DEF f
  <2> QED
    BY <2>1, <2>2, Fun_IsBij
<1>3. IdsOf(p) \subseteq Ids
  BY <1>1 DEF IdsOf, Items
<1>4. ExistsBijection(1..Len(p), IdsOf(p))
  BY <1>2 DEF ExistsBijection
<1> QED
  BY <1>1, <1>3, <1>4, FS_CountingElements, IdsAreFinite

-----------------------------------------------------------------------------
(* The climb *)

LEMMA Exceeded ==
  ASSUME parent \in AnyGraph, anchor \in Ids, NEW M \in SUBSET TreeIn(parent, anchor),
         \/ Cardinality(M) > MaxNodes \/ Above + Cardinality(M) - 1 > MaxEdges
         \/ \E q \in TreeIn(parent, anchor) : DepthIn(parent, q) > MaxDepth
  PROVE  Exceeds
<1>1. /\ IsFiniteSet(TreeIn(parent, anchor)) /\ Cardinality(TreeIn(parent, anchor)) \in Nat
      /\ Above \in Nat
  BY TreeIsFinite, DepthIsEnd DEF Above
<1>2. Cardinality(M) <= Cardinality(TreeIn(parent, anchor)) /\ IsFiniteSet(M)
  BY <1>1, FS_Subset
<1>3. Cardinality(M) \in Nat
  BY <1>2, FS_CardinalityType
<1>4. CASE Cardinality(M) > MaxNodes \/ Above + Cardinality(M) - 1 > MaxEdges
  <2>1. \/ Cardinality(TreeIn(parent, anchor)) > MaxNodes
        \/ Above + Cardinality(TreeIn(parent, anchor)) - 1 > MaxEdges
    BY <1>1, <1>2, <1>3, <1>4, ConstantsAssumption, SMTT(30), SMTT(45)
  <2> QED
    BY <2>1 DEF Exceeds
<1> QED
  BY <1>4 DEF Exceeds

(* What the climb knows. *)
LEMMA ClimbKnows ==
  ASSUME TypeOK, Climbs
  PROVE  /\ parent \in AnyGraph /\ anchor \in Ids /\ root \in Ids /\ edges \in Nat
         /\ edges + 1 \in Nat /\ edges < edges + 1
         /\ UpIn(parent, anchor, edges) = root
         /\ UpIn(parent, anchor, edges + 1) = parent[root]
         /\ parent[root] \notin Ids => Ends(parent, anchor, edges)
         /\ root \notin ancestors => Cardinality(ancestors \cup {root}) = edges + 1
         /\ \A a \in ancestors \cup {root} : \E i \in Nat : i < edges + 1 /\ a = UpIn(parent, anchor, i)
<1>1. /\ parent \in AnyGraph /\ anchor \in Ids /\ root \in Ids /\ edges \in Nat
      /\ UpIn(parent, anchor, edges) = root /\ ancestors \subseteq Ids
  BY DEF TypeOK, Climbs, AnyGraph
<1>2. UpIn(parent, anchor, edges + 1) = parent[root]
  BY <1>1, UpNext
<1>3. edges + 1 \in Nat /\ edges < edges + 1 /\ \A i \in Nat : i < edges => i < edges + 1
  BY <1>1, SMTT(30), SMTT(45)
<1>4. root \notin ancestors => Cardinality(ancestors \cup {root}) = edges + 1
  <2>1. IsFiniteSet(ancestors) /\ Cardinality(ancestors) = edges
    BY <1>1, IdsAreFinite DEF Climbs
  <2> QED
    BY <2>1, FS_AddElement
<1>5. ASSUME NEW a \in ancestors \cup {root}
      PROVE  \E i \in Nat : i < edges + 1 /\ a = UpIn(parent, anchor, i)
  <2>1. CASE a \in ancestors
    BY <1>3, <2>1 DEF Climbs
  <2>2. CASE a = root
    BY <1>1, <1>3, <2>2
  <2> QED
    BY <2>1, <2>2
<1> QED
  BY <1>1, <1>2, <1>3, <1>4, <1>5 DEF Ends

(* A circle has no end. *)
LEMMA CircleHasNoEnd ==
  ASSUME TypeOK, Climbs, root \in ancestors
  PROVE  Above = N
<1>1. PICK i \in Nat : i < edges /\ root = UpIn(parent, anchor, i)
  BY DEF Climbs
<1>2. ~ (Above < N)
  <2>1. Above < N => Above \in Nat /\ Ends(parent, anchor, Above)
    BY ClimbKnows, DepthIsEnd DEF Above
  <2> QED
    BY <1>1, <2>1, ClimbKnows, EndsDistinct
<1>3. Above \in Nat /\ Above <= N
  BY ClimbKnows, DepthIsEnd DEF Above
<1> QED
  BY <1>2, <1>3, ConstantsAssumption, SMTT(30), SMTT(45)

(* The climb is refused only for a tree that exceeds a limit. *)
LEMMA ClimbIsRefused ==
  ASSUME TypeOK, Climbs, root \notin ancestors, Above < N,
         Cardinality(ancestors \cup {root}) > MaxNodes \/ (parent[root] \in Ids /\ TooDeep)
  PROVE  Exceeds
<1> DEFINE M == ancestors \cup {root}
<1>1. parent \in AnyGraph /\ anchor \in Ids /\ edges \in Nat
  BY ClimbKnows
<1>2. Above \in Nat /\ Ends(parent, anchor, Above)
  BY <1>1, DepthIsEnd DEF Above
<1>3. edges <= Above
  BY <1>1, <1>2, ClimbKnows, EndsOnce, SMTT(30), SMTT(45)
<1>4. ASSUME NEW a \in M  PROVE a \in TreeIn(parent, anchor)
  <2>1. PICK i \in Nat : i < edges + 1 /\ a = UpIn(parent, anchor, i)
    BY ClimbKnows
  <2>2. Above - i \in Nat /\ i + (Above - i) = Above
    BY <1>1, <1>2, <1>3, <2>1, SMTT(30), SMTT(45)
  <2>3. UpIn(parent, a, Above - i) = UpIn(parent, anchor, Above)
    BY <1>1, <2>1, <2>2, UpAdd, SMTT(30), SMTT(45)
  <2>4. a \in Ids
    BY ClimbKnows DEF TypeOK
  <2> QED
    BY <1>1, <1>2, <2>2, <2>3, <2>4, InTree
<1>5. CASE Cardinality(M) > MaxNodes
  BY <1>1, <1>4, <1>5, Exceeded
<1>6. CASE parent[root] \in Ids /\ TooDeep
  <2>1. edges + 1 <= Above
    BY <1>1, <1>2, <1>6, ClimbKnows, EndsOnce, SMTT(30), SMTT(45)
  <2>2. anchor \in TreeIn(parent, anchor)
    BY <1>1, <1>2, InTree
  <2>3. CASE edges + 1 > MaxEdges
    <3>1. Cardinality({anchor}) = 1
      BY FS_Singleton
    <3>2. Above + Cardinality({anchor}) - 1 > MaxEdges
      BY <1>1, <1>2, <2>1, <2>3, <3>1, ConstantsAssumption, SMTT(30), SMTT(45)
    <3> QED
      BY <1>1, <2>2, <3>2, Exceeded
  <2>4. CASE Cardinality(M) > MaxDepth
    <3>1. DepthIn(parent, anchor) > MaxDepth
      <4>1. edges + 1 > MaxDepth
        BY <2>4, ClimbKnows
      <4> QED
        BY <1>1, <1>2, <2>1, <4>1, ConstantsAssumption, SMTT(30), SMTT(45) DEF Above
    <3> QED
      BY <2>2, <3>1 DEF Exceeds
  <2> QED
    BY <1>6, <2>3, <2>4 DEF TooDeep
<1> QED
  BY <1>5, <1>6

(* One round of thread_root_id. *)
LEMMA AscendKeeps ==
  ASSUME SearchInv, Ascend
  PROVE  SearchInv'
<1>1. /\ TypeOK /\ Climbs
      /\ ancestors' = ancestors \cup {root} /\ UNCHANGED <<parent, anchor, seen, result>>
  BY DEF SearchInv, Ascend
<1>2. /\ parent \in AnyGraph /\ anchor \in Ids /\ root \in Ids /\ edges \in Nat /\ edges + 1 \in Nat
      /\ ancestors' \in SUBSET Ids
  BY <1>1, ClimbKnows DEF TypeOK
<1>3. Above' = Above /\ Exceeds' = Exceeds
  BY <1>1 DEF Above, Exceeds
<1>4. CASE step' \in {"corrupt", "limit"} /\ UNCHANGED <<root, edges, resolved, pending>>
  <2>1. TypeOK'
    BY <1>1, <1>2, <1>4 DEF TypeOK
  <2>2. CASE root \in ancestors /\ step' = "corrupt"
    BY <1>1, <1>3, <2>1, <2>2, CircleHasNoEnd DEF SearchInv
  <2>3. CASE /\ root \notin ancestors /\ step' = "limit"
             /\ Cardinality(ancestors') > MaxNodes \/ (parent[root] \in Ids /\ TooDeep)
    BY <1>1, <1>3, <2>1, <2>3, ClimbIsRefused DEF SearchInv
  <2> QED
    BY <1>4, <2>2, <2>3 DEF Ascend, AtRoot, Climb, Stop
<1>5. CASE root \notin ancestors /\ parent[root] \notin Ids /\ AtRoot
  <2>1. Above = edges /\ Above < N
    BY <1>1, <1>2, <1>5, ClimbKnows, DepthOfEnd DEF Above
  <2> DEFINE first == [id |-> root, depth |-> 0]
  <2>2. first \in Items /\ first.id = root /\ first.depth = 0
    BY <1>2, Numbers DEF Items
  <2>3. pending' = <<first>> /\ root' = root /\ edges' = edges /\ step' = "descend" /\ resolved' = (parent[root] = 0)
    BY <1>5 DEF AtRoot, Resolved
  <2> HIDE DEF first
  <2>4. pending' \in Seq(Items) /\ Len(pending') = 1 /\ DOMAIN pending' = {1} /\ pending'[1] = first
    BY <2>2, <2>3, SMTT(30), SMTT(45)
  <2>5. TypeOK'
    BY <1>1, <1>2, <2>3, <2>4 DEF TypeOK, Items
  <2>6. seen' = {} /\ result' = <<>> /\ Cardinality({}) = 0 /\ Len(<<>>) = 0 /\ DOMAIN result' = {}
    BY <1>1, FS_EmptySet, SMTT(30), SMTT(45) DEF Climbs
  <2>7. IdsOf(pending') = {root}
    BY <2>2, <2>4 DEF IdsOf
  <2>8. Frontier(seen, pending)'
    <3>1. \A i \in DOMAIN pending' : UpIn(parent', pending'[i].id, pending'[i].depth) = root'
      BY <1>1, <2>2, <2>3, <2>4, UpStart
    <3>2. IdsOf(pending)' = {root}
      BY <2>7 DEF IdsOf
    <3>3. \A i, j \in DOMAIN pending' : i = j
      BY <2>4
    <3> QED
      BY <2>3, <2>4, <2>6, <3>1, <3>2, <3>3 DEF Frontier, Items
  <2>9. /\ edges' + 1 = Above' + Cardinality(seen') + Len(pending')
        /\ Cardinality(seen') + Len(pending') <= MaxNodes /\ edges' <= MaxEdges /\ Above' <= MaxDepth
    <3>1. edges <= MaxEdges /\ edges <= MaxDepth
      BY <1>1 DEF Climbs
    <3> QED
      BY <1>2, <1>3, <2>1, <2>3, <2>4, <2>6, <3>1, ConstantsAssumption, SMTT(30), SMTT(45)
  <2>10. Descends'
    <3>1. root' = UpIn(parent', anchor', Above')
      BY <1>1, <1>3, <2>1, <2>3, ClimbKnows
    <3>2. {result'[i] : i \in DOMAIN result'} = seen' /\ Len(result') = Cardinality(seen')
      BY <2>6
    <3> QED
      BY <1>1, <1>3, <2>1, <2>3, <2>6, <2>8, <2>9, <3>1, <3>2 DEF Descends
  <2> QED
    BY <2>3, <2>5, <2>10 DEF SearchInv
<1>6. CASE root \notin ancestors /\ parent[root] \in Ids /\ ~TooDeep /\ Climb
  <2>1. root' = parent[root] /\ edges' = edges + 1 /\ UNCHANGED <<step, resolved, pending>>
    BY <1>6 DEF Climb
  <2>2. TypeOK'
    BY <1>1, <1>2, <1>6, <2>1 DEF TypeOK
  <2>3. edges' <= MaxDepth /\ edges' <= MaxEdges
    <3>1. Cardinality(ancestors \cup {root}) = edges + 1
      BY <1>1, <1>6, ClimbKnows
    <3>2. ~ (edges + 1 > MaxDepth) /\ ~ (edges + 1 > MaxEdges)
      BY <1>6, <3>1 DEF TooDeep
    <3> QED
      BY <1>2, <2>1, <3>2, ConstantsAssumption, SMTT(30), SMTT(45)
  <2>4. Climbs'
    BY <1>1, <1>6, <2>1, <2>3, ClimbKnows DEF Climbs
  <2> QED
    BY <2>1, <2>2, <2>4 DEF SearchInv, Ascend
<1> QED
  BY <1>4, <1>5, <1>6 DEF Ascend, Stop

-----------------------------------------------------------------------------
(* The search of the tree *)

LEMMA DescentKnows ==
  ASSUME TypeOK, Descends
  PROVE  /\ parent \in AnyGraph /\ anchor \in Ids /\ root \in Ids /\ Above \in Nat
         /\ Ends(parent, anchor, Above) /\ UpIn(parent, anchor, Above) = root
         /\ parent[root] \notin Ids
<1>1. /\ parent \in AnyGraph /\ anchor \in Ids /\ root \in Ids
      /\ UpIn(parent, anchor, Above) = root /\ Above < N
  BY DEF TypeOK, Descends, AnyGraph
<1>2. Above \in Nat /\ Ends(parent, anchor, Above)
  BY <1>1, DepthIsEnd DEF Above
<1> QED
  BY <1>1, <1>2, UpNext DEF Ends

(* What was found is in the tree, and is as many records as were counted. *)
LEMMA FoundIsInTree ==
  ASSUME TypeOK, Descends, NEW V \in SUBSET Ids, NEW p, Frontier(V, p)
  PROVE  /\ V \cup IdsOf(p) \subseteq TreeIn(parent, anchor)
         /\ \A i \in DOMAIN p : DepthIn(parent, p[i].id) = p[i].depth
         /\ \A x \in V : DepthIn(parent, x) <= MaxDepth
         /\ Len(p) \in Nat /\ Cardinality(V \cup IdsOf(p)) = Cardinality(V) + Len(p)
<1>1. p \in Seq(Items) /\ Len(p) \in Nat /\ DOMAIN p = 1..Len(p) /\ p \in [1..Len(p) -> Items]
  BY LenProperties DEF Frontier, Items
<1>2. ASSUME NEW i \in DOMAIN p
      PROVE  DepthIn(parent, p[i].id) = p[i].depth /\ p[i].id \in TreeIn(parent, anchor)
  <2>1. p[i].id \in Ids /\ p[i].depth \in Nat
    BY <1>1 DEF Items
  <2> QED
    BY <2>1, DescentKnows, InTree DEF Frontier
<1>3. ASSUME NEW x \in V  PROVE DepthIn(parent, x) <= MaxDepth /\ x \in TreeIn(parent, anchor)
  BY DescentKnows, InTree, SMTT(30), SMTT(45) DEF Frontier
<1>4. V \cup IdsOf(p) \subseteq TreeIn(parent, anchor)
  BY <1>2, <1>3 DEF IdsOf
<1>5. Cardinality(V \cup IdsOf(p)) = Cardinality(V) + Len(p)
  <2>1. IsFiniteSet(IdsOf(p)) /\ Cardinality(IdsOf(p)) = Len(p) /\ V \cap IdsOf(p) = {}
    BY <1>1, CountIds DEF Frontier
  <2>2. IsFiniteSet(V) /\ Cardinality(V) \in Nat
    BY IdsAreFinite
  <2>3. Cardinality(V \cup IdsOf(p)) = Cardinality(V) + Len(p) - 0
    <3>1. Cardinality(V \cup IdsOf(p)) = Cardinality(V) + Cardinality(IdsOf(p)) - Cardinality(V \cap IdsOf(p))
      BY <2>1, <2>2, FS_Union
    <3>2. Cardinality(V \cap IdsOf(p)) = 0
      BY <2>1, FS_EmptySet
    <3> QED
      BY <2>1, <3>1, <3>2
  <2> QED
    BY <1>1, <2>2, <2>3, SMTT(30), SMTT(45)
<1> QED
  BY <1>1, <1>2, <1>3, <1>4, <1>5

(* The record that is visited next was not visited before. *)
LEMMA TopIsNew ==
  ASSUME TypeOK, Descends, pending # <<>>
  PROVE  /\ Top \in Items /\ Top.id \in Ids /\ Top.depth \in Nat /\ Top.id \notin seen
         /\ Rest \in Seq(Items) /\ Len(Rest) \in Nat /\ Len(pending) = Len(Rest) + 1
         /\ Cardinality(seen) \in Nat /\ Cardinality(seen \cup {Top.id}) = Cardinality(seen) + 1
         /\ Cardinality(seen \cup {Top.id}) + Len(Rest) = Cardinality(seen) + Len(pending)
         /\ UpIn(parent, Top.id, Top.depth) = root
<1>1. pending \in Seq(Items) /\ seen \in SUBSET Ids
  BY DEF TypeOK, Items
<1>2. /\ Rest \in Seq(Items) /\ Len(Rest) \in Nat /\ Len(pending) = Len(Rest) + 1
      /\ Len(pending) \in DOMAIN pending /\ Top \in Items
  BY <1>1, RestIs
<1>3. Top.id \in Ids /\ Top.depth \in Nat
  BY <1>2 DEF Items
<1>4. Top.id \notin seen /\ UpIn(parent, Top.id, Top.depth) = root
  BY <1>2, IdsAre DEF Descends, Frontier, Top
<1>5. IsFiniteSet(seen) /\ Cardinality(seen) \in Nat
  BY <1>1, IdsAreFinite
<1>6. Cardinality(seen \cup {Top.id}) = Cardinality(seen) + 1
  BY <1>4, <1>5, FS_AddElement
<1>7. Cardinality(seen \cup {Top.id}) + Len(Rest) = Cardinality(seen) + Len(pending)
  BY <1>2, <1>5, <1>6, SMTT(30), SMTT(45)
<1> QED
  BY <1>2, <1>3, <1>4, <1>5, <1>6, <1>7

(* A record has one parent, so that none of its replies was met before it. *)
LEMMA RepliesAreNew ==
  ASSUME TypeOK, Descends, NEW t \in Ids, t \notin seen, NEW c \in Children(t)
  PROVE  c \notin seen \cup IdsOf(pending)
<1>1. c \in Ids /\ parent[c] = t
  BY DEF Children
<1>2. c # root
  BY <1>1, DescentKnows
<1> QED
  BY <1>1, <1>2 DEF Descends, Frontier

(* Visiting the record moves the frontier to its replies. *)
LEMMA FrontierMoves ==
  ASSUME TypeOK, Descends, pending # <<>>, Top.depth <= MaxDepth,
         NEW k \in Nat, NEW kids \in Listings(Children(Top.id), k)
  PROVE  /\ Frontier(seen \cup {Top.id}, More(kids)) /\ Len(More(kids)) = Len(Rest) + Len(kids)
         /\ Len(kids) < k => Children(Top.id) \subseteq IdsOf(More(kids))
         /\ IdsOf(pending) \subseteq IdsOf(More(kids)) \cup {Top.id}
         /\ kids # <<>> => \E i \in DOMAIN More(kids) : More(kids)[i].depth = Top.depth + 1
<1> DEFINE V == seen \cup {Top.id}
           more == More(kids)
<1>1. /\ Top \in Items /\ Top.id \in Ids /\ Top.depth \in Nat /\ Top.id \notin seen
      /\ Rest \in Seq(Items) /\ UpIn(parent, Top.id, Top.depth) = root
  BY TopIsNew
<1>2. pending \in Seq(Items) /\ Children(Top.id) \in SUBSET Ids
  BY DEF TypeOK, Items, Children
<1>3. /\ kids \in Seq(Ids) /\ DOMAIN kids = 1..Len(kids) /\ Len(kids) \in Nat
      /\ \A i \in DOMAIN kids : kids[i] \in Children(Top.id)
      /\ \A i, j \in DOMAIN kids : kids[i] = kids[j] => i = j
      /\ Len(kids) < k => \A x \in Children(Top.id) : \E i \in DOMAIN kids : kids[i] = x
  BY <1>2, ListingIs
<1>4. /\ more \in Seq(Items) /\ Len(more) = Len(Rest) + Len(kids)
      /\ DOMAIN Rest \subseteq DOMAIN more
      /\ \A i \in DOMAIN Rest : more[i] = Rest[i]
      /\ \A i \in DOMAIN more : i \notin DOMAIN Rest =>
           /\ i \in Nat /\ i - Len(Rest) \in DOMAIN kids
           /\ more[i].id = kids[i - Len(Rest)] /\ more[i].depth = Top.depth + 1
      /\ \A i \in DOMAIN kids : i + Len(Rest) \in DOMAIN more /\ more[i + Len(Rest)].id = kids[i]
  BY <1>3, MoreIs
<1> HIDE DEF more
<1>5. /\ \A i \in DOMAIN Rest : i \in DOMAIN pending /\ i # Len(pending) /\ Rest[i] = pending[i]
      /\ Len(pending) \in DOMAIN pending /\ IdsOf(pending) = IdsOf(Rest) \cup {Top.id}
      /\ DOMAIN Rest = 1..Len(Rest) /\ Len(Rest) \in Nat
  BY <1>2, RestIs
<1>6. IdsOf(Rest) \subseteq IdsOf(more)
  BY <1>4, IdsAre, SMTT(30), SMTT(45)
<1>7. \A i \in DOMAIN more :
        \/ i \in DOMAIN Rest /\ more[i] = pending[i] /\ i \in DOMAIN pending /\ i # Len(pending)
        \/ i \notin DOMAIN Rest /\ more[i].id \in Children(Top.id)
  BY <1>3, <1>4, <1>5, SMTT(30), SMTT(45)
<1>8. \A c \in Children(Top.id) : c \notin seen /\ c \notin IdsOf(pending) /\ c # Top.id
  BY <1>1, <1>5, RepliesAreNew
<1>9. \A i, j \in DOMAIN more : more[i].id = more[j].id => i = j
  <2> SUFFICES ASSUME NEW i \in DOMAIN more, NEW j \in DOMAIN more, more[i].id = more[j].id
               PROVE  i = j
    OBVIOUS
  <2>1. CASE i \in DOMAIN Rest /\ j \in DOMAIN Rest
    BY <1>7, <2>1 DEF Descends, Frontier
  <2>2. CASE i \notin DOMAIN Rest /\ j \notin DOMAIN Rest
    <3>1. i - Len(Rest) = j - Len(Rest)
      BY <1>3, <1>4, <2>2, SMTT(30), SMTT(45)
    <3>2. i \in Nat /\ j \in Nat
      BY <1>4, <2>2
    <3> QED
      BY <1>5, <3>1, <3>2, SMTT(30), SMTT(45)
  <2>3. CASE i \in DOMAIN Rest /\ j \notin DOMAIN Rest
    BY <1>7, <1>8, <2>3, IdsAre
  <2>4. CASE i \notin DOMAIN Rest /\ j \in DOMAIN Rest
    BY <1>7, <1>8, <2>4, IdsAre
  <2> QED
    BY <2>1, <2>2, <2>3, <2>4
<1>10. IdsOf(more) \cap V = {}
  <2> SUFFICES ASSUME NEW i \in DOMAIN more, more[i].id \in V  PROVE FALSE
    BY IdsAre, SMTT(30), SMTT(45)
  <2>1. CASE i \in DOMAIN Rest
    <3>1. more[i] = pending[i] /\ i \in DOMAIN pending /\ i # Len(pending)
      BY <1>7, <2>1
    <3>2. pending[i].id # Top.id /\ pending[i].id \notin seen
      BY <1>5, <3>1, IdsAre DEF Descends, Frontier, Top
    <3> QED
      BY <3>1, <3>2
  <2>2. CASE i \notin DOMAIN Rest
    BY <1>7, <1>8, <2>2
  <2> QED
    BY <2>1, <2>2
<1>11. root \in V \cup IdsOf(more)
  BY <1>5, <1>6 DEF Descends, Frontier
<1>12. ASSUME NEW x \in V \cup IdsOf(more)  PROVE x = root \/ parent[x] \in V
  <2>1. CASE x \in seen \cup IdsOf(pending)
    BY <2>1 DEF Descends, Frontier
  <2>2. CASE x \in Children(Top.id)
    BY <2>2 DEF Children
  <2>3. x \in seen \cup IdsOf(pending) \/ x \in Children(Top.id)
    BY <1>5, <1>7, IdsAre, SMTT(30), SMTT(45)
  <2> QED
    BY <2>1, <2>2, <2>3
<1>13. ASSUME NEW i \in DOMAIN more  PROVE UpIn(parent, more[i].id, more[i].depth) = root
  <2>1. CASE i \in DOMAIN Rest
    BY <1>7, <2>1, SMTT(30), SMTT(45) DEF Descends, Frontier
  <2>2. CASE i \notin DOMAIN Rest
    <3> DEFINE c == more[i].id
    <3>1. c \in Ids /\ parent[c] = Top.id /\ more[i].depth = Top.depth + 1
      BY <1>4, <1>7, <2>2 DEF Children
    <3> HIDE DEF c
    <3>2. parent \in AnyGraph
      BY DescentKnows
    <3>3. UpIn(parent, c, Top.depth + 1) = UpIn(parent, Top.id, Top.depth)
      BY <1>1, <3>1, <3>2, UpOfReply
    <3> QED
      BY <1>1, <3>1, <3>3 DEF c
  <2> QED
    BY <2>1, <2>2
<1>14. \A x \in V : \E d \in Nat : d <= MaxDepth /\ UpIn(parent, x, d) = root
  BY <1>1 DEF Descends, Frontier
<1>15. Frontier(V, more)
  BY <1>4, <1>9, <1>10, <1>11, <1>12, <1>13, <1>14 DEF Frontier, Items
<1>16. Len(kids) < k => Children(Top.id) \subseteq IdsOf(more)
  BY <1>3, <1>4, IdsAre, SMTT(30), SMTT(45)
<1>17. kids # <<>> => \E i \in DOMAIN more : more[i].depth = Top.depth + 1
  <2> SUFFICES ASSUME kids # <<>>  PROVE \E i \in DOMAIN more : more[i].depth = Top.depth + 1
    OBVIOUS
  <2>1. 1 \in DOMAIN kids
    BY <1>3, EmptySeq, SMTT(30), SMTT(45)
  <2>2. 1 + Len(Rest) \notin DOMAIN Rest
    BY <1>5, SMTT(30), SMTT(45)
  <2> QED
    BY <1>4, <2>1, <2>2
<1> QED
  BY <1>4, <1>5, <1>6, <1>15, <1>16, <1>17 DEF more

(* The budget of a visit, as remaining_nodes and remaining_edges have it: *)
(* v records visited, w waiting, e edges, of which a led to the root.      *)
LEMMA RemainingIs ==
  ASSUME edges \in Nat, NEW v \in Nat, NEW w \in Nat, v + w <= MaxNodes, edges <= MaxEdges, NEW n \in Nat
  PROVE  /\ Remaining(v, w) \in Nat /\ Remaining(v, w) + 1 \in Nat
         /\ n <= Remaining(v, w) => /\ n < Remaining(v, w) + 1
                                    /\ v + w + n <= MaxNodes /\ edges + n <= MaxEdges
         /\ n > Remaining(v, w) => v + w + n > MaxNodes \/ edges + n > MaxEdges
         /\ n > Remaining(v, w) \/ n <= Remaining(v, w)
<1>1. MaxNodes \in Nat /\ MaxEdges \in Nat
  BY ConstantsAssumption
<1>2. CASE MaxNodes - v - w < MaxEdges - edges
  <2>1. Remaining(v, w) = MaxNodes - v - w
    BY <1>2 DEF Remaining, Smaller
  <2> QED
    BY <1>1, <1>2, <2>1, SMTT(30), SMTT(45)
<1>3. CASE ~ (MaxNodes - v - w < MaxEdges - edges)
  <2>1. Remaining(v, w) = MaxEdges - edges
    BY <1>3 DEF Remaining, Smaller
  <2> QED
    BY <1>1, <1>3, <2>1, SMTT(30), SMTT(45)
<1> QED
  BY <1>2, <1>3

LEMMA Budget ==
  ASSUME NEW e \in Nat, NEW a \in Nat, NEW v \in Nat, NEW w \in Nat, NEW n \in Nat, e + 1 = a + v + w
  PROVE  /\ v + w + n > MaxNodes \/ e + n > MaxEdges => v + (w + n) > MaxNodes \/ a + (v + (w + n)) - 1 > MaxEdges
         /\ (e + n) + 1 = a + v + (w + n)
         /\ v + w + n <= MaxNodes => v + (w + n) <= MaxNodes
  BY ConstantsAssumption, SMTT(30), SMTT(45)

(* One round of thread_ids. *)
LEMMA DescendKeeps ==
  ASSUME SearchInv, Descend
  PROVE  SearchInv'
<1> DEFINE V == seen \cup {Top.id}
           r == Remaining(Cardinality(V), Len(Rest))
<1>1. TypeOK /\ Descends /\ pending # <<>> /\ step = "descend"
  BY DEF SearchInv, Descend
<1>2. /\ Top.id \in Ids /\ Top.depth \in Nat /\ Top.id \notin seen
      /\ Rest \in Seq(Items) /\ Len(Rest) \in Nat /\ Len(pending) = Len(Rest) + 1
      /\ Cardinality(seen) \in Nat /\ Cardinality(V) = Cardinality(seen) + 1
      /\ Cardinality(V) + Len(Rest) = Cardinality(seen) + Len(pending)
  BY <1>1, TopIsNew
<1>3. seen' = V /\ UNCHANGED <<parent, anchor, root, ancestors, resolved>>
  BY DEF Descend, Top
<1>4. Above' = Above /\ Exceeds' = Exceeds
  BY <1>3 DEF Above, Exceeds
<1>5. /\ parent \in AnyGraph /\ anchor \in Ids /\ root \in Ids /\ Above \in Nat
      /\ edges \in Nat /\ V \in SUBSET Ids /\ result \in Seq(Ids)
  BY <1>1, <1>2, DescentKnows DEF TypeOK
<1>6. CASE Cardinality(V) > MaxNodes \/ Top.depth > MaxDepth
  <2>1. step' = "limit" /\ pending' = Rest /\ UNCHANGED <<edges, result>>
    BY <1>2, <1>6 DEF Descend, Top, Rest
  <2>2. TypeOK'
    BY <1>1, <1>2, <1>3, <1>5, <2>1 DEF TypeOK, Items
  <2>3. Top.depth > MaxDepth
    <3>1. Cardinality(seen) + Len(pending) <= MaxNodes
      BY <1>1 DEF Descends
    <3> HIDE DEF V
    <3>2. ~ (Cardinality(V) > MaxNodes)
      BY <1>2, <3>1, ConstantsAssumption, SMTT(30), SMTT(45)
    <3> QED
      BY <1>6, <3>2
  <2>4. Exceeds
    <3>1. Len(pending) \in DOMAIN pending /\ Top.id \in IdsOf(pending)
      BY <1>1, RestIs
    <3>2. Frontier(seen, pending) /\ seen \in SUBSET Ids
      BY <1>1 DEF Descends, TypeOK
    <3>3. DepthIn(parent, Top.id) = Top.depth /\ Top.id \in TreeIn(parent, anchor)
      BY <1>1, <3>1, <3>2, FoundIsInTree DEF Top
    <3> QED
      BY <2>3, <3>3 DEF Exceeds
  <2> QED
    BY <1>4, <2>1, <2>2, <2>4 DEF SearchInv
<1>7. CASE ~ (Cardinality(V) > MaxNodes \/ Top.depth > MaxDepth)
  <2>1. /\ result' = Append(result, Top.id)
        /\ \E kids \in Listings(Children(Top.id), Lookahead(r)) :
             /\ edges' = edges + Len(kids)
             /\ IF Len(kids) > r \/ (Top.depth = MaxDepth /\ kids # <<>>)
                  THEN step' = "limit" /\ pending' = Rest
                  ELSE pending' = More(kids) /\ UNCHANGED step
    BY <1>2, <1>7 DEF Descend, Visit, Top, Rest, More
  <2>2. PICK kids \in Listings(Children(Top.id), r + 1) :
             /\ edges' = edges + Len(kids)
             /\ IF Len(kids) > r \/ (Top.depth = MaxDepth /\ kids # <<>>)
                  THEN step' = "limit" /\ pending' = Rest
                  ELSE pending' = More(kids) /\ UNCHANGED step
    BY <2>1 DEF Lookahead
  <2> DEFINE more == More(kids)
             M == V \cup IdsOf(more)
             v == Cardinality(V)
  <2>3. /\ edges + 1 = Above + v + Len(Rest) /\ v + Len(Rest) <= MaxNodes /\ edges <= MaxEdges /\ v \in Nat
    <3>1. /\ edges + 1 = Above + Cardinality(seen) + Len(pending)
          /\ Cardinality(seen) + Len(pending) <= MaxNodes /\ edges <= MaxEdges
      BY <1>1 DEF Descends
    <3> HIDE DEF V
    <3>2. /\ Cardinality(V) = Cardinality(seen) + 1 /\ Len(pending) = Len(Rest) + 1
          /\ Cardinality(seen) \in Nat /\ Len(Rest) \in Nat /\ Above \in Nat /\ edges \in Nat
      BY <1>2, <1>5
    <3> QED
      BY <3>1, <3>2, ConstantsAssumption, SMTT(30), SMTT(45)
  <2>4. /\ r \in Nat /\ r + 1 \in Nat
        /\ \A n \in Nat : n <= r => n < r + 1 /\ v + Len(Rest) + n <= MaxNodes /\ edges + n <= MaxEdges
        /\ \A n \in Nat : n > r => v + Len(Rest) + n > MaxNodes \/ edges + n > MaxEdges
        /\ \A n \in Nat : n > r \/ n <= r
    <3>1. 0 \in Nat
      BY SMTT(30), SMTT(45)
    <3> HIDE DEF V
    <3> QED
      BY <1>2, <1>5, <2>3, <3>1, RemainingIs
  <2> HIDE DEF r
  <2>5. Top.depth <= MaxDepth
    BY <1>2, <1>7, ConstantsAssumption, SMTT(30), SMTT(45)
  <2>6. /\ Frontier(V, more) /\ Len(more) = Len(Rest) + Len(kids)
        /\ Len(kids) < r + 1 => Children(Top.id) \subseteq IdsOf(more)
        /\ IdsOf(pending) \subseteq IdsOf(more) \cup {Top.id}
        /\ kids # <<>> => \E i \in DOMAIN more : more[i].depth = Top.depth + 1
    BY <1>1, <2>4, <2>5, FrontierMoves
  <2>7. Len(kids) \in Nat /\ edges' \in Nat
    <3>1. Children(Top.id) \in SUBSET Ids
      BY DEF Children
    <3>2. Len(kids) \in Nat
      BY <2>4, <3>1, ListingIs
    <3> QED
      BY <1>5, <2>2, <3>2, SMTT(30), SMTT(45)
  <2> HIDE DEF V, more
  <2>8. /\ M \subseteq TreeIn(parent, anchor) /\ Cardinality(M) = v + Len(more)
        /\ \A i \in DOMAIN more : DepthIn(parent, more[i].id) = more[i].depth /\ more[i].id \in M
    BY <1>1, <1>5, <2>6, FoundIsInTree, IdsAre
  <2>9. /\ result' \in Seq(Ids) /\ Len(result') = Len(result) + 1
        /\ {result'[i] : i \in DOMAIN result'} = {result[i] : i \in DOMAIN result} \cup {Top.id}
    <3>1. /\ result' \in Seq(Ids) /\ Len(result') = Len(result) + 1 /\ Len(result) \in Nat
          /\ DOMAIN result = 1..Len(result) /\ DOMAIN result' = 1..Len(result')
          /\ \A i \in 1..Len(result) : result'[i] = result[i]
          /\ result'[Len(result) + 1] = Top.id
      BY <1>2, <1>5, <2>1, AppendProperties, LenProperties, SMTT(30), SMTT(45)
    <3>2. \A i : i \in 1..(Len(result) + 1) <=> i \in 1..Len(result) \/ i = Len(result) + 1
      BY <3>1, SMTT(30), SMTT(45)
    <3> QED
      BY <3>1, <3>2
  <2>10. CASE Len(kids) > r \/ (Top.depth = MaxDepth /\ kids # <<>>)
    <3>1. step' = "limit" /\ pending' = Rest
      BY <2>2, <2>10
    <3>2. TypeOK'
      BY <1>1, <1>2, <1>3, <1>5, <2>7, <2>9, <3>1 DEF TypeOK, Items
    <3>3. ASSUME Len(kids) > r  PROVE Exceeds
      <4> HIDE DEF v, M
      <4>1. v + Len(Rest) + Len(kids) > MaxNodes \/ edges + Len(kids) > MaxEdges
        BY <2>4, <2>7, <3>3
      <4>2. Cardinality(M) > MaxNodes \/ Above + Cardinality(M) - 1 > MaxEdges
        <5>1. Cardinality(M) = v + (Len(Rest) + Len(kids))
          BY <2>6, <2>8
        <5> QED
          BY <1>2, <1>5, <2>3, <2>7, <4>1, <5>1, Budget, SMTT(30), SMTT(45)
      <4>3. M \in SUBSET TreeIn(parent, anchor)
        BY <2>8
      <4>4. parent \in AnyGraph /\ anchor \in Ids
        BY <1>5
      <4> QED
        BY <4>2, <4>3, <4>4, Exceeded
    <3>4. ASSUME Top.depth = MaxDepth, kids # <<>>  PROVE Exceeds
      <4>1. PICK i \in DOMAIN more : more[i].depth = Top.depth + 1
        BY <2>6, <3>4
      <4>2. DepthIn(parent, more[i].id) = MaxDepth + 1 /\ more[i].id \in TreeIn(parent, anchor)
        BY <2>8, <3>4, <4>1
      <4>3. MaxDepth + 1 > MaxDepth
        BY ConstantsAssumption, SMTT(30), SMTT(45)
      <4>4. DepthIn(parent, more[i].id) > MaxDepth
        BY <4>2, <4>3
      <4> QED
        BY <4>2, <4>4 DEF Exceeds
    <3> QED
      BY <1>4, <2>10, <3>1, <3>2, <3>3, <3>4 DEF SearchInv
  <2>11. CASE ~ (Len(kids) > r \/ (Top.depth = MaxDepth /\ kids # <<>>))
    <3>1. step' = "descend" /\ pending' = more
      BY <1>1, <2>2, <2>11 DEF more
    <3>2. Len(kids) <= r
      BY <2>4, <2>7, <2>11, SMTT(30), SMTT(45)
    <3>3. TypeOK'
      BY <1>1, <1>3, <1>5, <2>6, <2>7, <2>9, <3>1 DEF TypeOK, Frontier
    <3>4. Frontier(seen, pending)'
      BY <1>3, <2>6, <3>1, SMTT(30), SMTT(45) DEF Frontier, IdsOf
    <3>5. ASSUME NEW x \in seen'  PROVE Children(x)' \subseteq seen' \cup IdsOf(pending')
      <4>1. Children(x)' = Children(x)
        BY <1>3 DEF Children
      <4>2. CASE x \in seen
        BY <1>1, <1>3, <2>6, <3>1, <4>1, <4>2 DEF Descends, V
      <4>3. CASE x = Top.id
        BY <2>4, <2>6, <2>7, <3>1, <3>2, <4>1, <4>3
      <4> QED
        BY <1>3, <4>2, <4>3 DEF V
    <3>6. {result'[i] : i \in DOMAIN result'} = seen' /\ Len(result') = Cardinality(seen')
      BY <1>1, <1>2, <1>3, <2>9 DEF Descends, V
    <3>7. /\ edges' + 1 = Above + v + Len(more) /\ v + Len(more) <= MaxNodes /\ edges' <= MaxEdges
      <4> HIDE DEF v
      <4>1. v + Len(Rest) + Len(kids) <= MaxNodes /\ edges + Len(kids) <= MaxEdges /\ edges' = edges + Len(kids)
        BY <2>2, <2>4, <2>7, <3>2
      <4>2. Len(more) = Len(Rest) + Len(kids)
        BY <2>6
      <4>3. /\ (edges + Len(kids)) + 1 = Above + v + (Len(Rest) + Len(kids))
            /\ v + (Len(Rest) + Len(kids)) <= MaxNodes
        <5>1. /\ edges \in Nat /\ Above \in Nat /\ v \in Nat /\ Len(Rest) \in Nat /\ Len(kids) \in Nat
              /\ edges + 1 = Above + v + Len(Rest)
          BY <1>2, <1>5, <2>3, <2>7
        <5>2. v + Len(Rest) + Len(kids) <= MaxNodes
          BY <4>1
        <5> QED
          BY <5>1, <5>2, SMTT(30), SMTT(45)
      <4> QED
        BY <4>1, <4>2, <4>3
    <3>8. /\ Above' < N /\ Above' <= MaxDepth /\ root' = UpIn(parent', anchor', Above')
          /\ resolved' = (parent'[root'] = 0)
      BY <1>1, <1>3, <1>4 DEF Descends
    <3>9. /\ edges' + 1 = Above' + Cardinality(seen') + Len(pending')
          /\ Cardinality(seen') + Len(pending') <= MaxNodes /\ edges' <= MaxEdges
      BY <1>3, <1>4, <3>1, <3>7
    <3>10. Descends'
      BY <3>4, <3>5, <3>6, <3>8, <3>9 DEF Descends, IdsOf
    <3> QED
      BY <3>1, <3>3, <3>10 DEF SearchInv
  <2> QED
    BY <2>10, <2>11
<1> QED
  BY <1>6, <1>7

(* The search of thread_ids is over when nothing is left to visit. *)
LEMMA ReturnKeeps ==
  ASSUME SearchInv, Return
  PROVE  SearchInv'
<1>1. TypeOK /\ Descends /\ pending = <<>>
  BY DEF SearchInv, Return
<1>2. step' = "ok" /\ UNCHANGED <<parent, anchor, root, ancestors, edges, resolved, pending, seen, result>>
  BY DEF Return
<1>3. TypeOK'
  BY <1>1, <1>2 DEF TypeOK
<1>4. Descends'
  BY <1>1, <1>2, SMTT(30), SMTT(45) DEF Descends, Above, Frontier, Children
<1> QED
  BY <1>1, <1>2, <1>3, <1>4 DEF SearchInv

LEMMA SearchStarts ==
  ASSUME Init
  PROVE  SearchInv
<1>1. /\ parent \in AnyGraph /\ anchor \in Ids /\ step = "ascend" /\ root = anchor /\ ancestors = {}
      /\ edges = 0 /\ resolved = FALSE /\ pending = <<>> /\ seen = {} /\ result = <<>>
  BY ConstantsAssumption DEF Init, AnyGraph
<1>2. 0 \in Nat /\ 0 <= MaxDepth /\ 0 <= MaxEdges
  BY ConstantsAssumption, SMTT(30), SMTT(45)
<1>3. <<>> \in Seq([id : Ids, depth : Nat]) /\ <<>> \in Seq(Ids)
  BY SMTT(30), SMTT(45)
<1>4. TypeOK
  BY <1>1, <1>2, <1>3 DEF TypeOK, AnyGraph
<1>5. root = UpIn(parent, anchor, edges)
  BY <1>1, UpStart
<1>6. Cardinality(ancestors) = edges
  BY <1>1, FS_EmptySet
<1>7. Climbs
  BY <1>1, <1>2, <1>5, <1>6 DEF Climbs
<1> QED
  BY <1>1, <1>4, <1>7 DEF SearchInv

(* The climb of thread_root_id has met a record at each of its edges, and  *)
(* the search of thread_ids holds a part of the tree that is closed        *)
(* upwards, each record once and one edge counted for each; a refusal is   *)
(* given only for a tree that exceeds a limit or a climb that has no end.  *)
THEOREM SearchInvariant == Spec => []SearchInv
<1>1. SearchInv /\ UNCHANGED vars => SearchInv'
  BY SMTT(30), SMTT(45) DEF SearchInv, TypeOK, Climbs, Descends, Above, Frontier, Children, Exceeds, vars
<1>2. SearchInv /\ [Next]_vars => SearchInv'
  BY <1>1, AscendKeeps, DescendKeeps, ReturnKeeps DEF Next
<1> QED
  BY <1>2, SearchStarts, PTL DEF Spec

(* The subtractions of thread_ids never go below 0, whatever the graph. *)
THEOREM BudgetsHold == Spec => []NoUnderflow
<1>1. SearchInv => NoUnderflow
  BY DEF SearchInv, Descends, NoUnderflow
<1> QED
  BY <1>1, SearchInvariant, PTL

-----------------------------------------------------------------------------
(* What a thread holds *)

(* When nothing is left to visit, what was visited is the tree: from any    *)
(* of its records the climb comes to the root, and down again every record  *)
(* is a reply to a visited one.                                             *)
LEMMA SearchIsWhole ==
  ASSUME TypeOK, Descends, pending = <<>>
  PROVE  seen = TreeIn(parent, anchor)
<1>1. /\ parent \in AnyGraph /\ anchor \in Ids /\ Above \in Nat /\ UpIn(parent, anchor, Above) = root
      /\ seen \in SUBSET Ids /\ Frontier(seen, pending)
  BY DescentKnows DEF TypeOK, Descends
<1>2. IdsOf(pending) = {}
  BY SMTT(30), SMTT(45) DEF IdsOf
<1>3. seen \subseteq TreeIn(parent, anchor)
  BY <1>1, FoundIsInTree
<1>4. root \in seen /\ \A x \in seen : Children(x) \subseteq seen
  BY <1>1, <1>2 DEF Descends, Frontier
<1>5. ASSUME NEW q \in TreeIn(parent, anchor)
      PROVE  q \in seen
  <2> DEFINE d == DepthIn(parent, q)
             T == {i \in Nat : i <= d => UpIn(parent, q, d - i) \in seen}
  <2>1. q \in Ids /\ d < N /\ UpIn(parent, q, d) = root
    BY <1>1 DEF TreeIn, Above
  <2>2. d \in Nat
    BY <1>1, <2>1, DepthIsEnd
  <2> HIDE DEF d
  <2>3. 0 \in Nat /\ d - 0 = d /\ d <= d /\ d - d = 0
    BY <2>2, SMTT(30), SMTT(45)
  <2>4. 0 \in T
    BY <1>4, <2>1, <2>3
  <2>5. ASSUME NEW i \in Nat, i \in T
        PROVE  i + 1 \in T
    <3>1. i + 1 \in Nat
      BY SMTT(30), SMTT(45)
    <3>2. ASSUME i + 1 <= d
          PROVE  UpIn(parent, q, d - (i + 1)) \in seen
      <4>1. /\ d - (i + 1) \in Nat /\ (d - (i + 1)) + 1 = d - i /\ i <= d /\ d - (i + 1) <= d
        BY <2>2, <3>2, SMTT(30), SMTT(45)
      <4>2. UpIn(parent, q, (d - (i + 1)) + 1) \in seen
        BY <2>5, <4>1
      <4> DEFINE k == d - (i + 1)
      <4> HIDE DEF k
      <4>3. k \in Nat /\ k <= d /\ UpIn(parent, q, k + 1) \in seen
        BY <4>1, <4>2 DEF k
      <4>4. UpIn(parent, q, d) \in Ids
        BY <1>1, <1>4, <2>1
      <4>5. UpIn(parent, q, k) \in Ids
        BY <1>1, <2>2, <4>3, <4>4, UpBelow
      <4>6. UpIn(parent, q, k + 1) = parent[UpIn(parent, q, k)]
        BY <4>3, <4>5, UpNext
      <4>7. UpIn(parent, q, k) \in Children(UpIn(parent, q, k + 1))
        BY <4>5, <4>6 DEF Children
      <4> QED
        BY <1>4, <4>3, <4>7 DEF k
    <3> QED
      BY <3>1, <3>2
  <2>6. d \in T
    <3>1. T \in SUBSET Nat
      OBVIOUS
    <3> HIDE DEF T
    <3> QED
      BY <2>2, <2>4, <2>5, <3>1, AllNumbers
  <2>7. UpIn(parent, q, 0) \in seen
    BY <2>3, <2>6
  <2> QED
    BY <2>7, UpStart
<1> QED
  BY <1>3, <1>5

(* A tree that was searched to its end is within the limits. *)
LEMMA SearchIsWithin ==
  ASSUME TypeOK, Descends, pending = <<>>
  PROVE  ~Exceeds
<1>1. seen = TreeIn(parent, anchor)
  BY SearchIsWhole
<1>2. seen \in SUBSET Ids /\ Frontier(seen, pending) /\ edges \in Nat /\ Above \in Nat
  BY DescentKnows DEF TypeOK, Descends
<1>3. \A x \in seen : DepthIn(parent, x) <= MaxDepth /\ DepthIn(parent, x) \in Nat
  BY <1>2, FoundIsInTree, DepthIsEnd, DescentKnows
<1>4. MaxDepth \in Nat /\ MaxNodes \in Nat /\ MaxEdges \in Nat /\ Cardinality(seen) \in Nat
  BY <1>2, IdsAreFinite, ConstantsAssumption
<1>5. /\ edges + 1 = Above + Cardinality(seen) + 0 /\ Cardinality(seen) + 0 <= MaxNodes /\ edges <= MaxEdges
  BY EmptySeq DEF Descends
<1>6. ~ (Cardinality(seen) > MaxNodes) /\ ~ (Above + Cardinality(seen) - 1 > MaxEdges)
  BY <1>2, <1>4, <1>5, SMTT(30), SMTT(45)
<1>7. ASSUME NEW x \in seen
      PROVE  ~ (DepthIn(parent, x) > MaxDepth)
  BY <1>3, <1>4, SMTT(30), SMTT(45)
<1> QED
  BY <1>1, <1>6, <1>7 DEF Exceeds

(* thread_ids returns the whole tree of the record that was asked for,     *)
(* each record once, refuses a tree exactly when it exceeds a limit and    *)
(* finds corrupt only what has no root: on any graph, whole or damaged.    *)
THEOREM ThreadsAreExact == Spec => []ThreadIsExact
<1>1. Depth(anchor) = Above /\ Tree(anchor) = TreeIn(parent, anchor) /\ (ExceedsLimits <=> Exceeds)
  BY InTheGraph DEF Above, ExceedsLimits, Exceeds
<1>2. ASSUME SearchInv
      PROVE  ThreadIsExact
  <2>1. TypeOK
    BY <1>2 DEF SearchInv
  <2>2. Above \in Nat /\ N \in Nat
    BY <2>1, DepthIsEnd, Numbers DEF Above, TypeOK, AnyGraph
  <2>3. Above = N => ~ (Above < N)
    BY <2>2, SMTT(30), SMTT(45)
  <2>4. step = "ok" => Descends /\ pending = <<>>
    BY <1>2 DEF SearchInv
  <2>5. step = "ok" => /\ {result[i] : i \in DOMAIN result} = TreeIn(parent, anchor)
                       /\ Len(result) = Cardinality(TreeIn(parent, anchor))
                       /\ ~Exceeds
    BY <2>1, <2>4, SearchIsWhole, SearchIsWithin DEF Descends
  <2>6. step \in {"descend", "ok"} => Above < N
    BY <1>2 DEF SearchInv, Descends
  <2>7. Above < N => step # "corrupt"
    BY <1>2, <2>3 DEF SearchInv
  <2>8. Above < N => (step = "limit" => Exceeds)
    BY <1>2 DEF SearchInv
  <2>9. ~ (Above < N) => step \in {"ascend", "limit", "corrupt"}
    BY <2>1, <2>6 DEF TypeOK
  <2> QED
    BY <1>1, <2>1, <2>5, <2>7, <2>8, <2>9 DEF ThreadIsExact
<1> QED
  BY <1>2, SearchInvariant, PTL

(* The recursive query of get_thread_roots_as and the climb of             *)
(* thread_root_id name the same root, on any graph.                        *)
THEOREM RootsAreOne == Spec => []RootsAgree
<1>1. ASSUME SearchInv
      PROVE  RootsAgree
  <2>1. TypeOK /\ parent \in AnyGraph /\ anchor \in Ids
    BY <1>1 DEF SearchInv, TypeOK, AnyGraph
  <2>2. /\ Above \in Nat /\ N \in Nat /\ MaxDepth \in Nat
        /\ \A e \in Nat : Ends(parent, anchor, e) => e = Above /\ e < N
    BY <2>1, DepthIsEnd, DepthOfEnd, Numbers, ConstantsAssumption DEF Above
  <2>3. ASSUME step \in {"descend", "ok"}
        PROVE  ThreadRoot(anchor) = IF resolved THEN root ELSE anchor
    <3>1. Descends /\ Above <= MaxDepth /\ resolved = (parent[root] = 0)
      BY <1>1, <2>3 DEF SearchInv, Descends
    <3>2. Ends(parent, anchor, Above) /\ UpIn(parent, anchor, Above) = root
      BY <2>1, <3>1, DescentKnows
    <3>3. Deepest(anchor) = root
      BY <2>1, <2>2, <3>1, <3>2, RootOfEnd
    <3> QED
      BY <3>1, <3>3 DEF ThreadRoot
  <2>4. ASSUME step = "corrupt" \/ (step = "limit" /\ Depth(anchor) > MaxDepth)
        PROVE  ThreadRoot(anchor) = anchor
    <3>1. Above = N \/ Above > MaxDepth
      BY <1>1, <2>4, InTheGraph DEF SearchInv, Above
    <3>2. ASSUME NEW e \in Nat, e <= MaxDepth, Ends(parent, anchor, e)
          PROVE  FALSE
      <4>1. e = Above /\ e < N
        BY <2>2, <3>2
      <4> QED
        BY <2>2, <3>1, <3>2, <4>1, SMTT(30), SMTT(45)
    <3> QED
      BY <2>1, <3>2, RootOfNoEnd
  <2> QED
    BY <2>3, <2>4 DEF RootsAgree
<1> QED
  BY <1>1, SearchInvariant, PTL
=============================================================================
