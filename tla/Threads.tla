------------------------------ MODULE Threads ------------------------------
(***************************************************************************)
(* The thread of a record (crates/journal-service/src/records.rs):         *)
(* thread_root_id climbs from a record to the root of its reply-to tree,   *)
(* thread_ids collects the tree below the root, within limits on depth,    *)
(* nodes and edges; get_thread_roots_as resolves the roots of many records *)
(* with one recursive query. All of it happens in one read transaction, on *)
(* one graph of reply-to relations; a record has at most one (the index    *)
(* one_reply_to_per_record), to an older record of its space.              *)
(***************************************************************************)
EXTENDS Naturals, Sequences, FiniteSets

CONSTANTS
  N,                              \* number of records in the space
  Graphs,                         \* the graphs that may be found
  MaxDepth, MaxNodes, MaxEdges    \* THREAD_MAX_DEPTH, _NODES and _EDGES

Ids == 1..N

(* The parent of a record that replies to one that is missing or in another *)
(* space: appends cannot make one, and the code does not rely on that.      *)
Elsewhere == N + 1

(* A graph gives each record its parent, 0 when it has none. *)
ASSUME ConstantsAssumption ==
  /\ N \in Nat /\ MaxDepth \in Nat /\ MaxEdges \in Nat
  /\ MaxNodes \in Nat \ {0}
  /\ Graphs \subseteq [Ids -> 0..Elsewhere]

VARIABLES
  parent,      \* the graph that is read
  anchor,      \* the record that was asked for
  step,        \* "ascend", "descend" or the outcome
  root, ancestors, edges, resolved,     \* locals of thread_root_id
  pending, seen, result                 \* locals of thread_ids

vars == <<parent, anchor, step, root, ancestors, edges, resolved, pending, seen, result>>

-----------------------------------------------------------------------------
(* thread_root_id, one round of its loop *)

BugTooDeep == Cardinality(ancestors \cup {root}) >= MaxDepth \/ edges + 1 > MaxEdges

(* Checked with the current node in ancestors and its edge counted. *)
TooDeep == Cardinality(ancestors \cup {root}) > MaxDepth \/ edges + 1 > MaxEdges

Stop(outcome) ==
  /\ step' = outcome
  /\ UNCHANGED <<root, edges, resolved, pending>>

BugResolved == TRUE

(* The node the climb ends at may still be a reply, to a record elsewhere. *)
Resolved == parent[root] = 0

(* The climb is over, and thread_ids starts where it ended. *)
AtRoot ==
  /\ step' = "descend"
  /\ resolved' = Resolved
  /\ pending' = <<[id |-> root, depth |-> 0]>>
  /\ UNCHANGED <<root, edges>>

Climb ==
  /\ root' = parent[root]
  /\ edges' = edges + 1
  /\ UNCHANGED <<step, resolved, pending>>

Ascend ==
  /\ step = "ascend"
  /\ ancestors' = ancestors \cup {root}
  /\ UNCHANGED <<parent, anchor, seen, result>>
  /\ \/ root \in ancestors /\ Stop("corrupt")
     \/ /\ root \notin ancestors
        /\ Cardinality(ancestors') > MaxNodes \/ (parent[root] \in Ids /\ TooDeep)
        /\ Stop("limit")
     \/ /\ root \notin ancestors
        /\ Cardinality(ancestors') <= MaxNodes
        /\ \/ parent[root] \notin Ids /\ AtRoot
           \/ parent[root] \in Ids /\ ~TooDeep /\ Climb

-----------------------------------------------------------------------------
(* thread_ids, one round of its loop *)

Children(id) == {c \in Ids : parent[c] = id}

Smaller(a, b) == IF a < b THEN a ELSE b

(* ORDER BY ... LIMIT: the first k rows, in order. *)
Listings(S, k) ==
  {s \in [1..Smaller(Cardinality(S), k) -> S] :
     /\ \A i, j \in DOMAIN s : i < j => s[i] < s[j]
     /\ \A x \in S : (\E i \in DOMAIN s : x < s[i]) => \E i \in DOMAIN s : x = s[i]}

BugRemaining(visited, waiting) == Smaller(MaxNodes - visited, MaxEdges - edges)

(* usize subtractions: they must not go below 0. *)
Remaining(visited, waiting) == Smaller(MaxNodes - visited - waiting, MaxEdges - edges)

(* One row more than may be used, to see that there are too many. *)
Lookahead(remaining) == remaining + 1

(* A record is visited: refused, or its replies are left to visit. *)
Visit(top, rest, remaining) ==
  /\ result' = Append(result, top.id)
  /\ \E kids \in Listings(Children(top.id), Lookahead(remaining)) :
       /\ edges' = edges + Len(kids)
       /\ IF Len(kids) > remaining \/ (top.depth = MaxDepth /\ kids # <<>>)
            THEN step' = "limit" /\ pending' = rest
            ELSE /\ pending' = rest \o [i \in 1..Len(kids) |-> [id |-> kids[i], depth |-> top.depth + 1]]
                 /\ UNCHANGED step

Descend ==
  LET top == pending[Len(pending)]
      rest == SubSeq(pending, 1, Len(pending) - 1)
      visited == seen \cup {top.id}
      overrun == Cardinality(visited) > MaxNodes \/ top.depth > MaxDepth
  IN
  /\ step = "descend"
  /\ pending # <<>>
  /\ seen' = visited
  /\ IF top.id \in seen \/ overrun
       THEN /\ step' = IF top.id \in seen THEN "corrupt" ELSE "limit"
            /\ pending' = rest
            /\ UNCHANGED <<edges, result>>
       ELSE Visit(top, rest, Remaining(Cardinality(visited), Len(rest)))
  /\ UNCHANGED <<parent, anchor, root, ancestors, resolved>>

Return ==
  /\ step = "descend"
  /\ pending = <<>>
  /\ step' = "ok"
  /\ UNCHANGED <<parent, anchor, root, ancestors, edges, resolved, pending, seen, result>>

-----------------------------------------------------------------------------
Init ==
  /\ parent \in Graphs
  /\ anchor \in Ids
  /\ step = "ascend"
  /\ root = anchor
  /\ ancestors = {}
  /\ edges = 0
  /\ resolved = FALSE
  /\ pending = <<>> /\ seen = {} /\ result = <<>>

Next == Ascend \/ Descend \/ Return

Spec == Init /\ [][Next]_vars

-----------------------------------------------------------------------------
(* Reference: the reply-to tree of a record *)

(* The node reached after k steps towards the root, 0 beyond its end. *)
Up(r, k) ==
  LET up[i \in 0..k] == IF i = 0 THEN r ELSE IF up[i - 1] \in Ids THEN parent[up[i - 1]] ELSE 0
  IN up[k]

(* How far r is from where its climb ends; N when it runs in a circle. *)
Depth(r) ==
  IF \E k \in 0..(N - 1) : Up(r, k + 1) \notin Ids
    THEN CHOOSE k \in 0..(N - 1) : Up(r, k) \in Ids /\ Up(r, k + 1) \notin Ids
    ELSE N

Tree(r) == {q \in Ids : Depth(q) < N /\ Up(q, Depth(q)) = Up(r, Depth(r))}

(* get_thread_roots_as: the chain of ancestors that the recursive query     *)
(* lists, and the deepest of them if it is no reply, else the record itself.*)
Chain(r) ==
  {k \in 0..MaxDepth : Up(r, k) \in Ids /\ \A i, j \in 0..k : i < j => Up(r, i) # Up(r, j)}

Deepest(r) == Up(r, CHOOSE k \in Chain(r) : \A j \in Chain(r) : j <= k)

ThreadRoot(r) == IF parent[Deepest(r)] = 0 THEN Deepest(r) ELSE r

-----------------------------------------------------------------------------
(* Properties *)

(* Every variable has its type. *)
TypeOK ==
  /\ parent \in [Ids -> 0..Elsewhere]
  /\ anchor \in Ids
  /\ step \in {"ascend", "descend", "ok", "limit", "corrupt"}
  /\ root \in Ids
  /\ ancestors \in SUBSET Ids
  /\ edges \in Nat
  /\ resolved \in BOOLEAN
  /\ pending \in Seq([id : Ids, depth : Nat])
  /\ seen \in SUBSET Ids
  /\ result \in Seq(Ids)

(* thread_ids subtracts what was used from the limits in unsigned numbers: *)
(* while it goes on, neither budget is ever overdrawn.                     *)
NoUnderflow ==
  step = "descend" => Cardinality(seen) + Len(pending) <= MaxNodes /\ edges <= MaxEdges

ExceedsLimits ==
  \/ \E r \in Tree(anchor) : Depth(r) > MaxDepth
  \/ Cardinality(Tree(anchor)) > MaxNodes
  \/ Depth(anchor) + Cardinality(Tree(anchor)) - 1 > MaxEdges

(* A thread that is returned is the whole tree of the record, each record  *)
(* once, whichever of its records was asked for, and although the file may *)
(* hold circles and replies to records elsewhere. A tree is refused        *)
(* exactly when it exceeds a limit ("64 depth edges, 4096 visited nodes    *)
(* and 8192 traversed edges per request", the climb from the record        *)
(* included), and is never reported as corrupt; a record whose climb runs  *)
(* in a circle never gets a thread.                                        *)
ThreadIsExact ==
  /\ TypeOK
  /\ step = "ok" =>
       /\ {result[i] : i \in DOMAIN result} = Tree(anchor)
       /\ Len(result) = Cardinality(Tree(anchor))
  /\ IF Depth(anchor) < N
       THEN /\ step # "corrupt"
            /\ step = "ok" => ~ExceedsLimits
            /\ step = "limit" => ExceedsLimits
       ELSE step \in {"ascend", "limit", "corrupt"}

(* The two ways to find a root agree, on any graph: a climb that ends at a *)
(* root names the one the recursive query names, and where the climb ends  *)
(* in a broken chain, in a circle or at the depth limit, the query names   *)
(* the record itself.                                                      *)
RootsAgree ==
  /\ step \in {"descend", "ok"} => ThreadRoot(anchor) = IF resolved THEN root ELSE anchor
  /\ step = "corrupt" \/ (step = "limit" /\ Depth(anchor) > MaxDepth) => ThreadRoot(anchor) = anchor
=============================================================================
