------------------------------ MODULE Handoff ------------------------------
(***************************************************************************)
(* What Runtime::inject promises the inbox worker, whichever runtime is    *)
(* configured: success means that this payload is durably handed over      *)
(* under the name of the inbox item, or was already taken by its reader.   *)
(* What is offered under a name is never overwritten; only the reader      *)
(* takes it away, and only a machine crash loses what was not yet durable. *)
(***************************************************************************)
CONSTANTS
    Items,      \* inbox items, each with one name
    Payloads,   \* what can be offered under a name
    None        \* nothing is offered

VARIABLES
    offered,    \* what the reader finds under each name
    durable,    \* what it would find after a machine crash
    taken,      \* <<item, payload>>: taken by the reader
    confirmed   \* <<item, payload>>: some inject returned success

vars == <<offered, durable, taken, confirmed>>

Init ==
    /\ offered = [i \in Items |-> None]
    /\ durable = [i \in Items |-> None]
    /\ taken = {}
    /\ confirmed = {}

\* A free name is given a payload; it may become durable at once.
Offer(i, p) ==
    /\ offered[i] = None
    /\ offered' = [offered EXCEPT ![i] = p]
    /\ durable' \in {durable, [durable EXCEPT ![i] = p]}
    /\ UNCHANGED <<taken, confirmed>>

\* What is offered now becomes what a crash leaves, for some of the names.
Settle ==
    /\ \E S \in SUBSET Items :
         durable' = [i \in Items |-> IF i \in S THEN offered[i] ELSE durable[i]]
    /\ UNCHANGED <<offered, taken, confirmed>>

Take(i) ==
    /\ offered[i] # None
    /\ offered' = [offered EXCEPT ![i] = None]
    /\ durable' \in {durable, [durable EXCEPT ![i] = None]}
    /\ taken' = taken \cup {<<i, offered[i]>>}
    /\ UNCHANGED confirmed

Confirm(i, p) ==
    /\ durable[i] = p \/ <<i, p>> \in taken
    /\ confirmed' = confirmed \cup {<<i, p>>}
    /\ UNCHANGED <<offered, durable, taken>>

Crash ==
    /\ offered' = durable
    /\ UNCHANGED <<durable, taken, confirmed>>

Next ==
    \/ \E i \in Items, p \in Payloads : Offer(i, p) \/ Confirm(i, p)
    \/ \E i \in Items : Take(i)
    \/ Settle \/ Crash

Spec == Init /\ [][Next]_vars
=============================================================================
