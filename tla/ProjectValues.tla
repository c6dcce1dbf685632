---------------------------- MODULE ProjectValues ----------------------------
(***************************************************************************)
(* What deep copies promise: projects are passed around as values.  What a *)
(* holder has is what it was given, as it edited it itself; the objects in *)
(* an informer's store are never edited.                                   *)
(***************************************************************************)
EXTENDS Sequences

CONSTANTS
    Cached,     \* the objects an informer puts into its store
    Users       \* goroutines that use projects

VARIABLE value  \* holder -> the projects it is or has

Holders == Cached \cup Users

Init == value = [o \in Holders |-> <<>>]

OnlyOf(o) == \A q \in Holders \ {o} : value'[q] = value[q]

Deliver(v) == value[v] = <<>> /\ Len(value'[v]) = 1

Copy(u) == \E o \in Holders : value'[u] = value[u] \o value[o]

Edit(u) ==
    /\ DOMAIN value'[u] = DOMAIN value[u]
    /\ \E i \in DOMAIN value[u] : \A j \in DOMAIN value[u] \ {i} : value'[u][j] = value[u][j]

Drop(o) == value'[o] = <<>>

Next ==
    \E o \in Holders :
        /\ OnlyOf(o)
        /\ \/ o \in Cached /\ Deliver(o)
           \/ o \in Users /\ (Copy(o) \/ Edit(o))
           \/ Drop(o)

Spec == Init /\ [][Next]_value
==============================================================================
