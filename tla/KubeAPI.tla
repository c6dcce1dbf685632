------------------------------- MODULE KubeAPI -------------------------------
(***************************************************************************)
(* The Kubernetes API server as the operator sees it: the objects that may *)
(* depend on a project, the lists the operator's replicas took of them,    *)
(* and everybody else who works on them (the namespace controller, users). *)
(* Nothing of this is under src/: it is modelled from the calls that       *)
(* internal/deployer makes and from the outcomes it tells apart.           *)
(*                                                                         *)
(* One project name is modelled; the objects of two names never share a    *)
(* key.  Resource versions are abstracted to what the code asks of them:   *)
(* whether the object was written since a replica listed it (stale).       *)
(***************************************************************************)
EXTENDS ObjectKeys, Integers

CONSTANTS
    Replicas,       \* processes of the operator
    Owners,         \* values of the owner label: UIDs of projects
    NoOwner,        \* an object without the owner label
    Digests,        \* values of the digest annotation
    Interference,   \* what outsiders do to the dependent objects
    MaxFaults       \* bound on crashes, failing calls and outsiders' actions

VARIABLES
    cluster,        \* key -> the object the API server stores
    listed,         \* replica -> key -> the object as the replica listed it
    stale,          \* replica -> keys written since the replica listed them
    faults          \* faults so far

kubeVars == <<cluster, listed, stale, faults>>

\* drifted: the content is no longer the one the digest was computed from.
Objects == [owner      : Owners \cup {NoOwner},
            digest     : Digests \cup {Absent},
            drifted    : BOOLEAN,
            terminating: BOOLEAN]

\* stripFinalizer: somebody replaces the project by a manifest that does not
\* list the operator's finalizer (see ProjectController).
Powers == {"delete", "edit", "relabel", "create", "stripFinalizer"}

ASSUME KubeAssumption ==
    /\ NoOwner \notin Owners
    /\ Absent \notin Objects
    /\ Absent \notin Digests
    /\ Interference \subseteq Powers
    /\ MaxFaults \in Nat

KubeTypeOK ==
    /\ cluster \in [Keys -> Objects \cup {Absent}]
    /\ listed \in [Replicas -> [Keys -> Objects \cup {Absent}]]
    /\ stale \in [Replicas -> SUBSET Keys]
    /\ faults \in 0..MaxFaults

KubeInit ==
    /\ cluster = Nothing
    /\ listed = [r \in Replicas |-> Nothing]
    /\ stale = [r \in Replicas |-> {}]
    /\ faults = 0

Fault ==
    /\ faults < MaxFaults
    /\ faults' = faults + 1

Owned(k, o) == cluster[k] # Absent /\ cluster[k].owner = o
-----------------------------------------------------------------------------
(* What the API server does with a request.                                *)

\* Stores obj under k with a new resource version.
Write(k, obj) ==
    /\ cluster' = [cluster EXCEPT ![k] = obj]
    /\ stale' = [r \in Replicas |->
                    IF listed[r][k] # Absent THEN stale[r] \cup {k} ELSE stale[r]]

\* A request that changes nothing keeps the version.
Store(k, obj) ==
    IF obj = cluster[k] THEN UNCHANGED <<cluster, stale>> ELSE Write(k, obj)

\* A role binding lives in the namespace; one in a terminating namespace can
\* be changed and deleted but not created.
NamespaceMissing(k) == KindOf[k] = "RoleBinding" /\ cluster["namespace"] = Absent

CanCreate(k) ==
    /\ cluster[k] = Absent
    /\ KindOf[k] = "RoleBinding" =>
        /\ cluster["namespace"] # Absent
        /\ ~cluster["namespace"].terminating

\* What a write with r's listed version finds.
Matches(r, k) == cluster[k] # Absent /\ k \notin stale[r]

\* What is left of the object after a deletion: a namespace is first emptied.
AfterDelete(k) ==
    IF KindOf[k] = "Namespace"
    THEN [cluster[k] EXCEPT !.terminating = TRUE]
    ELSE Absent
-----------------------------------------------------------------------------
(* The namespace controller empties a terminating namespace, then removes  *)
(* it.                                                                     *)
Terminating == cluster["namespace"] # Absent /\ cluster["namespace"].terminating

Content == {k \in Keys : KindOf[k] = "RoleBinding" /\ cluster[k] # Absent}

NamespaceContentDeleted(k) ==
    /\ Terminating
    /\ k \in Content
    /\ Store(k, Absent)
    /\ UNCHANGED <<listed, faults>>

NamespaceFinalized ==
    /\ Terminating
    /\ Content = {}
    /\ Store("namespace", Absent)
    /\ UNCHANGED <<listed, faults>>

NamespaceController ==
    NamespaceFinalized \/ \E k \in Keys : NamespaceContentDeleted(k)
-----------------------------------------------------------------------------
(* Outsiders.                                                              *)
ExternalDelete(k) ==
    /\ "delete" \in Interference
    /\ cluster[k] # Absent
    /\ Fault
    /\ Store(k, AfterDelete(k))
    /\ UNCHANGED listed

\* The content is edited, the operator's label and annotation are kept.
ExternalEdit(k) ==
    /\ "edit" \in Interference
    /\ cluster[k] # Absent
    /\ Fault
    /\ Write(k, [cluster[k] EXCEPT !.drifted = TRUE])
    /\ UNCHANGED listed

ExternalRelabel(k) ==
    /\ "relabel" \in Interference
    /\ cluster[k] # Absent
    /\ Fault
    /\ Store(k, [cluster[k] EXCEPT !.owner = NoOwner])
    /\ UNCHANGED listed

ExternalCreate(k) ==
    /\ "create" \in Interference
    /\ CanCreate(k)
    /\ Fault
    /\ Store(k, [owner |-> NoOwner, digest |-> Absent,
                 drifted |-> FALSE, terminating |-> FALSE])
    /\ UNCHANGED listed

Outsider ==
    \E k \in Keys : \/ ExternalDelete(k)
                    \/ ExternalEdit(k)
                    \/ ExternalRelabel(k)
                    \/ ExternalCreate(k)
=============================================================================
