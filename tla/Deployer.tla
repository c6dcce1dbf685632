------------------------------ MODULE Deployer ------------------------------
(***************************************************************************)
(* internal/deployer: ReconcileObjects brings the objects that carry the   *)
(* owner label of its caller to the wanted ones.  It first lists them, one *)
(* kind after the other, and then works off the list in the order of a Go  *)
(* map, that is in any order, with one API call per object; all it knows   *)
(* of the cluster by then is what it listed.                               *)
(*                                                                         *)
(* Wanted objects are given by their digest.  The digest is the SHA-256 of *)
(* the object's JSON, taken to be injective, so here it is the content.    *)
(* Errors of the REST mapping and of the validation of the wanted objects  *)
(* (lines 53-56 and 70-97) cannot occur for what buildDependentObjects     *)
(* returns and are left out.                                               *)
(***************************************************************************)
EXTENDS KubeAPI

VARIABLES
    phase,      \* replica -> how far its call of ReconcileObjects is
    owner,      \* replica -> the argument owner
    want,       \* replica -> the argument objects: key -> digest
    todo,       \* replica -> keys of the worklist still to be visited
    unready     \* replica -> numUnready > 0

deployerVars == <<phase, owner, want, todo, unready>>

\* managedGVKs, in the order they are listed, and what follows.
NextPhase == [Namespace          |-> "RoleBinding",
              RoleBinding        |-> "ClusterRoleBinding",
              ClusterRoleBinding |-> "apply"]

Phases == {"idle", "Namespace", "RoleBinding", "ClusterRoleBinding", "apply", "failed"}

DeployerTypeOK ==
    /\ KubeTypeOK
    /\ phase \in [Replicas -> Phases]
    /\ owner \in [Replicas -> Owners \cup {NoOwner}]
    /\ want \in [Replicas -> [Keys -> Digests \cup {Absent}]]
    /\ todo \in [Replicas -> SUBSET Keys]
    /\ unready \in [Replicas -> BOOLEAN]

DeployerInit ==
    /\ KubeInit
    /\ phase = [r \in Replicas |-> "idle"]
    /\ owner = [r \in Replicas |-> NoOwner]
    /\ want = [r \in Replicas |-> Nothing]
    /\ todo = [r \in Replicas |-> {}]
    /\ unready = [r \in Replicas |-> FALSE]
-----------------------------------------------------------------------------
\* ReconcileObjects(objects w, owner o) starts: nothing is listed yet.
Call(r, o, w) ==
    /\ phase[r] = "idle"
    /\ phase' = [phase EXCEPT ![r] = "Namespace"]
    /\ owner' = [owner EXCEPT ![r] = o]
    /\ want' = [want EXCEPT ![r] = w]
    /\ todo' = [todo EXCEPT ![r] = {k \in Keys : w[k] # Absent}]
    /\ unready' = [unready EXCEPT ![r] = FALSE]
    /\ UNCHANGED kubeVars

\* Lists one kind, selected by the owner label.
List(r) ==
    LET found == {k \in Keys : KindOf[k] = phase[r] /\ Owned(k, owner[r])}
    IN  /\ phase[r] \in DOMAIN NextPhase
        /\ phase' = [phase EXCEPT ![r] = NextPhase[phase[r]]]
        /\ listed' = [listed EXCEPT ![r] =
                        [k \in Keys |-> IF k \in found THEN cluster[k] ELSE listed[r][k]]]
        /\ todo' = [todo EXCEPT ![r] = @ \cup found]
        /\ UNCHANGED <<cluster, stale, faults, owner, want, unready>>

\* An API call fails (a List, or a write that was not carried out).
Fail(r) ==
    /\ phase' = [phase EXCEPT ![r] = "failed"]
    /\ UNCHANGED <<owner, want, todo, unready>>

CallFails(r) ==
    /\ \/ phase[r] \in DOMAIN NextPhase
       \/ phase[r] = "apply" /\ todo[r] # {}
    /\ Fault
    /\ Fail(r)
    /\ UNCHANGED <<cluster, listed, stale>>
-----------------------------------------------------------------------------
(* The loop over the worklist: which call is due for key k.                *)
Visiting(r, k) == phase[r] = "apply" /\ k \in todo[r]

Creating(r, k) == Visiting(r, k) /\ listed[r][k] = Absent

\* Variant (a bug to be caught): the digest of what is listed never equals the
\* digest of what is wanted.
DiffersAlways(r, k) == want[r][k] # Absent

Differs(r, k) == want[r][k] # Absent /\ want[r][k] # listed[r][k].digest

\* An object that is not wanted any more, or a role binding, which is replaced
\* rather than updated.
Deleting(r, k) ==
    /\ Visiting(r, k)
    /\ listed[r][k] # Absent
    /\ want[r][k] = Absent \/ (Differs(r, k) /\ KindOf[k] = "RoleBinding")

Updating(r, k) ==
    /\ Visiting(r, k)
    /\ listed[r][k] # Absent
    /\ Differs(r, k) /\ KindOf[k] # "RoleBinding"

\* Variant: numUnready is not counted up.
VisitedUncounted(r, k, notReady) ==
    /\ todo' = [todo EXCEPT ![r] = @ \ {k}]
    /\ UNCHANGED <<phase, owner, want, unready>>

Visited(r, k, notReady) ==
    /\ todo' = [todo EXCEPT ![r] = @ \ {k}]
    /\ unready' = [unready EXCEPT ![r] = @ \/ notReady]
    /\ UNCHANGED <<phase, owner, want>>

\* Variant: the digest is not set, the annotation is empty.
DesiredUndigested(r, k) == [owner |-> owner[r], digest |-> "",
                            drifted |-> FALSE, terminating |-> FALSE]

\* The new object, with the owner label and the digest set.
Desired(r, k) == [owner |-> owner[r], digest |-> want[r][k],
                  drifted |-> FALSE, terminating |-> FALSE]

CreateDone(r, k) == Creating(r, k) /\ CanCreate(k) /\ Store(k, Desired(r, k))

\* Variant: the deletion has no precondition.
DeleteAnyVersion(r, k) ==
    Deleting(r, k) /\ cluster[k] # Absent /\ Store(k, AfterDelete(k))

\* The deletion has the listed resource version as precondition.
DeleteDone(r, k) == Deleting(r, k) /\ Matches(r, k) /\ Store(k, AfterDelete(k))

\* Variant: the update carries no resource version.
UpdateAnyVersion(r, k) ==
    /\ Updating(r, k)
    /\ cluster[k] # Absent
    /\ Store(k, [Desired(r, k) EXCEPT !.terminating = cluster[k].terminating])

\* The update carries the listed resource version; it cannot revive an object.
UpdateDone(r, k) ==
    /\ Updating(r, k)
    /\ Matches(r, k)
    /\ Store(k, [Desired(r, k) EXCEPT !.terminating = cluster[k].terminating])

WriteDone(r, k) == CreateDone(r, k) \/ DeleteDone(r, k) \/ UpdateDone(r, k)

\* NotFound is no error when creating (the namespace is not there yet) nor
\* when deleting (somebody else was faster); both count as unready.
NotFoundIgnored(r, k) ==
    \/ Creating(r, k) /\ NamespaceMissing(k)
    \/ Deleting(r, k) /\ cluster[k] = Absent

\* AlreadyExists, Forbidden in a terminating namespace, Conflict, or NotFound
\* when updating: the call returns the error.
Rejected(r, k) ==
    \/ Creating(r, k) /\ ~CanCreate(k) /\ ~NamespaceMissing(k)
    \/ Deleting(r, k) /\ cluster[k] # Absent /\ ~Matches(r, k)
    \/ Updating(r, k) /\ ~Matches(r, k)

ApplyObject(r, k) ==
    \/ WriteDone(r, k) /\ Visited(r, k, TRUE) /\ UNCHANGED <<listed, faults>>
    \/ NotFoundIgnored(r, k) /\ Visited(r, k, TRUE) /\ UNCHANGED kubeVars
    \/ Rejected(r, k) /\ Fail(r) /\ UNCHANGED kubeVars

\* The write was carried out but its answer got lost.
AnswerLost(r, k) ==
    /\ WriteDone(r, k)
    /\ Fault
    /\ Fail(r)
    /\ UNCHANGED listed

\* Equal digests: kstatus only finds a terminating object not to be current.
CheckStatus(r, k) ==
    /\ Visiting(r, k)
    /\ listed[r][k] # Absent
    /\ want[r][k] # Absent /\ want[r][k] = listed[r][k].digest
    /\ Visited(r, k, listed[r][k].terminating)
    /\ UNCHANGED kubeVars

DeployerStep(r) ==
    List(r) \/ \E k \in Keys : ApplyObject(r, k) \/ CheckStatus(r, k)

DeployerFault(r) == CallFails(r) \/ \E k \in Keys : AnswerLost(r, k)
-----------------------------------------------------------------------------
\* ReconcileObjects returns (~unready, nil), or an error.
Succeeded(r) == phase[r] = "apply" /\ todo[r] = {}

Failed(r) == phase[r] = "failed"

\* The local variables of the call are gone, by its return or by a crash.
Drop(r) ==
    /\ phase' = [phase EXCEPT ![r] = "idle"]
    /\ owner' = [owner EXCEPT ![r] = NoOwner]
    /\ want' = [want EXCEPT ![r] = Nothing]
    /\ todo' = [todo EXCEPT ![r] = {}]
    /\ unready' = [unready EXCEPT ![r] = FALSE]
    /\ listed' = [listed EXCEPT ![r] = Nothing]
    /\ stale' = [stale EXCEPT ![r] = {}]
    /\ UNCHANGED cluster
-----------------------------------------------------------------------------
(* The deployer on its own, with callers that want anything for anybody.   *)
CONSTANT Wants      \* the sets of objects the callers ask for

ASSUME DeployerAssumption == Wants \subseteq [Keys -> Digests \cup {Absent}]

Return(r) == (Succeeded(r) \/ Failed(r)) /\ Drop(r) /\ UNCHANGED faults

CallerCrashes(r) == Fault /\ Drop(r)

\* A fault of a caller outside of its call only counts.
CallerFault == Fault /\ UNCHANGED <<cluster, listed, stale, deployerVars>>

Environment == (NamespaceController \/ Outsider) /\ UNCHANGED deployerVars

DeployerNext ==
    \/ \E r \in Replicas :
        \/ \E o \in Owners, w \in Wants : Call(r, o, w)
        \/ DeployerStep(r)
        \/ DeployerFault(r)
        \/ Return(r)
        \/ CallerCrashes(r)
    \/ CallerFault
    \/ Environment

deployerAllVars == <<kubeVars, deployerVars>>

DeployerSpec == DeployerInit /\ [][DeployerNext]_deployerAllVars
-----------------------------------------------------------------------------
(***************************************************************************)
(* Properties.                                                             *)
(***************************************************************************)

\* The step that is being taken is a write of r's running call.
WritesOf(r) == phase[r] = "apply" /\ (todo'[r] # todo[r] \/ phase'[r] = "failed")

\* A running call only ever changes or deletes an object that carries the
\* owner label of its caller at that moment, however old its list is: what a
\* user took away from the project, or put in the place of one of its
\* objects, is left alone (deployer.go, lines 127-148).
OnlyOwnObjectsTouched ==
    [][\A r \in Replicas, k \in Keys :
        WritesOf(r) /\ cluster[k] # Absent /\ cluster'[k] # cluster[k]
            => cluster[k].owner = owner[r]]_deployerAllVars
=============================================================================
