---------------------- MODULE ProjectController_proofs ----------------------
(***************************************************************************)
(* What holds of the operator without any assumption, for any number of    *)
(* replicas, projects, specs, faults and whatever others do, with or       *)
(* without leader election:                                                *)
(*                                                                         *)
(* - the deployer, on its own, only touches objects of its caller;         *)
(* - the reconciler is a caller the deployer's specification allows, so    *)
(*   this holds in the operator, too; types;                               *)
(* - no running replica forgets the project, and no status is written for  *)
(*   another generation than the stored one: what a copy is worth that was *)
(*   read some API calls ago.                                              *)
(***************************************************************************)
EXTENDS ProjectController, TLAPS

(* The deployer on its own.                                                *)

\* A replica that is not in a call has listed nothing.
IdleListsNothing == \A r \in Replicas : phase[r] = "idle" => listed[r] = Nothing

\* The list shows an object as it is until the object is written, and it only
\* has objects with the owner label of the caller.
ListedIsCurrent ==
    \A r \in Replicas, k \in Keys :
        listed[r][k] # Absent =>
            /\ listed[r][k].owner = owner[r]
            /\ k \notin stale[r] => cluster[k] = listed[r][k]

DeployerInv == DeployerTypeOK /\ IdleListsNothing /\ ListedIsCurrent
-----------------------------------------------------------------------------
LEMMA KindsOfKeys ==
    ASSUME NEW k \in Keys
    PROVE  KindOf[k] \in {"Namespace", "RoleBinding", "ClusterRoleBinding"}
BY DEF KindOf, Keys

LEMMA NothingType == Nothing \in [Keys -> {Absent}]
BY DEF Nothing

\* What the API server stores has the type of the objects, and so have the
\* marks of the lists it makes stale.
LEMMA StoreType ==
    ASSUME KubeTypeOK, NEW k \in Keys, NEW obj \in Objects \cup {Absent}, Store(k, obj)
    PROVE  /\ cluster' \in [Keys -> Objects \cup {Absent}]
           /\ stale' \in [Replicas -> SUBSET Keys]
BY DEF KubeTypeOK, Store, Write

\* The deletion of an object that is there leaves an object or nothing.
LEMMA AfterDeleteType ==
    ASSUME KubeTypeOK, NEW k \in Keys, cluster[k] # Absent
    PROVE  AfterDelete(k) \in Objects \cup {Absent}
<1>1. cluster[k] \in Objects
    BY DEF KubeTypeOK
<1>2. [cluster[k] EXCEPT !.terminating = TRUE] \in Objects
    BY <1>1 DEF Objects
<1> QED BY <1>2 DEF AfterDelete

LEMMA OutsiderType ==
    ASSUME KubeTypeOK, NamespaceController \/ Outsider
    PROVE  KubeTypeOK'
<1> USE KubeAssumption DEF KubeTypeOK
<1>1. CASE NamespaceFinalized
    <2>1. "namespace" \in Keys
        BY DEF Keys
    <2> QED BY <1>1, <2>1, StoreType DEF NamespaceFinalized
<1>2. ASSUME NEW k \in Keys, NamespaceContentDeleted(k) PROVE KubeTypeOK'
    BY <1>2, StoreType DEF NamespaceContentDeleted
<1>3. ASSUME NEW k \in Keys, ExternalDelete(k) PROVE KubeTypeOK'
    BY <1>3, StoreType, AfterDeleteType DEF ExternalDelete, Fault
<1>4. ASSUME NEW k \in Keys, ExternalEdit(k) PROVE KubeTypeOK'
    <2>1. [cluster[k] EXCEPT !.drifted = TRUE] \in Objects
        BY <1>4 DEF ExternalEdit, Objects
    <2> QED BY <1>4, <2>1 DEF ExternalEdit, Write, Fault
<1>5. ASSUME NEW k \in Keys, ExternalRelabel(k) PROVE KubeTypeOK'
    <2>1. [cluster[k] EXCEPT !.owner = NoOwner] \in Objects
        BY <1>5 DEF ExternalRelabel, Objects
    <2> QED BY <1>5, <2>1, StoreType DEF ExternalRelabel, Fault
<1>6. ASSUME NEW k \in Keys, ExternalCreate(k) PROVE KubeTypeOK'
    <2>1. [owner |-> NoOwner, digest |-> Absent,
           drifted |-> FALSE, terminating |-> FALSE] \in Objects
        BY DEF Objects
    <2> QED BY <1>6, <2>1, StoreType DEF ExternalCreate, Fault
<1> QED BY <1>1, <1>2, <1>3, <1>4, <1>5, <1>6 DEF NamespaceController, Outsider
-----------------------------------------------------------------------------
(* The lists.                                                              *)

\* A write by anybody makes the lists of the object stale.
LEMMA WriteKeepsLists ==
    ASSUME KubeTypeOK, ListedIsCurrent, NEW k \in Keys, NEW obj,
           Store(k, obj) \/ Write(k, obj), UNCHANGED <<listed, owner>>
    PROVE  ListedIsCurrent'
BY DEF KubeTypeOK, ListedIsCurrent, Store, Write

LEMMA OutsiderKeepsLists ==
    ASSUME KubeTypeOK, ListedIsCurrent, NamespaceController \/ Outsider, UNCHANGED owner
    PROVE  ListedIsCurrent'
<1>1. PICK k \in Keys : \E obj : (Store(k, obj) \/ Write(k, obj)) /\ UNCHANGED listed
    <2>1. "namespace" \in Keys
        BY DEF Keys
    <2> QED BY <2>1 DEF NamespaceController, NamespaceFinalized, NamespaceContentDeleted,
                Outsider, ExternalDelete, ExternalEdit, ExternalRelabel, ExternalCreate
<1> QED BY <1>1, WriteKeepsLists

\* The write that a running call makes.
LEMMA WriteDoneStores ==
    ASSUME DeployerTypeOK, NEW r \in Replicas, NEW k \in Keys, WriteDone(r, k)
    PROVE  \E obj \in Objects \cup {Absent} : Store(k, obj)
<1>1. Desired(r, k) \in Objects
    BY DEF Desired, Objects, DeployerTypeOK
<1>2. CASE CreateDone(r, k)
    BY <1>1, <1>2 DEF CreateDone
<1>3. CASE DeleteDone(r, k)
    BY <1>3, AfterDeleteType DEF DeleteDone, Matches, DeployerTypeOK
<1>4. CASE UpdateDone(r, k)
    <2>1. cluster[k] \in Objects
        BY <1>4 DEF UpdateDone, Matches, DeployerTypeOK, KubeTypeOK
    <2>2. [Desired(r, k) EXCEPT !.terminating = cluster[k].terminating] \in Objects
        BY <1>1, <2>1 DEF Objects
    <2> QED BY <1>4, <2>2 DEF UpdateDone
<1> QED BY <1>2, <1>3, <1>4 DEF WriteDone

LEMMA DropKeepsInv ==
    ASSUME DeployerInv, NEW r \in Replicas, Drop(r), faults' \in 0..MaxFaults
    PROVE  DeployerInv'
<1> USE NothingType DEF DeployerInv, Drop
<1>1. DeployerTypeOK'
    BY DEF DeployerTypeOK, KubeTypeOK, Phases
<1>2. IdleListsNothing'
    BY DEF IdleListsNothing, DeployerTypeOK, KubeTypeOK
<1>3. ListedIsCurrent'
    <2> SUFFICES ASSUME NEW q \in Replicas, NEW k \in Keys, listed'[q][k] # Absent
                 PROVE  /\ listed'[q][k].owner = owner'[q]
                        /\ k \notin stale'[q] => cluster'[k] = listed'[q][k]
        BY DEF ListedIsCurrent
    <2>1. q # r
        BY DEF DeployerTypeOK, KubeTypeOK
    <2> QED BY <2>1 DEF ListedIsCurrent, DeployerTypeOK, KubeTypeOK
<1> QED BY <1>1, <1>2, <1>3

LEMMA CallKeepsInv ==
    ASSUME DeployerInv, NEW r \in Replicas, NEW o \in Owners, NEW w \in Wants, Call(r, o, w)
    PROVE  DeployerInv'
<1> USE DEF DeployerInv, Call, kubeVars
<1>1. DeployerTypeOK'
    BY DeployerAssumption DEF DeployerTypeOK, KubeTypeOK, Phases
<1>2. IdleListsNothing'
    BY DEF IdleListsNothing, DeployerTypeOK
<1>3. ListedIsCurrent'
    <2> SUFFICES ASSUME NEW q \in Replicas, NEW k \in Keys, listed[q][k] # Absent
                 PROVE  /\ listed[q][k].owner = owner'[q]
                        /\ k \notin stale[q] => cluster[k] = listed[q][k]
        BY DEF ListedIsCurrent
    <2>1. q # r
        BY NothingType DEF IdleListsNothing
    <2> QED BY <2>1 DEF ListedIsCurrent, DeployerTypeOK, KubeTypeOK
<1> QED BY <1>1, <1>2, <1>3

LEMMA ListKeepsInv ==
    ASSUME DeployerInv, NEW r \in Replicas, List(r)
    PROVE  DeployerInv'
<1> DEFINE found == {k \in Keys : KindOf[k] = phase[r] /\ Owned(k, owner[r])}
<1> USE DEF DeployerInv, List
<1>1. phase'[r] # "idle" /\ phase' \in [Replicas -> Phases]
    BY DEF NextPhase, Phases, DeployerTypeOK
<1>2. DeployerTypeOK'
    <2>1. listed'[r] \in [Keys -> Objects \cup {Absent}]
        BY DEF DeployerTypeOK, KubeTypeOK
    <2>2. todo'[r] \subseteq Keys
        BY DEF DeployerTypeOK
    <2> QED BY <1>1, <2>1, <2>2 DEF DeployerTypeOK, KubeTypeOK
<1>3. IdleListsNothing'
    BY <1>1 DEF IdleListsNothing, DeployerTypeOK, KubeTypeOK
<1>4. ListedIsCurrent'
    <2> SUFFICES ASSUME NEW q \in Replicas, NEW k \in Keys, listed'[q][k] # Absent
                 PROVE  /\ listed'[q][k].owner = owner[q]
                        /\ k \notin stale[q] => cluster[k] = listed'[q][k]
        BY DEF ListedIsCurrent
    <2>1. CASE q = r /\ k \in found
        BY <2>1 DEF Owned, DeployerTypeOK, KubeTypeOK
    <2>2. CASE ~(q = r /\ k \in found)
        BY <2>2 DEF ListedIsCurrent, DeployerTypeOK, KubeTypeOK
    <2> QED BY <2>1, <2>2
<1> QED BY <1>2, <1>3, <1>4

\* A step of the loop that ends in a write, or in none.
LEMMA LoopKeepsInv ==
    ASSUME DeployerInv, NEW r \in Replicas, NEW k \in Keys, NEW ready \in BOOLEAN,
           phase[r] # "idle",
           Fail(r) \/ Visited(r, k, ready),
           WriteDone(r, k) \/ UNCHANGED <<cluster, stale>>,
           UNCHANGED listed,
           faults' \in 0..MaxFaults
    PROVE  DeployerInv'
<1> USE DEF DeployerInv
<1>1. owner' = owner /\ want' = want
    BY DEF Fail, Visited
<1>2. DeployerTypeOK'
    <2>1. KubeTypeOK'
        BY WriteDoneStores, StoreType DEF DeployerTypeOK, KubeTypeOK
    <2>2. /\ phase' \in [Replicas -> Phases]
          /\ todo' \in [Replicas -> SUBSET Keys]
          /\ unready' \in [Replicas -> BOOLEAN]
        BY DEF Fail, Visited, DeployerTypeOK, Phases
    <2> QED BY <1>1, <2>1, <2>2 DEF DeployerTypeOK
<1>3. IdleListsNothing'
    BY DEF IdleListsNothing, Fail, Visited, DeployerTypeOK
<1>4. ListedIsCurrent'
    <2>1. CASE WriteDone(r, k)
        BY <1>1, <2>1, WriteDoneStores, WriteKeepsLists DEF DeployerTypeOK
    <2>2. CASE UNCHANGED <<cluster, stale>>
        BY <1>1, <2>2 DEF ListedIsCurrent
    <2> QED BY <2>1, <2>2
<1> QED BY <1>2, <1>3, <1>4

LEMMA DeployerStepKeepsInv ==
    ASSUME DeployerInv, NEW r \in Replicas, DeployerStep(r) \/ DeployerFault(r)
    PROVE  DeployerInv'
<1> USE KubeAssumption DEF Visiting, Creating, Deleting, Updating, kubeVars
<1>1. CASE List(r)
    BY <1>1, ListKeepsInv
<1>2. CASE CallFails(r)
    <2>1. DeployerTypeOK'
        BY <1>2 DEF CallFails, Fail, Fault, DeployerInv, DeployerTypeOK, KubeTypeOK, Phases
    <2>2. IdleListsNothing'
        BY <1>2 DEF CallFails, Fail, DeployerInv, IdleListsNothing, DeployerTypeOK
    <2>3. ListedIsCurrent'
        BY <1>2 DEF CallFails, Fail, DeployerInv, ListedIsCurrent
    <2> QED BY <2>1, <2>2, <2>3 DEF DeployerInv
<1>3. ASSUME NEW k \in Keys, ApplyObject(r, k) PROVE DeployerInv'
    <2>1. phase[r] = "apply" /\ faults' \in 0..MaxFaults
        BY <1>3 DEF ApplyObject, WriteDone, CreateDone, DeleteDone, UpdateDone,
            NotFoundIgnored, Rejected, DeployerInv, DeployerTypeOK, KubeTypeOK
    <2> QED BY <1>3, <2>1, LoopKeepsInv DEF ApplyObject
<1>4. ASSUME NEW k \in Keys, CheckStatus(r, k) PROVE DeployerInv'
    <2>1. listed[r][k].terminating \in BOOLEAN
        BY <1>4 DEF CheckStatus, DeployerInv, DeployerTypeOK, KubeTypeOK, Objects
    <2>2. phase[r] = "apply" /\ faults' \in 0..MaxFaults
        BY <1>4 DEF CheckStatus, DeployerInv, DeployerTypeOK, KubeTypeOK
    <2> QED BY <1>4, <2>1, <2>2, LoopKeepsInv DEF CheckStatus
<1>5. ASSUME NEW k \in Keys, AnswerLost(r, k) PROVE DeployerInv'
    <2>1. phase[r] = "apply" /\ faults' \in 0..MaxFaults
        BY <1>5 DEF AnswerLost, WriteDone, CreateDone, DeleteDone, UpdateDone, Fault,
            DeployerInv, DeployerTypeOK, KubeTypeOK
    <2> QED BY <1>5, <2>1, LoopKeepsInv DEF AnswerLost
<1> QED BY <1>1, <1>2, <1>3, <1>4, <1>5 DEF DeployerStep, DeployerFault

LEMMA EnvironmentKeepsInv ==
    ASSUME DeployerInv, Environment
    PROVE  DeployerInv'
<1> USE DEF DeployerInv, Environment, deployerVars
<1>1. DeployerTypeOK'
    BY OutsiderType DEF DeployerTypeOK
<1>2. UNCHANGED listed
    BY DEF NamespaceController, NamespaceFinalized, NamespaceContentDeleted, Outsider,
        ExternalDelete, ExternalEdit, ExternalRelabel, ExternalCreate
<1>3. IdleListsNothing'
    BY <1>2 DEF IdleListsNothing
<1>4. ListedIsCurrent'
    BY OutsiderKeepsLists DEF DeployerTypeOK
<1> QED BY <1>1, <1>3, <1>4

LEMMA DeployerInitInv == DeployerInit => DeployerInv
BY KubeAssumption, NothingType
   DEF DeployerInit, KubeInit, DeployerInv, DeployerTypeOK, KubeTypeOK, Phases,
       IdleListsNothing, ListedIsCurrent

LEMMA DeployerNextKeepsInv == DeployerInv /\ [DeployerNext]_deployerAllVars => DeployerInv'
<1> SUFFICES ASSUME DeployerInv, [DeployerNext]_deployerAllVars
             PROVE  DeployerInv'
    OBVIOUS
<1>1. CASE UNCHANGED deployerAllVars
    BY <1>1 DEF deployerAllVars, deployerVars, kubeVars, DeployerInv, DeployerTypeOK,
        KubeTypeOK, IdleListsNothing, ListedIsCurrent
<1>2. ASSUME NEW r \in Replicas, NEW o \in Owners, NEW w \in Wants, Call(r, o, w)
      PROVE  DeployerInv'
    BY <1>2, CallKeepsInv
<1>3. ASSUME NEW r \in Replicas, DeployerStep(r) \/ DeployerFault(r) PROVE DeployerInv'
    BY <1>3, DeployerStepKeepsInv
<1>4. ASSUME NEW r \in Replicas, Return(r) \/ CallerCrashes(r) PROVE DeployerInv'
    <2>1. Drop(r) /\ faults' \in 0..MaxFaults
        BY <1>4, KubeAssumption DEF Return, CallerCrashes, Fault, DeployerInv,
            DeployerTypeOK, KubeTypeOK
    <2> QED BY <2>1, DropKeepsInv
<1>5. CASE CallerFault
    BY <1>5, KubeAssumption DEF CallerFault, Fault, deployerVars, DeployerInv,
        DeployerTypeOK, KubeTypeOK, IdleListsNothing, ListedIsCurrent
<1>6. CASE Environment
    BY <1>6, EnvironmentKeepsInv
<1> QED BY <1>1, <1>2, <1>3, <1>4, <1>5, <1>6 DEF DeployerNext

\* Types of the deployer and of what it shares with the API server
\* (internal/deployer/deployer.go), and what its lists are worth.
THEOREM DeployerTypes == DeployerSpec => []DeployerInv
BY DeployerInitInv, DeployerNextKeepsInv, PTL DEF DeployerSpec
-----------------------------------------------------------------------------
(* Only own objects are touched.                                           *)

LEMMA WritesOwnObjects ==
    ASSUME DeployerInv, [DeployerNext]_deployerAllVars,
           NEW r \in Replicas, NEW k \in Keys,
           WritesOf(r), cluster[k] # Absent, cluster'[k] # cluster[k]
    PROVE  cluster[k].owner = owner[r]
<1> USE DEF WritesOf
<1>1. CASE DeployerStep(r) \/ DeployerFault(r)
    <2>1. PICK j \in Keys : WriteDone(r, j)
        BY <1>1 DEF DeployerStep, DeployerFault, List, CallFails, ApplyObject, CheckStatus,
            AnswerLost, kubeVars
    <2>2. k = j
        BY <2>1 DEF WriteDone, CreateDone, DeleteDone, UpdateDone, Store, Write,
            DeployerInv, DeployerTypeOK, KubeTypeOK
    <2>3. ~CreateDone(r, k)
        BY DEF CreateDone, CanCreate
    <2>4. Matches(r, k) /\ listed[r][k] # Absent
        BY <2>1, <2>2, <2>3 DEF WriteDone, DeleteDone, UpdateDone, Deleting, Updating
    <2> QED BY <2>4 DEF Matches, DeployerInv, ListedIsCurrent
<1>2. ASSUME NEW q \in Replicas, q # r, DeployerStep(q) \/ DeployerFault(q) PROVE FALSE
    <2>1. todo'[r] = todo[r] /\ phase'[r] = phase[r]
        BY <1>2 DEF DeployerStep, DeployerFault, List, CallFails, ApplyObject, CheckStatus,
            AnswerLost, Visited, Fail, DeployerInv, DeployerTypeOK
    <2> QED BY <2>1
<1>3. ASSUME NEW q \in Replicas, NEW o \in Owners, NEW w \in Wants, Call(q, o, w)
      PROVE  FALSE
    BY <1>3 DEF Call, kubeVars
<1>4. ASSUME NEW q \in Replicas, Return(q) \/ CallerCrashes(q) PROVE FALSE
    BY <1>4 DEF Return, CallerCrashes, Drop
<1>5. CASE CallerFault
    BY <1>5 DEF CallerFault
<1>6. CASE Environment
    BY <1>6 DEF Environment, deployerVars
<1>7. CASE UNCHANGED deployerAllVars
    BY <1>7 DEF deployerAllVars, kubeVars
<1> QED BY <1>1, <1>2, <1>3, <1>4, <1>5, <1>6, <1>7 DEF DeployerNext

\* The deployer never changes or deletes an object that is not its caller's at
\* that moment, whoever else works on the cluster (deployer.go, lines 119-159).
THEOREM OwnObjects == DeployerSpec => OnlyOwnObjectsTouched
<1>1. DeployerInv /\ [DeployerNext]_deployerAllVars =>
        [\A r \in Replicas, k \in Keys :
            WritesOf(r) /\ cluster[k] # Absent /\ cluster'[k] # cluster[k]
                => cluster[k].owner = owner[r]]_deployerAllVars
    BY WritesOwnObjects
<1> QED BY <1>1, DeployerTypes, PTL DEF DeployerSpec, OnlyOwnObjectsTouched
-----------------------------------------------------------------------------
(* The reconciler and its deployer.                                        *)

\* Types, with a project in the hands of every replica that is in Reconcile.
ControllerTypes ==
    /\ project \in Projects \cup {NoProject}
    /\ usedUIDs \subseteq Owners
    /\ active \subseteq Replicas
    /\ queued \in [Replicas -> BOOLEAN]
    /\ pc \in [Replicas -> PCs]
    /\ snap \in [Replicas -> Projects \cup {NoProject}]
    /\ outdated \in [Replicas -> BOOLEAN]
    /\ err \in [Replicas -> BOOLEAN]
    /\ \A r \in Replicas : pc[r] # "idle" => snap[r] \in Projects
-----------------------------------------------------------------------------
(* The reconciler as a caller of the deployer.                             *)

LEMMA WorkCallsDeployer ==
    ASSUME ControllerTypes, NEW r \in Replicas, Work(r)
    PROVE  [DeployerNext]_deployerAllVars
<1> USE DEF deployerAllVars, DeployerNext
<1>1. CASE ProjectNotFound(r) \/ FirstSeen(r) \/ FinalizerMissing(r) \/ DeletionBlocked(r)
    BY <1>1 DEF ProjectNotFound, FirstSeen, FinalizerMissing, DeletionBlocked
<1>2. CASE ReconcileDependents(r)
    <2>1. project.uid \in Owners /\ project.spec \in Specs
        BY <1>2 DEF ReconcileDependents, Observed, Exists, ControllerTypes, Projects
    <2>2. Call(r, project.uid, BuildDependentObjects(project.spec))
        BY <1>2 DEF ReconcileDependents
    <2> QED BY <2>1, <2>2, ControllerAssumption
<1>3. CASE DeleteDependents(r)
    <2>1. project.uid \in Owners
        BY <1>3 DEF DeleteDependents, Observed, Exists, ControllerTypes, Projects
    <2>2. Call(r, project.uid, Nothing)
        BY <1>3 DEF DeleteDependents
    <2> QED BY <2>1, <2>2, ControllerAssumption
<1>4. CASE DeployerStep(r)
    BY <1>4
<1>5. CASE DependentsReconciled(r) \/ DependentsGone(r) \/ ReconcileFailed(r)
    <2>1. Return(r)
        BY <1>5 DEF DependentsReconciled, DependentsGone, ReconcileFailed, Return
    <2> QED BY <2>1
<1>6. CASE AddFinalizer(r) \/ RemoveFinalizer(r) \/ FinalizerConflict(r)
    BY <1>6 DEF AddFinalizer, RemoveFinalizer, FinalizerConflict
<1>7. CASE UpdateStatus(r) \/ StatusConflict(r)
    BY <1>7 DEF UpdateStatus, StatusConflict, RequeueAndFinish, kubeVars
<1> QED BY <1>1, <1>2, <1>3, <1>4, <1>5, <1>6, <1>7 DEF Work

LEMMA TroubleCallsDeployer ==
    ASSUME NEW r \in Replicas, Trouble(r)
    PROVE  DeployerNext
<1> USE DEF DeployerNext
<1>1. CASE DeployerFault(r)
    BY <1>1
<1>2. CASE FinalizerCallFails(r) \/ FinalizerAnswerLost(r) \/ StatusCallFails(r)
    <2>1. CallerFault
        BY <1>2 DEF FinalizerCallFails, FinalizerAnswerLost, StatusCallFails,
            RequeueAndFinish, CallerFault
    <2> QED BY <2>1
<1>3. CASE Crash(r)
    <2>1. CallerCrashes(r)
        BY <1>3 DEF Crash, CallerCrashes
    <2> QED BY <2>1
<1> QED BY <1>1, <1>2, <1>3 DEF Trouble

LEMMA NextCallsDeployer ==
    ASSUME ControllerTypes, [Next]_vars
    PROVE  [DeployerNext]_deployerAllVars
<1>1. CASE User
    BY <1>1 DEF User, CreateProject, UpdateSpec, ReplaceManifest, DeleteProject,
        AddForeignFinalizer, RemoveForeignFinalizer, ByUser, deployerAllVars
<1>2. ASSUME NEW r \in Replicas, Start(r) PROVE UNCHANGED deployerAllVars
    BY <1>2 DEF Start, deployerAllVars
<1>3. CASE Environment
    BY <1>3 DEF DeployerNext
<1>4. CASE UNCHANGED vars
    BY <1>4 DEF vars, deployerAllVars
<1> QED BY <1>1, <1>2, <1>3, <1>4, WorkCallsDeployer, TroubleCallsDeployer DEF Next
-----------------------------------------------------------------------------
(* Types.                                                                  *)

LEMMA ProjectUpdates ==
    ASSUME NEW p \in Projects
    PROVE  /\ \A s \in Specs : [p EXCEPT !.spec = s, !.generation = @ + 1] \in Projects
           /\ \A s \in Specs, n \in Nat, F \in SUBSET Finalizers :
                [p EXCEPT !.spec = s, !.generation = n, !.finalizers = F] \in Projects
           /\ [p EXCEPT !.deleting = TRUE, !.generation = @ + 1] \in Projects
           /\ \A F \in SUBSET Finalizers : [p EXCEPT !.finalizers = F] \in Projects
           /\ \A st \in Statuses : [p EXCEPT !.status = st] \in Projects
           /\ \A st \in States : [p EXCEPT !.status.state = st] \in Projects
           /\ Remaining(p) \in Projects \cup {NoProject}
<1>1. p.generation \in Nat /\ p.generation + 1 \in Nat
    BY DEF Projects
<1>2. ASSUME NEW s \in Specs
      PROVE  [p EXCEPT !.spec = s, !.generation = @ + 1] \in Projects
    BY <1>1 DEF Projects
<1>3. ASSUME NEW s \in Specs, NEW n \in Nat, NEW F \in SUBSET Finalizers
      PROVE  [p EXCEPT !.spec = s, !.generation = n, !.finalizers = F] \in Projects
    BY DEF Projects
<1>4. [p EXCEPT !.deleting = TRUE, !.generation = @ + 1] \in Projects
    BY <1>1 DEF Projects
<1>5. ASSUME NEW F \in SUBSET Finalizers PROVE [p EXCEPT !.finalizers = F] \in Projects
    BY DEF Projects
<1>6. ASSUME NEW st \in Statuses PROVE [p EXCEPT !.status = st] \in Projects
    BY DEF Projects
<1>7. ASSUME NEW st \in States PROVE [p EXCEPT !.status.state = st] \in Projects
    <2>1. p.status \in Statuses
        BY DEF Projects
    <2>2. [p.status EXCEPT !.state = st] \in Statuses
        BY <2>1 DEF Statuses
    <2> QED BY <2>2 DEF Projects
<1> QED BY <1>2, <1>3, <1>4, <1>5, <1>6, <1>7 DEF Remaining

LEMMA NewProjectType ==
    ASSUME NEW uid \in Owners, NEW s \in Specs
    PROVE  NewProject(uid, s) \in Projects
<1>1. [observedGeneration |-> NeverObserved, state |-> ""] \in Statuses
    BY DEF Statuses, NeverObserved, States
<1> QED BY <1>1 DEF NewProject, Projects

\* A write of the project by a user.
LEMMA UserTypes ==
    ASSUME ControllerTypes, User
    PROVE  ControllerTypes'
<1> USE DEF ControllerTypes
<1>1. ASSUME NEW p \in Projects \cup {NoProject}, ByUser(p) PROVE ControllerTypes'
    BY <1>1 DEF ByUser, Persist, Notified, localVars
<1>2. ASSUME Exists PROVE project \in Projects
    BY <1>2 DEF Exists
<1>3. ASSUME NEW s \in Specs, CreateProject(s) PROVE ControllerTypes'
    BY <1>3, NewProjectType DEF CreateProject, Persist, Notified, localVars
<1>4. ASSUME NEW s \in Specs, UpdateSpec(s) PROVE ControllerTypes'
    BY <1>1, <1>2, <1>4, ProjectUpdates DEF UpdateSpec
<1>5. ASSUME NEW s \in Specs, ReplaceManifest(s) PROVE ControllerTypes'
    <2> DEFINE n == IF project.spec # s THEN project.generation + 1 ELSE project.generation
               p == [project EXCEPT !.spec = s, !.generation = n,
                                    !.finalizers = @ \ {projectFinalizer}]
    <2>1. project \in Projects
        BY <1>2, <1>5 DEF ReplaceManifest
    <2>2. n \in Nat /\ project.finalizers \ {projectFinalizer} \in SUBSET Finalizers
        BY <2>1 DEF Projects
    <2>3. p \in Projects
        BY <2>1, <2>2, ProjectUpdates
    <2>4. ByUser(Remaining(p))
        BY <1>5 DEF ReplaceManifest
    <2> QED BY <1>1, <2>3, <2>4, ProjectUpdates
<1>6. CASE DeleteProject
    BY <1>1, <1>2, <1>6, ProjectUpdates DEF DeleteProject
<1>7. ASSUME NEW f \in ForeignFinalizers, AddForeignFinalizer(f) PROVE ControllerTypes'
    <2>1. project.finalizers \cup {f} \in SUBSET Finalizers
        BY <1>2, <1>7 DEF AddForeignFinalizer, Projects, Finalizers
    <2> QED BY <1>1, <1>2, <1>7, <2>1, ProjectUpdates DEF AddForeignFinalizer
<1>8. ASSUME NEW f \in ForeignFinalizers, RemoveForeignFinalizer(f) PROVE ControllerTypes'
    <2>1. project.finalizers \ {f} \in SUBSET Finalizers
        BY <1>2, <1>8 DEF RemoveForeignFinalizer, Projects
    <2> QED BY <1>1, <1>2, <1>8, <2>1, ProjectUpdates DEF RemoveForeignFinalizer
<1> QED BY <1>3, <1>4, <1>5, <1>6, <1>7, <1>8 DEF User

LEMMA BeginTypes ==
    ASSUME ControllerTypes, NEW r \in Replicas, Begin(r), Exists,
           NEW step \in PCs, NEW state \in States, Go(r, step, state)
    PROVE  ControllerTypes'
BY ProjectUpdates DEF ControllerTypes, Begin, Exists, Go

\* The finalizer set that AddFinalizer stores, and what RemoveFinalizer leaves.
LEMMA FinalizerWrites ==
    ASSUME ControllerTypes, Exists
    PROVE  /\ [project EXCEPT !.finalizers = @ \cup {projectFinalizer}] \in Projects
           /\ WithoutFinalizer \in Projects \cup {NoProject}
<1>1. project \in Projects
    BY DEF ControllerTypes, Exists
<1>2. /\ project.finalizers \cup {projectFinalizer} \in SUBSET Finalizers
      /\ project.finalizers \ {projectFinalizer} \in SUBSET Finalizers
    BY <1>1 DEF Projects, Finalizers
<1> QED BY <1>1, <1>2, ProjectUpdates DEF WithoutFinalizer

LEMMA FinishTypes ==
    ASSUME ControllerTypes, NEW r \in Replicas, Finish(r)
    PROVE  /\ pc' \in [Replicas -> PCs]
           /\ snap' \in [Replicas -> Projects \cup {NoProject}]
           /\ err' \in [Replicas -> BOOLEAN]
           /\ \A q \in Replicas : pc'[q] # "idle" => snap'[q] \in Projects
BY DEF ControllerTypes, Finish, PCs

LEMMA ReportedStatusType ==
    ASSUME ControllerTypes, NEW r \in Replicas, pc[r] = "status"
    PROVE  ReportedStatus(r) \in Statuses
<1>1. snap[r] \in Projects
    BY DEF ControllerTypes
<1>2. snap[r].generation \in Int /\ snap[r].status.state \in States
    BY <1>1 DEF Projects, Statuses
<1> QED BY <1>2 DEF ReportedStatus, Statuses, States

LEMMA WorkTypes ==
    ASSUME ControllerTypes, NEW r \in Replicas, Work(r)
    PROVE  ControllerTypes'
<1> USE DEF ControllerTypes
<1>1. project.status.state \in States \/ ~Exists
    BY DEF Exists, Projects, Statuses
<1>2. CASE ProjectNotFound(r)
    BY <1>2 DEF ProjectNotFound, Begin
<1>3. CASE \/ FirstSeen(r) \/ FinalizerMissing(r) \/ ReconcileDependents(r)
           \/ DeletionBlocked(r) \/ DeleteDependents(r)
    BY <1>1, <1>3, BeginTypes DEF FirstSeen, FinalizerMissing, ReconcileDependents,
        DeletionBlocked, DeleteDependents, Observed, PCs, States
<1>4. CASE UNCHANGED controllerVars
    BY <1>4 DEF controllerVars, projectVars, localVars
<1>5. CASE AddFinalizer(r)
    BY <1>5, FinalizerWrites DEF AddFinalizer, Current, ToStatus, PCs
<1>6. CASE DependentsReconciled(r)
    <2>1. snap[r] \in Projects /\ snap'[r] \in Projects
        BY <1>6, ProjectUpdates DEF DependentsReconciled, States
    <2> QED BY <1>6, <2>1 DEF DependentsReconciled, ToStatus, PCs, projectVars
<1>7. CASE DependentsGone(r)
    BY <1>7 DEF DependentsGone, PCs, projectVars
<1>8. CASE ReconcileFailed(r)
    BY <1>8 DEF ReconcileFailed, ToStatus, PCs, projectVars
<1>9. CASE RemoveFinalizer(r)
    BY <1>9, FinalizerWrites, FinishTypes DEF RemoveFinalizer, Current, Notified
<1>10. CASE FinalizerConflict(r)
    BY <1>10 DEF FinalizerConflict, ToStatus, PCs, projectVars
<1>11. CASE UpdateStatus(r)
    <2>1. project \in Projects /\ ReportedStatus(r) \in Statuses
        BY <1>11, ReportedStatusType DEF UpdateStatus, WriteStatus, Current, Exists
    <2> QED BY <1>11, <2>1, FinishTypes, ProjectUpdates
        DEF UpdateStatus, WriteStatus, RequeueAndFinish
<1>12. CASE StatusConflict(r)
    BY <1>12, FinishTypes DEF StatusConflict, RequeueAndFinish
<1> QED BY <1>2, <1>3, <1>4, <1>5, <1>6, <1>7, <1>8, <1>9, <1>10, <1>11, <1>12 DEF Work

LEMMA TroubleTypes ==
    ASSUME ControllerTypes, NEW r \in Replicas, Trouble(r)
    PROVE  ControllerTypes'
<1> USE DEF ControllerTypes
<1>1. CASE UNCHANGED controllerVars
    BY <1>1 DEF controllerVars, projectVars, localVars
<1>2. CASE FinalizerCallFails(r)
    BY <1>2 DEF FinalizerCallFails, ToStatus, PCs, projectVars
<1>3. CASE FinalizerAnswerLost(r)
    BY <1>3, FinalizerWrites DEF FinalizerAnswerLost, Current, Persist, Notified, ToStatus, PCs
<1>4. CASE StatusCallFails(r)
    BY <1>4, FinishTypes DEF StatusCallFails, RequeueAndFinish
<1>5. CASE Crash(r)
    BY <1>5, FinishTypes DEF Crash
<1> QED BY <1>1, <1>2, <1>3, <1>4, <1>5 DEF Trouble

LEMMA NextTypes ==
    ASSUME ControllerTypes, [Next]_vars
    PROVE  ControllerTypes'
<1>1. ASSUME NEW r \in Replicas, Start(r) PROVE ControllerTypes'
    BY <1>1 DEF Start, ControllerTypes, Exists, localVars
<1>2. CASE UNCHANGED controllerVars
    BY <1>2 DEF ControllerTypes, controllerVars, projectVars, localVars
<1> QED BY <1>1, <1>2, UserTypes, WorkTypes, TroubleTypes DEF Next, vars

LEMMA InitTypes == Init => ControllerTypes
BY DEF Init, ControllerTypes, PCs

LEMMA TypesInvariant == Spec => []ControllerTypes
BY InitTypes, NextTypes, PTL DEF Spec

\* The reconciler is composed of the deployer's own actions, so what is proved of
\* the deployer with any callers holds of it (project_controller.go, 168 and 189).
LEMMA UsesDeployer == Spec => DeployerSpec
<1>1. Init => DeployerInit
    BY DEF Init
<1> QED BY <1>1, TypesInvariant, NextCallsDeployer, PTL DEF Spec, DeployerSpec

\* Type correctness of the whole operator.
THEOREM TypeCorrect == Spec => []TypeOK
<1>1. DeployerInv /\ ControllerTypes => TypeOK
    BY DEF DeployerInv, ControllerTypes, TypeOK
<1> QED BY <1>1, TypesInvariant, UsesDeployer, DeployerTypes, PTL

\* In the operator, too, whatever others do to the cluster, a reconciliation
\* only changes and deletes objects of its own project.
THEOREM OperatorOwnObjects == Spec => OnlyOwnObjectsTouched
BY UsesDeployer, OwnObjects, PTL
-----------------------------------------------------------------------------
(* Requests and copies.                                                    *)

\* A copy that is not outdated agrees with the stored project.
CopyIsCurrent ==
    \A r \in Replicas : pc[r] # "idle" /\ ~outdated[r] /\ Exists =>
        /\ snap[r].uid = project.uid
        /\ snap[r].generation = project.generation
        /\ snap[r].spec = project.spec
        /\ snap[r].deleting = project.deleting
        /\ snap[r].finalizers = project.finalizers

\* A deletion is only carried out when nobody else holds the project.
DeletesUnheld ==
    \A r \in Replicas :
        pc[r] = "removeFinalizer" \/ (pc[r] = "reconcile" /\ snap[r].deleting) =>
            snap[r].deleting /\ snap[r].finalizers \subseteq {projectFinalizer}

CopyInv == CopyIsCurrent /\ DeletesUnheld

RequestInv == ControllerTypes /\ CopyInv /\ NeverForgotten
-----------------------------------------------------------------------------
LEMMA SameKeepsRequests ==
    ASSUME RequestInv, UNCHANGED controllerVars
    PROVE  CopyInv' /\ NeverForgotten'
BY DEF RequestInv, CopyInv, CopyIsCurrent, DeletesUnheld, NeverForgotten, Exists,
    controllerVars, projectVars, localVars

\* What the copy of a step says, apart from the status.
LEMMA StatusLeavesRest ==
    ASSUME NEW p \in Projects
    PROVE  /\ \A st \in Statuses : LET q == [p EXCEPT !.status = st] IN
                /\ q.uid = p.uid
                /\ q.generation = p.generation
                /\ q.spec = p.spec
                /\ q.deleting = p.deleting
                /\ q.finalizers = p.finalizers
           /\ \A st \in States : LET q == [p EXCEPT !.status.state = st] IN
                /\ q.uid = p.uid
                /\ q.generation = p.generation
                /\ q.spec = p.spec
                /\ q.deleting = p.deleting
                /\ q.finalizers = p.finalizers
BY DEF Projects

LEMMA UserKeepsRequests ==
    ASSUME RequestInv, User
    PROVE  CopyInv' /\ NeverForgotten'
<1>1. ASSUME NEW p, Persist(p), queued' = Notified(p), UNCHANGED <<active, localVars>>,
             Exists \/ p # NoProject
      PROVE  CopyInv' /\ NeverForgotten'
    <2>1. CopyIsCurrent'
        BY <1>1 DEF CopyIsCurrent, Persist, localVars
    <2>2. DeletesUnheld'
        BY <1>1 DEF RequestInv, CopyInv, DeletesUnheld, localVars
    <2>3. NeverForgotten'
        BY <1>1 DEF RequestInv, ControllerTypes, NeverForgotten, Notified, Notifies, Persist,
            Exists, localVars
    <2> QED BY <2>1, <2>2, <2>3 DEF CopyInv
<1>2. ASSUME NEW s \in Specs, CreateProject(s) PROVE CopyInv' /\ NeverForgotten'
    <2>1. PICK uid \in Owners : /\ Persist(NewProject(uid, s))
                                /\ queued' = Notified(NewProject(uid, s))
        BY <1>2 DEF CreateProject
    <2>2. NewProject(uid, s) # NoProject
        BY NewProjectType, ProjectAssumption
    <2> QED BY <1>1, <1>2, <2>1, <2>2 DEF CreateProject
<1>3. ASSUME NEW p, ByUser(p), Exists PROVE CopyInv' /\ NeverForgotten'
    BY <1>1, <1>3 DEF ByUser
<1> QED BY <1>2, <1>3 DEF User, UpdateSpec, ReplaceManifest, DeleteProject,
        AddForeignFinalizer, RemoveForeignFinalizer

\* The copy is made when the request is taken from the queue.
LEMMA BeginKeepsRequests ==
    ASSUME RequestInv, NEW r \in Replicas, Begin(r), Exists,
           NEW step \in PCs \ {"idle", "removeFinalizer"}, NEW state \in States,
           Go(r, step, state),
           step = "reconcile" /\ project.deleting => project.finalizers \subseteq {projectFinalizer}
    PROVE  CopyInv' /\ NeverForgotten'
<1> USE DEF RequestInv, ControllerTypes, CopyInv, Begin, Go
<1>1. project \in Projects
    BY DEF Exists
<1>2. /\ snap'[r].uid = project.uid
      /\ snap'[r].generation = project.generation
      /\ snap'[r].spec = project.spec
      /\ snap'[r].deleting = project.deleting
      /\ snap'[r].finalizers = project.finalizers
    BY <1>1, StatusLeavesRest
<1>3. /\ pc'[r] = step /\ project' = project /\ outdated' = outdated /\ active' = active
      /\ \A q \in Replicas : q # r =>
            pc'[q] = pc[q] /\ snap'[q] = snap[q] /\ queued'[q] = queued[q]
    OBVIOUS
<1>4. CopyIsCurrent'
    BY <1>2, <1>3 DEF CopyIsCurrent, Exists
<1>5. DeletesUnheld'
    BY <1>2, <1>3 DEF DeletesUnheld
<1>6. NeverForgotten'
    BY <1>3 DEF NeverForgotten, Exists
<1> QED BY <1>4, <1>5, <1>6

\* A step within Reconcile that does not write the project.
LEMMA StepKeepsRequests ==
    ASSUME RequestInv, NEW r \in Replicas, UNCHANGED projectVars, pc[r] # "idle",
           NEW step \in PCs \ {"idle", "reconcile"}, pc' = [pc EXCEPT ![r] = step],
           step = "removeFinalizer" => pc[r] = "reconcile" /\ snap[r].deleting,
           \/ snap' = snap
           \/ \E st \in States : snap' = [snap EXCEPT ![r].status.state = st]
    PROVE  CopyInv' /\ NeverForgotten'
<1> USE DEF RequestInv, ControllerTypes, CopyInv, projectVars
<1>1. snap[r] \in Projects
    OBVIOUS
<1>2. /\ snap'[r].uid = snap[r].uid
      /\ snap'[r].generation = snap[r].generation
      /\ snap'[r].spec = snap[r].spec
      /\ snap'[r].deleting = snap[r].deleting
      /\ snap'[r].finalizers = snap[r].finalizers
    <2>1. CASE snap' = snap
        BY <2>1
    <2>2. ASSUME NEW st \in States, snap' = [snap EXCEPT ![r].status.state = st]
          PROVE  /\ snap'[r].uid = snap[r].uid
                 /\ snap'[r].generation = snap[r].generation
                 /\ snap'[r].spec = snap[r].spec
                 /\ snap'[r].deleting = snap[r].deleting
                 /\ snap'[r].finalizers = snap[r].finalizers
        <3>1. snap'[r] = [snap[r] EXCEPT !.status.state = st]
            BY <2>2
        <3> QED BY <1>1, <3>1, StatusLeavesRest
    <2> QED BY <2>1, <2>2
<1>3. /\ pc'[r] = step
      /\ \A q \in Replicas : q # r => pc'[q] = pc[q] /\ snap'[q] = snap[q]
    OBVIOUS
<1>4. CopyIsCurrent'
    BY <1>2, <1>3 DEF CopyIsCurrent, Exists
<1>5. DeletesUnheld'
    BY <1>2, <1>3 DEF DeletesUnheld
<1>6. NeverForgotten'
    BY <1>3 DEF NeverForgotten, Exists
<1> QED BY <1>4, <1>5, <1>6

\* The end of a reconciliation; all others that were reading have old copies if
\* it wrote the project.
LEMMA EndKeepsRequests ==
    ASSUME RequestInv, NEW r \in Replicas, Finish(r),
           \A q \in Replicas : q # r =>
                \/ outdated'[q] \/ pc[q] = "idle"
                \/ project' = project /\ outdated'[q] = outdated[q],
           Exists' => Exists /\ \A q \in active' :
                \/ queued'[q]
                \/ (q # r /\ q \in active /\ queued'[q] = queued[q])
    PROVE  CopyInv' /\ NeverForgotten'
<1> USE DEF RequestInv, ControllerTypes, CopyInv, Finish
<1>1. /\ pc'[r] = "idle"
      /\ \A q \in Replicas : q # r => pc'[q] = pc[q] /\ snap'[q] = snap[q]
    OBVIOUS
<1>2. CopyIsCurrent'
    BY <1>1 DEF CopyIsCurrent, Exists
<1>3. DeletesUnheld'
    BY <1>1 DEF DeletesUnheld
<1>4. NeverForgotten'
    BY <1>1 DEF NeverForgotten
<1> QED BY <1>2, <1>3, <1>4

\* Current copies of deletions that are done leave nothing of the project.
LEMMA LastFinalizer ==
    ASSUME RequestInv, NEW r \in Replicas, pc[r] = "removeFinalizer", Current(r)
    PROVE  WithoutFinalizer = NoProject
<1>1. project \in Projects /\ project.deleting /\ project.finalizers \subseteq {projectFinalizer}
    <2>1. Exists /\ ~outdated[r] /\ pc[r] # "idle"
        BY DEF Current
    <2>2. snap[r].deleting /\ snap[r].finalizers \subseteq {projectFinalizer}
        BY DEF RequestInv, CopyInv, DeletesUnheld
    <2>3. snap[r].deleting = project.deleting /\ snap[r].finalizers = project.finalizers
        BY <2>1 DEF RequestInv, CopyInv, CopyIsCurrent
    <2> QED BY <2>1, <2>2, <2>3 DEF RequestInv, ControllerTypes, Exists
<1> DEFINE p == [project EXCEPT !.finalizers = @ \ {projectFinalizer}]
<1>2. p.deleting /\ p.finalizers = {}
    BY <1>1 DEF Projects
<1> QED BY <1>2 DEF WithoutFinalizer, Remaining

LEMMA AddFinalizerKeepsRequests ==
    ASSUME RequestInv, NEW r \in Replicas, AddFinalizer(r)
    PROVE  CopyInv' /\ NeverForgotten'
<1> USE DEF RequestInv, ControllerTypes, CopyInv, AddFinalizer, ToStatus
<1>1. Exists
    BY DEF Current
<1>2. /\ pc'[r] = "status" /\ snap'[r] = project' /\ pc[r] # "idle"
      /\ \A q \in Replicas : q # r =>
            /\ pc'[q] = pc[q] /\ snap'[q] = snap[q]
            /\ outdated'[q] \/ pc[q] = "idle"
    OBVIOUS
<1>3. CopyIsCurrent'
    BY <1>2 DEF CopyIsCurrent
<1>4. DeletesUnheld'
    BY <1>2 DEF DeletesUnheld
<1>5. NeverForgotten'
    BY <1>1, <1>2 DEF NeverForgotten
<1> QED BY <1>3, <1>4, <1>5

\* A write of the finalizers whose answer got lost: all copies are old.
LEMMA AnswerLostKeepsRequests ==
    ASSUME RequestInv, NEW r \in Replicas, FinalizerAnswerLost(r)
    PROVE  CopyInv' /\ NeverForgotten'
<1> USE DEF RequestInv, ControllerTypes, CopyInv, FinalizerAnswerLost, ToStatus, Persist
<1>1. Exists
    BY DEF Current
<1>2. /\ pc'[r] = "status" /\ pc[r] # "idle"
      /\ snap' = snap /\ active' = active
      /\ \A q \in Replicas : q # r => pc'[q] = pc[q]
      /\ \A q \in Replicas : outdated'[q] \/ pc[q] = "idle"
      /\ \A q \in Replicas : queued[q] => queued'[q]
    BY DEF Notified
<1>3. CopyIsCurrent'
    BY <1>2 DEF CopyIsCurrent
<1>4. DeletesUnheld'
    BY <1>2 DEF DeletesUnheld
<1>5. NeverForgotten'
    BY <1>1, <1>2 DEF NeverForgotten
<1> QED BY <1>3, <1>4, <1>5

LEMMA StatusKeepsRequests ==
    ASSUME RequestInv, NEW r \in Replicas,
           UpdateStatus(r) \/ StatusConflict(r) \/ StatusCallFails(r)
    PROVE  CopyInv' /\ NeverForgotten'
<1> USE DEF RequestInv, ControllerTypes, RequeueAndFinish
<1>1. Finish(r) /\ active' = active /\ queued' = [queued EXCEPT ![r] = TRUE]
    BY DEF UpdateStatus, StatusConflict, StatusCallFails
<1>2. Exists' => Exists
    BY DEF UpdateStatus, WriteStatus, StatusConflict, StatusCallFails, Current, Exists
<1>3. ASSUME NEW q \in Replicas, q # r
      PROVE  \/ outdated'[q] \/ pc[q] = "idle"
             \/ project' = project /\ outdated'[q] = outdated[q]
    BY <1>3 DEF UpdateStatus, WriteStatus, StatusConflict, StatusCallFails
<1>4. ASSUME NEW q \in active'
      PROVE  queued'[q] \/ (q # r /\ q \in active /\ queued'[q] = queued[q])
    <2>1. q \in Replicas /\ q \in active
        BY <1>1
    <2> QED BY <1>1, <2>1
<1> QED BY <1>1, <1>2, <1>3, <1>4, EndKeepsRequests

LEMMA WorkKeepsRequests ==
    ASSUME RequestInv, NEW r \in Replicas, Work(r)
    PROVE  CopyInv' /\ NeverForgotten'
<1>1. CASE ProjectNotFound(r)
    <2>1. ~Exists /\ ~Exists'
        BY <1>1 DEF ProjectNotFound, Begin, Exists
    <2> QED BY <1>1, <2>1 DEF ProjectNotFound, Begin, RequestInv, CopyInv, CopyIsCurrent,
            DeletesUnheld, NeverForgotten
<1>2. CASE \/ FirstSeen(r) \/ FinalizerMissing(r) \/ ReconcileDependents(r)
           \/ DeletionBlocked(r) \/ DeleteDependents(r)
    <2>1. Exists /\ project.status.state \in States
        BY <1>2 DEF FirstSeen, FinalizerMissing, ReconcileDependents, DeletionBlocked,
            DeleteDependents, Observed, Exists, RequestInv, ControllerTypes, Projects, Statuses
    <2>2. CASE FirstSeen(r)
        BY <2>1, <2>2, BeginKeepsRequests DEF FirstSeen, PCs, States
    <2>3. CASE FinalizerMissing(r)
        BY <2>1, <2>3, BeginKeepsRequests DEF FinalizerMissing, PCs
    <2>4. CASE ReconcileDependents(r)
        BY <2>1, <2>4, BeginKeepsRequests DEF ReconcileDependents, PCs
    <2>5. CASE DeletionBlocked(r)
        BY <2>1, <2>5, BeginKeepsRequests DEF DeletionBlocked, PCs, States
    <2>6. CASE DeleteDependents(r)
        <3>1. project.finalizers \subseteq {projectFinalizer}
            BY <2>6 DEF DeleteDependents
        <3> QED BY <2>1, <2>6, <3>1, BeginKeepsRequests DEF DeleteDependents, PCs
    <2> QED BY <1>2, <2>2, <2>3, <2>4, <2>5, <2>6
<1>3. CASE UNCHANGED controllerVars
    BY <1>3, SameKeepsRequests
<1>4. CASE AddFinalizer(r)
    BY <1>4, AddFinalizerKeepsRequests
<1>5. CASE DependentsReconciled(r)
    <2>1. \E st \in States : snap' = [snap EXCEPT ![r].status.state = st]
        BY <1>5 DEF DependentsReconciled, States
    <2> QED BY <1>5, <2>1, StepKeepsRequests DEF DependentsReconciled, ToStatus, PCs
<1>6. CASE DependentsGone(r)
    BY <1>6, StepKeepsRequests DEF DependentsGone, PCs
<1>7. CASE ReconcileFailed(r) \/ FinalizerConflict(r)
    BY <1>7, StepKeepsRequests DEF ReconcileFailed, FinalizerConflict, ToStatus, PCs
<1>8. CASE RemoveFinalizer(r)
    <2>1. project' = NoProject
        BY <1>8, LastFinalizer DEF RemoveFinalizer
    <2>2. \A q \in Replicas : q # r => outdated'[q] \/ pc[q] = "idle"
        BY <1>8 DEF RemoveFinalizer
    <2> QED BY <1>8, <2>1, <2>2, EndKeepsRequests DEF RemoveFinalizer, Exists
<1>9. CASE UpdateStatus(r) \/ StatusConflict(r)
    BY <1>9, StatusKeepsRequests
<1> QED BY <1>1, <1>2, <1>3, <1>4, <1>5, <1>6, <1>7, <1>8, <1>9 DEF Work

LEMMA TroubleKeepsRequests ==
    ASSUME RequestInv, NEW r \in Replicas, Trouble(r)
    PROVE  CopyInv' /\ NeverForgotten'
<1>1. CASE UNCHANGED controllerVars
    BY <1>1, SameKeepsRequests
<1>2. CASE FinalizerCallFails(r)
    BY <1>2, StepKeepsRequests DEF FinalizerCallFails, ToStatus, PCs
<1>3. CASE FinalizerAnswerLost(r)
    BY <1>3, AnswerLostKeepsRequests
<1>4. CASE StatusCallFails(r)
    BY <1>4, StatusKeepsRequests
<1>5. CASE Crash(r)
    <2>1. Finish(r) /\ project' = project /\ active' = active \ {r}
        BY <1>5 DEF Crash
    <2>2. \A q \in Replicas : q # r => outdated'[q] = outdated[q] /\ queued'[q] = queued[q]
        BY <1>5 DEF Crash, RequestInv, ControllerTypes
    <2> QED BY <2>1, <2>2, EndKeepsRequests DEF Exists, RequestInv, ControllerTypes
<1> QED BY <1>1, <1>2, <1>3, <1>4, <1>5 DEF Trouble

LEMMA NextKeepsRequests ==
    ASSUME RequestInv, [Next]_vars
    PROVE  RequestInv'
<1> SUFFICES CopyInv' /\ NeverForgotten'
    BY NextTypes DEF RequestInv
<1>1. ASSUME NEW r \in Replicas, Start(r) PROVE CopyInv' /\ NeverForgotten'
    BY <1>1 DEF Start, RequestInv, ControllerTypes, CopyInv, CopyIsCurrent, DeletesUnheld,
        NeverForgotten, Exists, localVars
<1>2. CASE UNCHANGED controllerVars
    BY <1>2, SameKeepsRequests
<1>3. CASE UNCHANGED vars
    BY <1>3, SameKeepsRequests DEF vars
<1>4. CASE Next
    BY <1>1, <1>2, <1>4, UserKeepsRequests, WorkKeepsRequests, TroubleKeepsRequests DEF Next
<1> QED BY <1>3, <1>4

LEMMA RequestsInvariant == Spec => []RequestInv
<1>1. Init => RequestInv
    BY InitTypes DEF Init, RequestInv, CopyInv, CopyIsCurrent, DeletesUnheld, NeverForgotten,
        Exists
<1> QED BY <1>1, NextKeepsRequests, PTL DEF Spec

\* Events of the status are filtered, so every result that leaves a project asks
\* for another round: with any number of replicas at work, no running one ever
\* forgets a project (project_controller.go, 73-139 and 216-222).
THEOREM NothingForgotten == Spec => []NeverForgotten
BY RequestsInvariant, PTL DEF RequestInv

\* Of replicas that work at once none replaces a status by one that was computed
\* for an older generation (project_controller.go, 130-136).
THEOREM StatusIsForGeneration == Spec => StatusDescribesGeneration
<1> DEFINE Accurate ==
        Exists /\ project' # NoProject /\ project'.uid = project.uid
            /\ project'.status # project.status
        => project'.status.observedGeneration = project.generation
<1>1. ASSUME RequestInv, NEW r \in Replicas, WriteStatus(r)
      PROVE  project'.status.observedGeneration = project.generation
    <2>1. project \in Projects /\ snap[r].generation = project.generation
        BY <1>1 DEF WriteStatus, Current, Exists, RequestInv, CopyInv, CopyIsCurrent,
            ControllerTypes
    <2>2. project'.status = ReportedStatus(r)
        BY <1>1, <2>1 DEF WriteStatus, Projects
    <2> QED BY <2>1, <2>2 DEF ReportedStatus
<1>2. ASSUME RequestInv, User PROVE Accurate
    <2> SUFFICES ASSUME Exists, project' # NoProject PROVE project'.status = project.status
        OBVIOUS
    <2>1. project \in Projects
        BY <1>2 DEF RequestInv, ControllerTypes, Exists
    <2> QED BY <1>2, <2>1 DEF User, CreateProject, UpdateSpec, ReplaceManifest, DeleteProject,
            AddForeignFinalizer, RemoveForeignFinalizer, ByUser, Persist, Remaining, Projects
<1>3. ASSUME RequestInv, NEW r \in Replicas, Work(r) \/ Trouble(r) \/ Start(r) PROVE Accurate
    <2>1. CASE project' = project
        BY <2>1
    <2>2. CASE UpdateStatus(r)
        BY <1>1, <1>3, <2>2 DEF UpdateStatus
    <2>3. CASE Exists /\ project' = [project EXCEPT !.finalizers = @ \cup {projectFinalizer}]
        BY <1>3, <2>3 DEF Projects, RequestInv, ControllerTypes, Exists
    <2>4. CASE Exists /\ project' = WithoutFinalizer
        BY <1>3, <2>4 DEF WithoutFinalizer, Remaining, Projects, RequestInv, ControllerTypes, Exists
    <2>5. \/ project' = project
          \/ UpdateStatus(r)
          \/ Exists /\ project' = [project EXCEPT !.finalizers = @ \cup {projectFinalizer}]
          \/ Exists /\ project' = WithoutFinalizer
        BY <1>3 DEF Work, Trouble, Start, ProjectNotFound, FirstSeen, FinalizerMissing,
            ReconcileDependents, DeletionBlocked, DeleteDependents, AddFinalizer,
            DependentsReconciled, DependentsGone, ReconcileFailed, RemoveFinalizer,
            FinalizerConflict, StatusConflict, FinalizerCallFails, FinalizerAnswerLost,
            StatusCallFails, Crash, Begin, Current, Persist, controllerVars, projectVars
    <2> QED BY <2>1, <2>2, <2>3, <2>4, <2>5
<1>4. RequestInv /\ [Next]_vars => [Accurate]_vars
    BY <1>2, <1>3 DEF Next, controllerVars, projectVars
<1> QED BY <1>4, RequestsInvariant, PTL DEF Spec, StatusDescribesGeneration
=============================================================================
