-------------------------- MODULE Lifecycle_proofs --------------------------
(***************************************************************************)
(* The operator under leader election.                                     *)
(*                                                                         *)
(* If nobody takes the finalizer away from it, no object outlives its      *)
(* project: FinalizerProtects, for any number of replicas, projects, specs *)
(* and faults, and with others deleting, editing, relabelling and creating *)
(* objects.  The reconciler, its users and everybody else together then    *)
(* implement ProjectLifecycle: what the stored project may become in a     *)
(* step is little, and what happens to the objects follows from            *)
(* FinalizerProtects before and after the step.                            *)
(*                                                                         *)
(* If others leave the objects alone, too, Ready means deployed: the end   *)
(* of this module.                                                         *)
(***************************************************************************)
EXTENDS ProjectController_proofs
-----------------------------------------------------------------------------
(* The inductive invariant.  FinalizerProtects alone does not say why the  *)
(* finalizer may go when the deletion run found nothing to do.             *)

SingleLeader == \A q, r \in active : q = r

OnlyLeadersWork == \A r \in Replicas : pc[r] # "idle" => r \in active

CallsMatch == \A r \in Replicas : pc[r] = "reconcile" <=> phase[r] # "idle"

Guarded == Exists /\ projectFinalizer \in project.finalizers

\* The project of a running call stays, and stays guarded.
GuardedCalls ==
    \A r \in Replicas :
        pc[r] = "reconcile" => Guarded /\ project.uid = owner[r]

Worklists ==
    \A r \in Replicas, k \in Keys :
        k \in todo[r] => want[r][k] # Absent \/ listed[r][k] # Absent

\* The kind of k was listed by the call that r is in.
HasListed(r, k) ==
    \/ phase[r] = "apply"
    \/ phase[r] = "ClusterRoleBinding" /\ KindOf[k] # "ClusterRoleBinding"
    \/ phase[r] = "RoleBinding" /\ KindOf[k] = "Namespace"

DeletionCall(r) == pc[r] = "reconcile" /\ snap[r].deleting

\* In a deletion call nothing is created, so what was not found when listing
\* is not there later either; and the call is unready unless all that it did
\* find is still to be visited.
DeletionCalls ==
    \A r \in Replicas : DeletionCall(r) =>
        /\ want[r] = Nothing
        /\ phase[r] # "failed" => \A k \in Keys :
            /\ HasListed(r, k) /\ listed[r][k] = Absent => ~Owned(k, owner[r])
            /\ ~unready[r] /\ listed[r][k] # Absent => k \in todo[r]

NothingLeft ==
    \A r \in Replicas : pc[r] = "removeFinalizer" =>
        \A k \in Keys, o \in Owners : ~Owned(k, o)

\* A deleted project exists because somebody holds it.
Held == Exists /\ project.deleting => project.finalizers # {}

ProcessInv == SingleLeader /\ OnlyLeadersWork /\ CallsMatch

CallInv == GuardedCalls /\ Worklists /\ DeletionCalls /\ NothingLeft

FinalizerInv ==
    /\ DeployerInv
    /\ ControllerTypes
    /\ ProcessInv
    /\ CallInv
    /\ Held
    /\ FinalizerProtects
-----------------------------------------------------------------------------
(* What a step can make owned.                                             *)

\* The objects of o at k do not become more.
NoNewObjects == \A k \in Keys, o \in Owners : Owned(k, o)' => Owned(k, o)

LEMMA EnvironmentCreatesNothing ==
    ASSUME KubeTypeOK, NamespaceController \/ Outsider
    PROVE  NoNewObjects
<1> USE KubeAssumption DEF NoNewObjects, Owned, KubeTypeOK
<1>1. CASE NamespaceFinalized
    BY <1>1 DEF NamespaceFinalized, Store, Write
<1>2. ASSUME NEW k \in Keys, NamespaceContentDeleted(k) PROVE NoNewObjects
    BY <1>2 DEF NamespaceContentDeleted, Store, Write
<1>3. ASSUME NEW k \in Keys, ExternalDelete(k) PROVE NoNewObjects
    BY <1>3 DEF ExternalDelete, AfterDelete, Store, Write, Objects
<1>4. ASSUME NEW k \in Keys, ExternalEdit(k) PROVE NoNewObjects
    BY <1>4 DEF ExternalEdit, Write, Objects
<1>5. ASSUME NEW k \in Keys, ExternalRelabel(k) PROVE NoNewObjects
    BY <1>5 DEF ExternalRelabel, Store, Write, Objects
<1>6. ASSUME NEW k \in Keys, ExternalCreate(k) PROVE NoNewObjects
    BY <1>6 DEF ExternalCreate, Store, Write, Objects
<1> QED BY <1>1, <1>2, <1>3, <1>4, <1>5, <1>6 DEF NamespaceController, Outsider

\* A call only makes what it wants, and for its owner.
LEMMA CallCreatesWanted ==
    ASSUME DeployerInv, Worklists, NEW r \in Replicas,
           DeployerStep(r) \/ DeployerFault(r),
           NEW k \in Keys, NEW o \in Owners, Owned(k, o)'
    PROVE  Owned(k, o) \/ (o = owner[r] /\ want[r][k] # Absent /\ phase[r] = "apply")
<1> USE DEF Owned
<1>1. CASE UNCHANGED cluster
    BY <1>1
<1>2. ASSUME NEW j \in Keys, WriteDone(r, j)
      PROVE  Owned(k, o) \/ (o = owner[r] /\ want[r][k] # Absent /\ phase[r] = "apply")
    <2>1. CASE j # k
        BY <1>2, <2>1 DEF WriteDone, CreateDone, DeleteDone, UpdateDone, Store, Write,
            DeployerInv, DeployerTypeOK, KubeTypeOK
    <2>2. CASE j = k /\ CreateDone(r, k)
        <3>1. want[r][k] # Absent /\ phase[r] = "apply"
            BY <2>2 DEF CreateDone, Creating, Visiting, Worklists
        <3>2. cluster'[k].owner = owner[r]
            BY <2>2, KubeAssumption DEF CreateDone, CanCreate, Store, Write, Desired,
                DeployerInv, DeployerTypeOK, KubeTypeOK, Objects
        <3> QED BY <3>1, <3>2
    <2>3. CASE j = k /\ DeleteDone(r, k)
        <3>1. cluster[k] \in Objects
            BY <2>3 DEF DeleteDone, Matches, DeployerInv, DeployerTypeOK, KubeTypeOK
        <3>2. cluster'[k] = AfterDelete(k)
            BY <2>3 DEF DeleteDone, Store, Write, DeployerInv, DeployerTypeOK, KubeTypeOK
        <3>3. [cluster[k] EXCEPT !.terminating = TRUE].owner = cluster[k].owner
            BY <3>1 DEF Objects
        <3> QED BY <2>3, <3>2, <3>3 DEF AfterDelete, DeleteDone, Matches
    <2>4. CASE j = k /\ UpdateDone(r, k)
        <3>1. want[r][k] # Absent /\ phase[r] = "apply"
            BY <2>4 DEF UpdateDone, Updating, Visiting, Differs
        <3>2. CASE UNCHANGED cluster
            BY <3>2
        <3>3. CASE cluster'[k] = [Desired(r, k) EXCEPT !.terminating = cluster[k].terminating]
            BY <3>1, <3>3 DEF Desired
        <3> QED BY <2>4, <3>2, <3>3 DEF UpdateDone, Store, Write,
                DeployerInv, DeployerTypeOK, KubeTypeOK
    <2> QED BY <1>2, <2>1, <2>2, <2>3, <2>4 DEF WriteDone
<1> QED BY <1>1, <1>2 DEF DeployerStep, DeployerFault, List, CallFails, ApplyObject,
        CheckStatus, AnswerLost, kubeVars
-----------------------------------------------------------------------------
(* Every step keeps the invariant.  Types and the deployer's own invariant *)
(* come from ProjectController_proofs; what remains is:                   *)

Rest == ProcessInv /\ CallInv /\ Held /\ FinalizerProtects

\* While one replica works, the others do not.
LEMMA OthersIdle ==
    ASSUME ProcessInv, NEW r \in Replicas, r \in active, NEW q \in Replicas, q # r
    PROVE  pc[q] = "idle" /\ phase[q] = "idle"
BY DEF ProcessInv, SingleLeader, OnlyLeadersWork, CallsMatch

\* Users keep a guarded project guarded, and it stays the same project.
LEMMA UserKeepsGuard ==
    ASSUME ControllerTypes, Held, User, "stripFinalizer" \notin Interference
    PROVE  /\ Guarded => Guarded' /\ project'.uid = project.uid
           /\ Held'
<1> USE DEF Guarded, Held, ByUser, Persist
<1>1. Exists => project \in Projects
    BY DEF Exists, ControllerTypes
<1>2. ASSUME NEW s \in Specs, CreateProject(s) PROVE ~Exists /\ ~project'.deleting
    <2>1. PICK uid \in Owners : project' = NewProject(uid, s)
        BY <1>2 DEF CreateProject
    <2> QED BY <1>2, <2>1 DEF CreateProject, NewProject
<1>3. ASSUME NEW s \in Specs, UpdateSpec(s)
      PROVE  /\ Guarded => Guarded' /\ project'.uid = project.uid
             /\ Held'
    <2> DEFINE p == [project EXCEPT !.spec = s, !.generation = @ + 1]
    <2>1. project \in Projects /\ project' = p
        BY <1>1, <1>3 DEF UpdateSpec
    <2>2. p \in Projects
        BY <2>1, ProjectUpdates
    <2>3. /\ p.uid = project.uid
          /\ p.deleting = project.deleting
          /\ p.finalizers = project.finalizers
        BY <2>1 DEF Projects
    <2> QED BY <1>3, <2>1, <2>2, <2>3, ProjectAssumption DEF Exists, UpdateSpec
<1>4. CASE DeleteProject
    <2> DEFINE p == [project EXCEPT !.deleting = TRUE, !.generation = @ + 1]
    <2>1. /\ p # NoProject
          /\ p.uid = project.uid
          /\ p.finalizers = project.finalizers
        BY <1>1, <1>4, ProjectUpdates, ProjectAssumption DEF DeleteProject, Projects
    <2>2. project' = Remaining(p)
        BY <1>4 DEF DeleteProject
    <2> HIDE DEF p
    <2> QED BY <2>1, <2>2 DEF Exists, Remaining
<1>5. ASSUME NEW F \in SUBSET Finalizers, Exists,
             \/ project' = Remaining([project EXCEPT !.finalizers = F])
             \/ (project' = [project EXCEPT !.finalizers = F] /\ ~project.deleting),
             projectFinalizer \in project.finalizers => projectFinalizer \in F
      PROVE  /\ Guarded => Guarded' /\ project'.uid = project.uid
             /\ Held'
    <2> DEFINE p == [project EXCEPT !.finalizers = F]
    <2>1. project \in Projects
        BY <1>1, <1>5
    <2>2. p \in Projects
        BY <2>1, ProjectUpdates
    <2>3. /\ p.uid = project.uid
          /\ p.deleting = project.deleting
          /\ p.finalizers = F
        BY <2>1 DEF Projects
    <2>4. project' = Remaining(p) \/ (project' = p /\ ~project.deleting)
        BY <1>5
    <2> HIDE DEF p
    <2> QED BY <1>5, <2>2, <2>3, <2>4, ProjectAssumption DEF Exists, Remaining
<1>6. ASSUME NEW f \in ForeignFinalizers, AddForeignFinalizer(f)
      PROVE  /\ Guarded => Guarded' /\ project'.uid = project.uid
             /\ Held'
    <2>1. /\ project.finalizers \cup {f} \in SUBSET Finalizers
          /\ Exists
          /\ ~project.deleting
          /\ project' = [project EXCEPT !.finalizers = @ \cup {f}]
        BY <1>1, <1>6 DEF AddForeignFinalizer, Projects, Finalizers
    <2> QED BY <1>5, <2>1
<1>7. ASSUME NEW f \in ForeignFinalizers, RemoveForeignFinalizer(f)
      PROVE  /\ Guarded => Guarded' /\ project'.uid = project.uid
             /\ Held'
    <2>1. /\ project.finalizers \ {f} \in SUBSET Finalizers
          /\ Exists
          /\ project' = Remaining([project EXCEPT !.finalizers = @ \ {f}])
        BY <1>1, <1>7 DEF RemoveForeignFinalizer, Projects
    <2>2. f # projectFinalizer
        BY ProjectAssumption
    <2> QED BY <1>5, <2>1, <2>2
<1>8. CASE \E s \in Specs : CreateProject(s)
    BY <1>2, <1>8
<1> QED BY <1>3, <1>4, <1>6, <1>7, <1>8 DEF User, ReplaceManifest

LEMMA UserKeepsRest ==
    ASSUME FinalizerInv, User, "stripFinalizer" \notin Interference
    PROVE  Rest'
<1> USE DEF FinalizerInv
<1>1. UNCHANGED <<kubeVars, deployerVars, localVars, active>>
    BY DEF User, CreateProject, UpdateSpec, ReplaceManifest, DeleteProject,
        AddForeignFinalizer, RemoveForeignFinalizer, ByUser
<1>2. (Guarded => Guarded' /\ project'.uid = project.uid) /\ Held'
    BY UserKeepsGuard
<1> USE <1>1 DEF kubeVars, deployerVars, localVars
<1>3. ProcessInv'
    BY DEF ProcessInv, SingleLeader, OnlyLeadersWork, CallsMatch
<1>4. CallInv'
    <2>1. GuardedCalls'
        BY <1>2 DEF CallInv, GuardedCalls
    <2>2. Worklists'
        BY DEF CallInv, Worklists
    <2>3. DeletionCalls'
        BY DEF CallInv, DeletionCalls, DeletionCall, HasListed, Owned
    <2>4. NothingLeft'
        BY DEF CallInv, NothingLeft, Owned
    <2> QED BY <2>1, <2>2, <2>3, <2>4 DEF CallInv
<1>5. FinalizerProtects'
    BY <1>2 DEF FinalizerProtects, Guarded, Owned
<1> QED BY <1>2, <1>3, <1>4, <1>5 DEF Rest

\* Reading the project and going where no call of the deployer is made.
LEMMA BeginKeepsRest ==
    ASSUME FinalizerInv, NEW r \in Replicas, Begin(r), Exists,
           NEW step \in {"addFinalizer", "status"}, NEW state, Go(r, step, state),
           UNCHANGED <<kubeVars, deployerVars>>
    PROVE  Rest'
<1> USE DEF FinalizerInv, Begin, Go, kubeVars, deployerVars
<1>1. pc \in [Replicas -> PCs] /\ snap \in [Replicas -> Projects \cup {NoProject}]
    BY DEF ControllerTypes
<1>2. ProcessInv'
    BY <1>1 DEF ProcessInv, SingleLeader, OnlyLeadersWork, CallsMatch
<1>3. CallInv'
    <2>1. GuardedCalls'
        BY <1>1 DEF CallInv, GuardedCalls, Guarded, Exists
    <2>2. Worklists'
        BY DEF CallInv, Worklists
    <2>3. DeletionCalls'
        BY <1>1 DEF CallInv, DeletionCalls, DeletionCall, HasListed, Owned
    <2>4. NothingLeft'
        BY <1>1 DEF CallInv, NothingLeft, Owned
    <2> QED BY <2>1, <2>2, <2>3, <2>4 DEF CallInv
<1>4. Held' /\ FinalizerProtects'
    BY DEF Held, FinalizerProtects, Exists, Owned
<1> QED BY <1>2, <1>3, <1>4 DEF Rest

\* Reading the project and calling the deployer for it.
LEMMA CallKeepsRest ==
    ASSUME FinalizerInv, NEW r \in Replicas, Begin(r), Guarded, NEW state,
           Go(r, "reconcile", state), NEW w \in Wants, Call(r, project.uid, w),
           project.deleting => w = Nothing
    PROVE  Rest'
<1> USE DEF FinalizerInv, Begin, Go, Call, kubeVars
<1>1. /\ pc \in [Replicas -> PCs]
      /\ snap \in [Replicas -> Projects \cup {NoProject}]
      /\ project \in Projects
      /\ phase \in [Replicas -> Phases]
      /\ owner \in [Replicas -> Owners \cup {NoOwner}]
      /\ want \in [Replicas -> [Keys -> Digests \cup {Absent}]]
      /\ todo \in [Replicas -> SUBSET Keys]
      /\ unready \in [Replicas -> BOOLEAN]
    BY DEF ControllerTypes, DeployerInv, DeployerTypeOK, Guarded, Exists
<1>2. ProcessInv'
    BY <1>1 DEF ProcessInv, SingleLeader, OnlyLeadersWork, CallsMatch
<1>3. GuardedCalls'
    BY <1>1 DEF CallInv, GuardedCalls, Guarded, Exists
<1>4. Worklists'
    BY <1>1 DEF CallInv, Worklists
<1>5. DeletionCalls'
    <2> SUFFICES ASSUME NEW q \in Replicas, DeletionCall(q)', NEW k \in Keys
                 PROVE  /\ want'[q] = Nothing
                        /\ phase'[q] # "failed" =>
                            /\ HasListed(q, k)' /\ listed'[q][k] = Absent
                                => ~Owned(k, owner[q])'
                            /\ ~unready'[q] /\ listed'[q][k] # Absent => k \in todo'[q]
        BY DEF DeletionCalls, Keys
    <2>1. CASE q = r
        <3>1. snap'[r].deleting = project.deleting
            BY <1>1 DEF Projects
        <3>2. listed[r][k] = Absent
            BY NothingType DEF DeployerInv, IdleListsNothing
        <3>3. ~HasListed(r, k)'
            BY <1>1 DEF HasListed
        <3> QED BY <1>1, <2>1, <3>1, <3>2, <3>3 DEF DeletionCall
    <2>2. CASE q # r
        BY <2>2, OthersIdle, <1>1 DEF DeletionCall
    <2> QED BY <2>1, <2>2
<1>6. NothingLeft'
    BY <1>1 DEF CallInv, NothingLeft, Owned
<1>7. Held' /\ FinalizerProtects'
    BY DEF Held, FinalizerProtects, Exists, Owned
<1> QED BY <1>2, <1>3, <1>4, <1>5, <1>6, <1>7 DEF Rest, CallInv

\* A step of a running call.
LEMMA DeployerKeepsRest ==
    ASSUME FinalizerInv, NEW r \in Replicas, DeployerStep(r) \/ DeployerFault(r),
           UNCHANGED controllerVars
    PROVE  Rest'
<1> USE DEF FinalizerInv, controllerVars, projectVars, localVars
<1>1. /\ pc[r] = "reconcile"
      /\ r \in active
      /\ Guarded
      /\ project.uid = owner[r]
    <2>1. phase[r] # "idle"
        BY DEF DeployerStep, DeployerFault, List, CallFails, ApplyObject, CheckStatus,
            AnswerLost, WriteDone, CreateDone, DeleteDone, UpdateDone, NotFoundIgnored,
            Rejected, Creating, Deleting, Updating, Visiting, NextPhase
    <2> QED BY <2>1 DEF ProcessInv, CallsMatch, OnlyLeadersWork, CallInv, GuardedCalls
<1>2. /\ owner' = owner /\ want' = want
      /\ phase'[r] # "idle"
      /\ \A q \in Replicas : q # r => phase'[q] = phase[q] /\ todo'[q] = todo[q]
                                        /\ listed'[q] = listed[q]
    <2> USE DEF DeployerInv, DeployerTypeOK, KubeTypeOK
    <2>1. CASE List(r)
        BY <2>1 DEF List, NextPhase
    <2>2. ASSUME Fail(r), UNCHANGED listed
          PROVE  /\ owner' = owner /\ want' = want
                 /\ phase'[r] # "idle"
                 /\ \A q \in Replicas : q # r => phase'[q] = phase[q] /\ todo'[q] = todo[q]
                                                   /\ listed'[q] = listed[q]
        BY <2>2 DEF Fail
    <2>3. ASSUME NEW k \in Keys, NEW notReady, Visited(r, k, notReady), UNCHANGED listed,
                 phase[r] # "idle"
          PROVE  /\ owner' = owner /\ want' = want
                 /\ phase'[r] # "idle"
                 /\ \A q \in Replicas : q # r => phase'[q] = phase[q] /\ todo'[q] = todo[q]
                                                   /\ listed'[q] = listed[q]
        BY <2>3 DEF Visited
    <2>4. phase[r] # "idle"
        BY <1>1 DEF ProcessInv, CallsMatch
    <2> QED BY <2>1, <2>2, <2>3, <2>4 DEF DeployerStep, DeployerFault, CallFails,
            ApplyObject, CheckStatus, AnswerLost, kubeVars
<1>3. ProcessInv'
    BY <1>1, <1>2 DEF ProcessInv, SingleLeader, OnlyLeadersWork, CallsMatch
<1>4. GuardedCalls'
    BY <1>2 DEF CallInv, GuardedCalls, Guarded, Exists
<1>5. \A k \in Keys, o \in Owners :
        Owned(k, o)' => Owned(k, o) \/ (o = owner[r] /\ want[r][k] # Absent)
    BY CallCreatesWanted DEF CallInv
<1>6. Worklists'
    <2> SUFFICES ASSUME NEW q \in Replicas, NEW k \in Keys, k \in todo'[q]
                 PROVE  want[q][k] # Absent \/ listed'[q][k] # Absent
        BY <1>2 DEF Worklists
    <2>1. CASE q # r
        BY <1>2, <2>1 DEF CallInv, Worklists
    <2>2. CASE q = r /\ List(r)
        BY <2>2 DEF List, Owned, CallInv, Worklists, DeployerInv, DeployerTypeOK, KubeTypeOK
    <2>3. CASE q = r /\ ~List(r)
        <3>1. listed' = listed /\ todo'[r] \subseteq todo[r]
            BY <2>3 DEF DeployerStep, DeployerFault, CallFails, ApplyObject, CheckStatus,
                AnswerLost, Fail, Visited, kubeVars, DeployerInv, DeployerTypeOK
        <3> QED BY <2>3, <3>1 DEF CallInv, Worklists
    <2> QED BY <2>1, <2>2, <2>3
<1>7. NothingLeft'
    BY <1>1, OthersIdle DEF NothingLeft
<1>8. FinalizerProtects'
    BY <1>1, <1>5 DEF FinalizerProtects, Guarded, Exists
<1>9. Held'
    BY DEF Held, Exists
<1>10. DeletionCalls'
    <2> SUFFICES ASSUME NEW q \in Replicas, DeletionCall(q), NEW k \in Keys
                 PROVE  /\ want[q] = Nothing
                        /\ phase'[q] # "failed" =>
                            /\ HasListed(q, k)' /\ listed'[q][k] = Absent
                                => ~Owned(k, owner[q])'
                            /\ ~unready'[q] /\ listed'[q][k] # Absent => k \in todo'[q]
        BY <1>2 DEF DeletionCalls, DeletionCall, Keys
    <2>1. q = r
        BY <1>1, OthersIdle DEF DeletionCall
    <2>2. want[r] = Nothing
        BY <2>1 DEF CallInv, DeletionCalls
    <2>3. Owned(k, owner[r])' => Owned(k, owner[r])
        <3>1. owner[r] \in Owners
            BY <1>1 DEF ControllerTypes, Guarded, Exists, Projects
        <3> QED BY <1>2, <1>5, <2>2, <3>1, NothingType DEF Owned
    <2>4. CASE List(r)
        <3>1. phase[r] # "failed"
            BY <2>4 DEF List, NextPhase
        <3>2. CASE KindOf[k] = phase[r] /\ Owned(k, owner[r])
            BY <2>1, <2>2, <2>4, <3>2 DEF List, Owned, DeployerInv, DeployerTypeOK, KubeTypeOK
        <3>3. CASE ~(KindOf[k] = phase[r] /\ Owned(k, owner[r]))
            <4>1. /\ listed'[r][k] = listed[r][k]
                  /\ unready' = unready
                  /\ k \in todo'[r] <=> k \in todo[r]
                  /\ cluster' = cluster
                BY <2>4, <3>3 DEF List, DeployerInv, DeployerTypeOK, KubeTypeOK
            <4>2. HasListed(r, k)' => HasListed(r, k) \/ KindOf[k] = phase[r]
                BY <2>4, KindsOfKeys DEF List, HasListed, NextPhase, DeployerInv, DeployerTypeOK
            <4> QED BY <1>2, <2>1, <2>2, <2>3, <3>1, <3>3, <4>1, <4>2
                    DEF CallInv, DeletionCalls
        <3> QED BY <3>2, <3>3
    <2>5. CASE phase'[r] = "failed"
        BY <2>1, <2>2, <2>5
    <2>6. ASSUME NEW j \in Keys, NEW notReady \in BOOLEAN, Visiting(r, j),
                 Visited(r, j, notReady), listed' = listed,
                 want[r][j] = Absent => notReady
          PROVE  phase'[r] # "failed" =>
                    /\ HasListed(r, k)' /\ listed'[r][k] = Absent => ~Owned(k, owner[r])'
                    /\ ~unready'[r] /\ listed'[r][k] # Absent => k \in todo'[r]
        <3>1. phase' = phase /\ unready'[r] /\ phase[r] = "apply"
            BY <2>2, <2>6, NothingType DEF Visited, Visiting, DeployerInv, DeployerTypeOK
        <3> QED BY <2>1, <2>2, <2>3, <2>6, <3>1 DEF CallInv, DeletionCalls, HasListed
    <2>7. ASSUME NEW j \in Keys, ApplyObject(r, j), phase'[r] # "failed"
          PROVE  Visiting(r, j) /\ Visited(r, j, TRUE) /\ listed' = listed
        BY <2>7 DEF ApplyObject, WriteDone, CreateDone, DeleteDone, UpdateDone,
            NotFoundIgnored, Creating, Deleting, Updating, kubeVars, Fail,
            DeployerInv, DeployerTypeOK
    <2>8. ASSUME NEW j \in Keys, CheckStatus(r, j) PROVE FALSE
        BY <2>2, <2>8, NothingType DEF CheckStatus
    <2>9. DeployerFault(r) => phase'[r] = "failed"
        BY DEF DeployerFault, CallFails, AnswerLost, Fail, DeployerInv, DeployerTypeOK
    <2> QED BY <2>1, <2>2, <2>4, <2>5, <2>6, <2>7, <2>8, <2>9 DEF DeployerStep
<1> QED BY <1>3, <1>4, <1>6, <1>7, <1>8, <1>9, <1>10 DEF Rest, CallInv

\* The call returns, or crashes with its replica, and r goes elsewhere.
LEMMA DropKeepsCalls ==
    ASSUME FinalizerInv, NEW r \in Replicas, Drop(r), pc'[r] # "reconcile",
           \A q \in Replicas : q # r => pc'[q] = pc[q] /\ snap'[q] = snap[q],
           project' = project
    PROVE  CallsMatch' /\ GuardedCalls' /\ Worklists' /\ DeletionCalls'
<1> USE DEF FinalizerInv, Drop
<1>1. /\ phase'[r] = "idle" /\ todo'[r] = {}
      /\ \A q \in Replicas : q # r =>
            /\ phase'[q] = phase[q] /\ owner'[q] = owner[q] /\ want'[q] = want[q]
            /\ todo'[q] = todo[q] /\ unready'[q] = unready[q] /\ listed'[q] = listed[q]
    BY DEF DeployerInv, DeployerTypeOK, KubeTypeOK
<1>2. CallsMatch'
    BY <1>1 DEF ProcessInv, CallsMatch
<1>3. GuardedCalls'
    BY <1>1 DEF CallInv, GuardedCalls, Guarded, Exists
<1>4. Worklists'
    BY <1>1 DEF CallInv, Worklists
<1>5. DeletionCalls'
    <2> SUFFICES ASSUME NEW q \in Replicas, DeletionCall(q)'
                 PROVE  /\ want'[q] = Nothing
                        /\ phase'[q] # "failed" => \A k \in Keys :
                            /\ HasListed(q, k)' /\ listed'[q][k] = Absent
                                => ~Owned(k, owner[q])'
                            /\ ~unready'[q] /\ listed'[q][k] # Absent => k \in todo'[q]
        BY DEF DeletionCalls
    <2>1. q # r /\ DeletionCall(q)
        BY DEF DeletionCall
    <2> QED BY <1>1, <2>1 DEF CallInv, DeletionCalls, HasListed, Owned
<1> QED BY <1>2, <1>3, <1>4, <1>5

LEMMA ReturnKeepsRest ==
    ASSUME FinalizerInv, NEW r \in Replicas,
           DependentsReconciled(r) \/ DependentsGone(r) \/ ReconcileFailed(r)
    PROVE  Rest'
<1> USE DEF FinalizerInv
<1>1. /\ pc[r] = "reconcile"
      /\ pc'[r] \in {"status", "removeFinalizer"}
      /\ \A q \in Replicas : q # r => pc'[q] = pc[q] /\ snap'[q] = snap[q]
      /\ Drop(r)
      /\ UNCHANGED projectVars
    BY DEF DependentsReconciled, DependentsGone, ReconcileFailed, ToStatus, ControllerTypes
<1>2. cluster' = cluster /\ project' = project /\ active' = active
    BY <1>1 DEF Drop, projectVars
<1>3. CallsMatch' /\ GuardedCalls' /\ Worklists' /\ DeletionCalls'
    BY <1>1, <1>2, DropKeepsCalls
<1>4. SingleLeader' /\ OnlyLeadersWork'
    BY <1>1, <1>2 DEF ProcessInv, SingleLeader, OnlyLeadersWork
<1>5. NothingLeft'
    <2>1. CASE DependentsGone(r)
        <3> SUFFICES ASSUME NEW k \in Keys, NEW o \in Owners, Owned(k, o) PROVE FALSE
            BY <1>2 DEF NothingLeft, Owned
        <3>1. DeletionCall(r) /\ phase[r] = "apply" /\ todo[r] = {} /\ ~unready[r]
            BY <2>1 DEF DependentsGone, DeletionCall, Succeeded
        <3>2. listed[r][k] = Absent
            BY <3>1 DEF CallInv, DeletionCalls
        <3>3. ~Owned(k, owner[r])
            BY <3>1, <3>2 DEF CallInv, DeletionCalls, HasListed
        <3>4. o = owner[r]
            BY <1>1 DEF FinalizerProtects, CallInv, GuardedCalls
        <3> QED BY <3>3, <3>4
    <2>2. CASE ~DependentsGone(r)
        <3>1. pc'[r] = "status"
            BY <2>2 DEF DependentsReconciled, ReconcileFailed, ToStatus, ControllerTypes
        <3> QED BY <1>1, <1>2, <3>1 DEF CallInv, NothingLeft, Owned
    <2> QED BY <2>1, <2>2
<1>6. Held' /\ FinalizerProtects'
    BY <1>2 DEF Held, FinalizerProtects, Exists, Owned
<1> QED BY <1>3, <1>4, <1>5, <1>6 DEF Rest, ProcessInv, CallInv

\* A step of a replica that is in no call, and that keeps the guard of the
\* project or is entitled to give it up.
LEMMA WriteKeepsRest ==
    ASSUME FinalizerInv, NEW r \in Replicas,
           pc[r] \in {"addFinalizer", "removeFinalizer", "status"},
           pc'[r] \in {"idle", "status"},
           \A q \in Replicas : q # r => pc'[q] = pc[q] /\ snap'[q] = snap[q],
           UNCHANGED <<cluster, listed, deployerVars, active>>,
           Held',
           \/ Guarded => Guarded' /\ project'.uid = project.uid
           \/ pc[r] = "removeFinalizer"
    PROVE  Rest'
<1> USE DEF FinalizerInv, deployerVars
<1>1. ProcessInv'
    BY DEF ProcessInv, SingleLeader, OnlyLeadersWork, CallsMatch
<1>2. \A q \in Replicas : pc'[q] # "reconcile"
    BY OthersIdle DEF ProcessInv, OnlyLeadersWork
<1>3. CallInv'
    <2>1. GuardedCalls' /\ DeletionCalls'
        BY <1>2 DEF GuardedCalls, DeletionCalls, DeletionCall
    <2>2. Worklists'
        BY DEF CallInv, Worklists
    <2>3. NothingLeft'
        BY OthersIdle DEF ProcessInv, OnlyLeadersWork, NothingLeft
    <2> QED BY <2>1, <2>2, <2>3 DEF CallInv
<1>4. FinalizerProtects'
    BY DEF FinalizerProtects, Guarded, Owned, CallInv, NothingLeft
<1> QED BY <1>1, <1>3, <1>4 DEF Rest

\* What AddFinalizer and RemoveFinalizer make of the project.
LEMMA FinalizerWritesHold ==
    ASSUME ControllerTypes, Exists, Held
    PROVE  /\ project' = [project EXCEPT !.finalizers = @ \cup {projectFinalizer}]
                => Held' /\ Guarded' /\ project'.uid = project.uid
           /\ project' = WithoutFinalizer => Held'
<1> DEFINE added == [project EXCEPT !.finalizers = @ \cup {projectFinalizer}]
           removed == [project EXCEPT !.finalizers = @ \ {projectFinalizer}]
<1>1. project \in Projects
    BY DEF ControllerTypes, Exists
<1>2. /\ added \in Projects
      /\ added.uid = project.uid
      /\ added.finalizers = project.finalizers \cup {projectFinalizer}
    BY <1>1, FinalizerWrites DEF Projects
<1>3. WithoutFinalizer = Remaining(removed)
    BY DEF WithoutFinalizer
<1> HIDE DEF added, removed
<1>4. project' = added => Held' /\ Guarded' /\ project'.uid = project.uid
    BY <1>2, ProjectAssumption DEF Held, Guarded, Exists
<1>5. project' = Remaining(removed) => Held'
    BY DEF Held, Remaining, Exists
<1> QED BY <1>3, <1>4, <1>5 DEF added

LEMMA FinalizerKeepsRest ==
    ASSUME FinalizerInv, NEW r \in Replicas,
           \/ AddFinalizer(r) \/ RemoveFinalizer(r) \/ FinalizerConflict(r)
           \/ FinalizerCallFails(r) \/ FinalizerAnswerLost(r)
    PROVE  Rest'
<1> USE DEF FinalizerInv, kubeVars
<1>1. /\ pc[r] \in {"addFinalizer", "removeFinalizer"}
      /\ pc'[r] \in {"idle", "status"}
      /\ \A q \in Replicas : q # r => pc'[q] = pc[q] /\ snap'[q] = snap[q]
      /\ UNCHANGED <<cluster, listed, deployerVars, active>>
    BY DEF AddFinalizer, RemoveFinalizer, FinalizerConflict, FinalizerCallFails,
        FinalizerAnswerLost, ToStatus, Finish, projectVars, ControllerTypes
<1>2. \/ project' = project
      \/ Exists /\ project' = [project EXCEPT !.finalizers = @ \cup {projectFinalizer}]
      \/ Exists /\ project' = WithoutFinalizer /\ pc[r] = "removeFinalizer"
    BY DEF AddFinalizer, RemoveFinalizer, FinalizerConflict, FinalizerCallFails,
        FinalizerAnswerLost, Persist, Current, projectVars
<1>3. /\ Held'
      /\ \/ Guarded => Guarded' /\ project'.uid = project.uid
         \/ pc[r] = "removeFinalizer"
    BY <1>2, FinalizerWritesHold DEF Held, Guarded, Exists
<1> QED BY <1>1, <1>3, WriteKeepsRest

LEMMA StatusKeepsRest ==
    ASSUME FinalizerInv, NEW r \in Replicas,
           UpdateStatus(r) \/ StatusConflict(r) \/ StatusCallFails(r)
    PROVE  Rest'
<1> USE DEF FinalizerInv
<1>1. /\ pc[r] = "status"
      /\ pc'[r] = "idle"
      /\ \A q \in Replicas : q # r => pc'[q] = pc[q] /\ snap'[q] = snap[q]
      /\ UNCHANGED <<cluster, listed, deployerVars, active>>
    BY DEF UpdateStatus, WriteStatus, StatusConflict, StatusCallFails, RequeueAndFinish,
        Finish, ControllerTypes
<1>2. \/ project' = project
      \/ Exists /\ project' = [project EXCEPT !.status = ReportedStatus(r)]
    BY DEF UpdateStatus, WriteStatus, StatusConflict, StatusCallFails, Current
<1>3. Held' /\ (Guarded => Guarded' /\ project'.uid = project.uid)
    <2>1. CASE project' = project
        BY <2>1 DEF Held, Guarded, Exists
    <2>2. CASE Exists /\ project' = [project EXCEPT !.status = ReportedStatus(r)]
        <3>1. project \in Projects
            BY <2>2 DEF Exists, ControllerTypes
        <3>2. /\ project'.uid = project.uid
              /\ project'.deleting = project.deleting
              /\ project'.finalizers = project.finalizers
            BY <2>2, <3>1 DEF Projects
        <3>3. project' # NoProject
            BY <1>1, <2>2, <3>1, ReportedStatusType, ProjectUpdates, ProjectAssumption
        <3> QED BY <2>2, <3>2, <3>3 DEF Held, Guarded, Exists
    <2> QED BY <1>2, <2>1, <2>2
<1> QED BY <1>1, <1>3, WriteKeepsRest

LEMMA StartKeepsRest ==
    ASSUME FinalizerInv, NEW r \in Replicas, Start(r), LeaderElect
    PROVE  Rest'
<1> USE DEF FinalizerInv, Start, localVars, kubeVars, deployerVars
<1>1. ProcessInv'
    BY DEF ProcessInv, SingleLeader, OnlyLeadersWork, CallsMatch
<1>2. CallInv'
    BY DEF CallInv, GuardedCalls, Worklists, DeletionCalls, NothingLeft, DeletionCall,
        HasListed, Owned, Guarded, Exists
<1>3. Held' /\ FinalizerProtects'
    BY DEF Held, FinalizerProtects, Exists, Owned
<1> QED BY <1>1, <1>2, <1>3 DEF Rest

LEMMA CrashKeepsRest ==
    ASSUME FinalizerInv, NEW r \in Replicas, Crash(r)
    PROVE  Rest'
<1> USE DEF FinalizerInv, Crash
<1>1. /\ pc'[r] = "idle"
      /\ \A q \in Replicas : q # r => pc'[q] = pc[q] /\ snap'[q] = snap[q]
    BY DEF Finish, ControllerTypes
<1>2. cluster' = cluster
    BY DEF Drop
<1>3. CallsMatch' /\ GuardedCalls' /\ Worklists' /\ DeletionCalls'
    BY <1>1, DropKeepsCalls
<1>4. SingleLeader' /\ OnlyLeadersWork'
    BY <1>1 DEF ProcessInv, SingleLeader, OnlyLeadersWork
<1>5. NothingLeft'
    BY <1>1, <1>2 DEF CallInv, NothingLeft, Owned
<1>6. Held' /\ FinalizerProtects'
    BY <1>2 DEF Held, FinalizerProtects, Exists, Owned
<1> QED BY <1>3, <1>4, <1>5, <1>6 DEF Rest, ProcessInv, CallInv

LEMMA EnvironmentKeepsRest ==
    ASSUME FinalizerInv, Environment, UNCHANGED controllerVars
    PROVE  Rest'
<1> USE DEF FinalizerInv, Environment, deployerVars, controllerVars, projectVars, localVars
<1>1. NoNewObjects
    BY EnvironmentCreatesNothing DEF DeployerInv, DeployerTypeOK
<1>2. listed' = listed
    BY DEF NamespaceController, NamespaceFinalized, NamespaceContentDeleted, Outsider,
        ExternalDelete, ExternalEdit, ExternalRelabel, ExternalCreate
<1>3. ProcessInv'
    BY DEF ProcessInv, SingleLeader, OnlyLeadersWork, CallsMatch
<1>4. GuardedCalls' /\ Worklists'
    BY <1>2 DEF CallInv, GuardedCalls, Worklists, Guarded, Exists
<1>5. DeletionCalls'
    <2> SUFFICES ASSUME NEW q \in Replicas, DeletionCall(q)
                 PROVE  /\ want[q] = Nothing
                        /\ phase[q] # "failed" => \A k \in Keys :
                            /\ HasListed(q, k) /\ listed[q][k] = Absent
                                => ~Owned(k, owner[q])'
                            /\ ~unready[q] /\ listed[q][k] # Absent => k \in todo[q]
        BY <1>2 DEF DeletionCalls, DeletionCall, HasListed
    <2>1. owner[q] \in Owners
        BY DEF DeletionCall, CallInv, GuardedCalls, Guarded, Exists, ControllerTypes, Projects
    <2> QED BY <1>1, <2>1 DEF CallInv, DeletionCalls, NoNewObjects, Owned
<1>6. NothingLeft' /\ FinalizerProtects'
    BY <1>1 DEF CallInv, NothingLeft, FinalizerProtects, NoNewObjects, Exists
<1>7. Held'
    BY DEF Held, Exists
<1> QED BY <1>3, <1>4, <1>5, <1>6, <1>7 DEF Rest, CallInv
-----------------------------------------------------------------------------
LEMMA SameKeepsRest ==
    ASSUME FinalizerInv,
           UNCHANGED <<project, active, pc, snap, cluster, listed, deployerVars>>
    PROVE  Rest'
<1> USE DEF FinalizerInv, deployerVars
<1>1. ProcessInv'
    BY DEF ProcessInv, SingleLeader, OnlyLeadersWork, CallsMatch
<1>2. CallInv'
    BY DEF CallInv, GuardedCalls, Worklists, DeletionCalls, NothingLeft, DeletionCall,
        HasListed, Owned, Guarded, Exists
<1>3. Held' /\ FinalizerProtects'
    BY DEF Held, FinalizerProtects, Exists, Owned
<1> QED BY <1>1, <1>2, <1>3 DEF Rest

LEMMA WorkKeepsRest ==
    ASSUME FinalizerInv, NEW r \in Replicas, Work(r)
    PROVE  Rest'
<1>1. CASE ProjectNotFound(r)
    <2>1. UNCHANGED <<project, active, pc, snap, kubeVars, deployerVars>>
        BY <1>1 DEF ProjectNotFound, Begin
    <2> QED BY <2>1, SameKeepsRest DEF kubeVars
<1>2. CASE FirstSeen(r) \/ FinalizerMissing(r) \/ DeletionBlocked(r)
    BY <1>2, BeginKeepsRest DEF FirstSeen, FinalizerMissing, DeletionBlocked, Observed
<1>3. CASE ReconcileDependents(r)
    <2>1. Guarded /\ ~project.deleting
        BY <1>3 DEF ReconcileDependents, Observed, Guarded
    <2>2. BuildDependentObjects(project.spec) \in Wants
        BY <2>1, ControllerAssumption DEF FinalizerInv, ControllerTypes, Guarded, Exists, Projects
    <2> QED BY <1>3, <2>1, <2>2, CallKeepsRest DEF ReconcileDependents
<1>4. CASE DeleteDependents(r)
    <2>1. Guarded
        BY <1>4 DEF DeleteDependents, Observed, Guarded, FinalizerInv, Held
    <2> QED BY <1>4, <2>1, CallKeepsRest, ControllerAssumption DEF DeleteDependents
<1>5. CASE DeployerStep(r) /\ UNCHANGED controllerVars
    BY <1>5, DeployerKeepsRest
<1>6. CASE DependentsReconciled(r) \/ DependentsGone(r) \/ ReconcileFailed(r)
    BY <1>6, ReturnKeepsRest
<1>7. CASE AddFinalizer(r) \/ RemoveFinalizer(r) \/ FinalizerConflict(r)
    BY <1>7, FinalizerKeepsRest
<1>8. CASE UpdateStatus(r) \/ StatusConflict(r)
    BY <1>8, StatusKeepsRest
<1> QED BY <1>1, <1>2, <1>3, <1>4, <1>5, <1>6, <1>7, <1>8 DEF Work

LEMMA NextKeepsFinalizerInv ==
    ASSUME FinalizerInv, [Next]_vars, LeaderElect, "stripFinalizer" \notin Interference
    PROVE  FinalizerInv'
<1>1. DeployerInv' /\ ControllerTypes'
    BY NextCallsDeployer, DeployerNextKeepsInv, NextTypes DEF FinalizerInv
<1>2. ASSUME NEW r \in Replicas, Trouble(r) PROVE Rest'
    BY <1>2, DeployerKeepsRest, FinalizerKeepsRest, StatusKeepsRest, CrashKeepsRest DEF Trouble
<1>3. ASSUME UNCHANGED vars PROVE Rest'
    <2>1. UNCHANGED <<project, active, pc, snap, cluster, listed, deployerVars>>
        BY <1>3 DEF vars, kubeVars, controllerVars, projectVars, localVars
    <2> QED BY <2>1, SameKeepsRest
<1>4. Rest'
    <2>1. ASSUME NEW r \in Replicas, Work(r) \/ Trouble(r) \/ Start(r) PROVE Rest'
        BY <1>2, <2>1, WorkKeepsRest, StartKeepsRest
    <2>2. CASE User
        BY <2>2, UserKeepsRest
    <2>3. CASE Environment /\ UNCHANGED controllerVars
        BY <2>3, EnvironmentKeepsRest
    <2>4. CASE Next
        BY <2>1, <2>2, <2>3, <2>4 DEF Next
    <2> QED BY <1>3, <2>4
<1> QED BY <1>1, <1>4 DEF FinalizerInv, Rest

LEMMA InitFinalizerInv == Init => FinalizerInv
<1> SUFFICES ASSUME Init PROVE FinalizerInv
    OBVIOUS
<1>1. DeployerInv /\ ControllerTypes
    BY DeployerInitInv, InitTypes DEF Init
<1>2. Rest
    BY DEF Init, DeployerInit, KubeInit, Nothing, Rest, ProcessInv, SingleLeader,
        OnlyLeadersWork, CallsMatch, CallInv, GuardedCalls, Worklists, DeletionCalls,
        NothingLeft, DeletionCall, Owned, Exists, Held, FinalizerProtects
<1> QED BY <1>1, <1>2 DEF FinalizerInv, Rest

\* With leader election, and as long as nobody strips the finalizer, an object
\* that carries a project's UID never outlives the project, nor the finalizer
\* that makes its deletion certain (project_controller.go, 151-214).
THEOREM NoOrphans ==
    ASSUME LeaderElect, "stripFinalizer" \notin Interference
    PROVE  Spec => []FinalizerProtects
<1>1. FinalizerInv /\ [Next]_vars => FinalizerInv'
    BY NextKeepsFinalizerInv
<1>2. FinalizerInv => FinalizerProtects
    BY DEF FinalizerInv
<1> QED BY <1>1, <1>2, InitFinalizerInv, PTL DEF Spec
-----------------------------------------------------------------------------
(* The invariant of the refinement.                                        *)
LifecycleInv == FinalizerInv /\ RequestInv
-----------------------------------------------------------------------------
(* What becomes of the project in a step.                                  *)
ProjectKept == UNCHANGED <<project, usedUIDs>>

ProjectWritten ==
    /\ Exists /\ Exists'
    /\ project'.uid = project.uid
    /\ Guarded => Guarded'
    /\ UNCHANGED <<cluster, usedUIDs>>

ProjectGone == Exists /\ ~Exists' /\ UNCHANGED <<cluster, usedUIDs>>

ProjectCreated == \E s \in Specs : CreateProject(s)

ProjectStep == ProjectKept \/ ProjectWritten \/ ProjectGone \/ ProjectCreated

LEMMA UserProjectStep ==
    ASSUME LifecycleInv, User, "stripFinalizer" \notin Interference
    PROVE  ProjectStep
<1>1. Guarded => Guarded' /\ project'.uid = project.uid
    BY UserKeepsGuard DEF LifecycleInv, FinalizerInv
<1>2. Exists => project \in Projects
    BY DEF Exists, LifecycleInv, RequestInv, ControllerTypes
<1>3. ASSUME NEW p \in Projects, p.uid = project.uid, Exists,
             ByUser(p) \/ ByUser(Remaining(p))
      PROVE  ProjectStep
    <2>1. UNCHANGED <<cluster, usedUIDs>> /\ (project' = p \/ project' = NoProject)
        BY <1>3 DEF ByUser, Persist, Remaining, kubeVars
    <2> QED BY <1>1, <1>3, <2>1, ProjectAssumption
            DEF ProjectStep, ProjectWritten, ProjectGone, Exists
<1>4. ASSUME NEW s \in Specs, UpdateSpec(s) PROVE ProjectStep
    <2> DEFINE p == [project EXCEPT !.spec = s, !.generation = @ + 1]
    <2>1. p \in Projects /\ p.uid = project.uid /\ Exists /\ ByUser(p)
        BY <1>2, <1>4, ProjectUpdates DEF UpdateSpec, Projects
    <2> HIDE DEF p
    <2> QED BY <1>3, <2>1
<1>5. CASE DeleteProject
    <2> DEFINE p == [project EXCEPT !.deleting = TRUE, !.generation = @ + 1]
    <2>1. p \in Projects /\ p.uid = project.uid /\ Exists /\ ByUser(Remaining(p))
        BY <1>2, <1>5, ProjectUpdates DEF DeleteProject, Projects
    <2> HIDE DEF p
    <2> QED BY <1>3, <2>1
<1>6. ASSUME NEW f \in ForeignFinalizers, AddForeignFinalizer(f) PROVE ProjectStep
    <2> DEFINE p == [project EXCEPT !.finalizers = @ \cup {f}]
    <2>1. project \in Projects /\ project.finalizers \cup {f} \in SUBSET Finalizers
        BY <1>2, <1>6 DEF AddForeignFinalizer, Projects, Finalizers
    <2>2. p \in Projects /\ p.uid = project.uid /\ Exists /\ ByUser(p)
        BY <1>6, <2>1, ProjectUpdates DEF AddForeignFinalizer, Projects
    <2> HIDE DEF p
    <2> QED BY <1>3, <2>2
<1>7. ASSUME NEW f \in ForeignFinalizers, RemoveForeignFinalizer(f) PROVE ProjectStep
    <2> DEFINE p == [project EXCEPT !.finalizers = @ \ {f}]
    <2>1. project \in Projects /\ project.finalizers \ {f} \in SUBSET Finalizers
        BY <1>2, <1>7 DEF RemoveForeignFinalizer, Projects
    <2>2. p \in Projects /\ p.uid = project.uid /\ Exists /\ ByUser(Remaining(p))
        BY <1>7, <2>1, ProjectUpdates DEF RemoveForeignFinalizer, Projects
    <2> HIDE DEF p
    <2> QED BY <1>3, <2>2
<1>8. CASE ProjectCreated
    BY <1>8 DEF ProjectStep
<1> QED BY <1>4, <1>5, <1>6, <1>7, <1>8 DEF User, ReplaceManifest, ProjectCreated

\* The finalizer that is given up is the last one, so the project goes with it.
LEMMA FinalizerProjectStep ==
    ASSUME LifecycleInv, NEW r \in Replicas,
           AddFinalizer(r) \/ RemoveFinalizer(r) \/ FinalizerAnswerLost(r)
    PROVE  ProjectStep
<1>1. Exists /\ UNCHANGED <<cluster, usedUIDs>>
    BY DEF AddFinalizer, RemoveFinalizer, FinalizerAnswerLost, Current, kubeVars
<1>2. \/ project' = [project EXCEPT !.finalizers = @ \cup {projectFinalizer}]
      \/ project' = NoProject
    BY LastFinalizer DEF AddFinalizer, RemoveFinalizer, FinalizerAnswerLost, Persist, LifecycleInv
<1>3. CASE project' = NoProject
    BY <1>1, <1>3 DEF ProjectStep, ProjectGone, Exists
<1>4. CASE project' = [project EXCEPT !.finalizers = @ \cup {projectFinalizer}]
    <2>1. project \in Projects /\ project' \in Projects
        BY <1>1, <1>4, FinalizerWrites DEF Exists, LifecycleInv, RequestInv, ControllerTypes
    <2>2. project'.uid = project.uid /\ projectFinalizer \in project'.finalizers
        BY <1>4, <2>1 DEF Projects
    <2> QED BY <1>1, <2>1, <2>2, ProjectAssumption
            DEF ProjectStep, ProjectWritten, Guarded, Exists
<1> QED BY <1>2, <1>3, <1>4

LEMMA StatusProjectStep ==
    ASSUME LifecycleInv, NEW r \in Replicas,
           UpdateStatus(r) \/ StatusConflict(r) \/ StatusCallFails(r)
    PROVE  ProjectStep
<1>1. UNCHANGED <<cluster, usedUIDs>>
    BY DEF UpdateStatus, StatusConflict, StatusCallFails, RequeueAndFinish
<1>2. CASE project' = project
    BY <1>1, <1>2 DEF ProjectStep, ProjectKept
<1>3. CASE UpdateStatus(r)
    <2>1. /\ project \in Projects
          /\ project' = [project EXCEPT !.status = ReportedStatus(r)]
          /\ ReportedStatus(r) \in Statuses
        BY <1>3, ReportedStatusType
            DEF UpdateStatus, WriteStatus, Current, Exists, LifecycleInv, RequestInv, ControllerTypes
    <2>2. /\ project' \in Projects
          /\ project'.uid = project.uid
          /\ project'.finalizers = project.finalizers
        BY <2>1, ProjectUpdates DEF Projects
    <2> QED BY <1>1, <2>1, <2>2, ProjectAssumption
            DEF ProjectStep, ProjectWritten, Guarded, Exists
<1> QED BY <1>2, <1>3 DEF StatusConflict, StatusCallFails

LEMMA NextProjectStep ==
    ASSUME LifecycleInv, [Next]_vars, "stripFinalizer" \notin Interference
    PROVE  ProjectStep
<1>1. CASE UNCHANGED controllerVars
    BY <1>1 DEF controllerVars, projectVars, ProjectStep, ProjectKept
<1>2. ASSUME NEW r \in Replicas, Work(r) PROVE ProjectStep
    <2>1. CASE AddFinalizer(r) \/ RemoveFinalizer(r) \/ UpdateStatus(r) \/ StatusConflict(r)
        BY <2>1, FinalizerProjectStep, StatusProjectStep
    <2>2. CASE \/ ProjectNotFound(r) \/ FirstSeen(r) \/ FinalizerMissing(r)
               \/ ReconcileDependents(r) \/ DeletionBlocked(r) \/ DeleteDependents(r)
        BY <2>2 DEF ProjectNotFound, FirstSeen, FinalizerMissing, ReconcileDependents,
            DeletionBlocked, DeleteDependents, Begin, ProjectStep, ProjectKept
    <2>3. CASE \/ DependentsReconciled(r) \/ DependentsGone(r) \/ ReconcileFailed(r)
               \/ FinalizerConflict(r)
        BY <2>3 DEF DependentsReconciled, DependentsGone, ReconcileFailed, FinalizerConflict,
            projectVars, ProjectStep, ProjectKept
    <2> QED BY <1>1, <1>2, <2>1, <2>2, <2>3 DEF Work
<1>3. ASSUME NEW r \in Replicas, Trouble(r) \/ Start(r) PROVE ProjectStep
    <2>1. CASE FinalizerAnswerLost(r) \/ StatusCallFails(r)
        BY <2>1, FinalizerProjectStep, StatusProjectStep
    <2>2. CASE FinalizerCallFails(r) \/ Crash(r) \/ Start(r)
        BY <2>2 DEF FinalizerCallFails, Crash, Start, projectVars, ProjectStep, ProjectKept
    <2> QED BY <1>1, <1>3, <2>1, <2>2 DEF Trouble
<1>4. CASE UNCHANGED vars
    BY <1>1, <1>4 DEF vars
<1> QED BY <1>1, <1>2, <1>3, <1>4, UserProjectStep DEF Next
-----------------------------------------------------------------------------
\* What the objects do meanwhile: without a guard there are none.
LEMMA StepIsLifecycleStep ==
    ASSUME LifecycleInv, FinalizerProtects', ProjectStep
    PROVE  [Lifecycle!LifecycleNext]_(Lifecycle!lifecycleVars)
<1> DEFINE alive == IF Exists THEN project.uid ELSE NoOwner
           guarded == Exists /\ projectFinalizer \in project.finalizers
           objects == {k \in Keys : \E o \in Owners : Owned(k, o)}
<1>1. (~guarded => objects = {}) /\ (~guarded' => objects' = {})
    BY DEF LifecycleInv, FinalizerInv, FinalizerProtects
<1>2. Exists => project.uid # NoOwner
    BY KubeAssumption DEF LifecycleInv, RequestInv, ControllerTypes, Exists, Projects
<1>3. CASE ProjectKept
    <2>1. alive' = alive /\ usedUIDs' = usedUIDs /\ guarded' = guarded
        BY <1>3 DEF ProjectKept, Exists
    <2>2. CASE guarded
        BY <2>1, <2>2 DEF Lifecycle!LifecycleNext, Lifecycle!Provide
    <2>3. CASE ~guarded
        BY <1>1, <2>1, <2>3 DEF Lifecycle!lifecycleVars
    <2> QED BY <2>2, <2>3
<1>4. CASE ProjectWritten
    <2>1. /\ alive' = alive /\ usedUIDs' = usedUIDs /\ objects' = objects
          /\ alive # NoOwner
          /\ guarded => guarded'
        BY <1>2, <1>4 DEF ProjectWritten, Guarded, Exists, Owned
    <2>2. CASE guarded'
        BY <2>1, <2>2 DEF Lifecycle!LifecycleNext, Lifecycle!Guard
    <2>3. CASE ~guarded'
        BY <2>1, <2>3 DEF Lifecycle!lifecycleVars
    <2> QED BY <2>2, <2>3
<1>5. CASE ProjectGone
    <2>1. /\ alive # NoOwner /\ alive' = NoOwner
          /\ usedUIDs' = usedUIDs /\ objects' = objects
          /\ guarded' = FALSE
        BY <1>2, <1>5 DEF ProjectGone, Exists, Owned
    <2> QED BY <1>1, <2>1 DEF Lifecycle!LifecycleNext, Lifecycle!End
<1>6. CASE ProjectCreated
    <2>1. PICK s \in Specs, uid \in Owners \ usedUIDs :
            /\ ~Exists
            /\ project' = NewProject(uid, s)
            /\ usedUIDs' = usedUIDs \cup {uid}
            /\ cluster' = cluster
        BY <1>6 DEF ProjectCreated, CreateProject, Persist, kubeVars
    <2>2. project' # NoProject /\ project'.uid = uid /\ project'.finalizers = {}
        BY <2>1, NewProjectType, ProjectAssumption DEF NewProject
    <2>3. /\ alive = NoOwner /\ alive' = uid
          /\ guarded = FALSE /\ guarded' = FALSE
          /\ objects' = objects
        BY <2>1, <2>2 DEF Exists, Owned
    <2> QED BY <1>1, <2>1, <2>3 DEF Lifecycle!LifecycleNext, Lifecycle!Create
<1> QED BY <1>3, <1>4, <1>5, <1>6 DEF ProjectStep

\* With leader election, and as long as nobody strips the finalizer: objects of
\* a project come and go only while the finalizer is there, and it is given up,
\* with the project, when none is left (project_controller.go, 151-206).
THEOREM RefinesLifecycle ==
    ASSUME LeaderElect, "stripFinalizer" \notin Interference
    PROVE  Spec => ImplementsLifecycle
<1>1. Init => Lifecycle!LifecycleInit
    BY DEF Init, DeployerInit, KubeInit, Nothing, Exists, Owned, Lifecycle!LifecycleInit
<1>2. LifecycleInv /\ [Next]_vars => FinalizerInv'
    BY NextKeepsFinalizerInv DEF LifecycleInv
<1>3. LifecycleInv /\ [Next]_vars => [Lifecycle!LifecycleNext]_(Lifecycle!lifecycleVars)
    BY <1>2, NextProjectStep, StepIsLifecycleStep DEF FinalizerInv
<1>4. Spec => []FinalizerInv
    <2>1. FinalizerInv /\ [Next]_vars => FinalizerInv'
        BY NextKeepsFinalizerInv
    <2> QED BY <2>1, InitFinalizerInv, PTL DEF Spec
<1>5. FinalizerInv /\ RequestInv => LifecycleInv
    BY DEF LifecycleInv
<1> QED BY <1>1, <1>3, <1>4, <1>5, RequestsInvariant, PTL
        DEF Spec, ImplementsLifecycle, Lifecycle!LifecycleSpec
-----------------------------------------------------------------------------
(* Ready means deployed.  The status says what one call of the deployer     *)
(* found, so the inductive invariant tells what a call without unready     *)
(* objects is worth while it runs, and why nobody undoes it: only a        *)
(* deletion call makes the namespace go, and only the leader writes.       *)

\* The finalizer comes before the objects and outlasts the state Ready.
FinalizerKnown ==
    /\ Exists /\ project.status.state = "Ready" => projectFinalizer \in project.finalizers
    /\ \A r \in Replicas :
        /\ pc[r] = "addFinalizer" => projectFinalizer \notin snap[r].finalizers
        /\ pc[r] = "reconcile" /\ ~snap[r].deleting => projectFinalizer \in snap[r].finalizers

\* What a call wants, and for whom; deletions are for good.
CallsWant ==
    \A r \in Replicas : pc[r] = "reconcile" =>
        /\ owner[r] = snap[r].uid
        /\ want[r] = IF snap[r].deleting THEN Nothing
                     ELSE BuildDependentObjects(snap[r].spec)
        /\ snap[r].deleting => project.deleting

\* Objects are as the operator wrote them, unless somebody else created them;
\* what terminates is an object of a project whose deletion has begun.
ObjectsIntact ==
    \A k \in Keys : cluster[k] # Absent =>
        /\ ~cluster[k].drifted
        /\ cluster[k].terminating =>
            /\ cluster[k].owner \in Owners
            /\ Exists /\ project.deleting
            /\ \A r \in Replicas : pc[r] # "idle" => snap[r].deleting

\* What r listed at k is what it wants there.
AsWanted(r, k) ==
    IF want[r][k] = Absent THEN listed[r][k] = Absent
    ELSE /\ listed[r][k] # Absent
         /\ listed[r][k].digest = want[r][k]
         /\ ~listed[r][k].terminating

\* A call that deploys and has found nothing unready has written nothing, so
\* that its list is still right, and everything it has visited is as wanted.
CleanCall(r) ==
    pc[r] = "reconcile" /\ ~snap[r].deleting /\ phase[r] # "failed" /\ ~unready[r] =>
        /\ stale[r] = {}
        /\ \A k \in Keys :
            /\ HasListed(r, k) /\ listed[r][k] = Absent => ~Owned(k, owner[r])
            /\ k \notin todo[r] => AsWanted(r, k)

CleanCalls == \A r \in Replicas : (phase[r] = "idle" => stale[r] = {}) /\ CleanCall(r)

\* The state Ready on its way to the status.
ReadyReports ==
    \A r \in Replicas :
        pc[r] = "status" /\ ~err[r] /\ snap[r].status.state = "Ready" =>
            /\ ~snap[r].deleting
            /\ projectFinalizer \in snap[r].finalizers
            /\ Deployed(snap[r])

\* A project that is Ready is deployed, and a call that runs meanwhile wants
\* what is there.
ReadyInSync ==
    Exists /\ IsReady =>
        /\ ~project.deleting
        /\ Deployed(project)
        /\ \A r \in Replicas : pc[r] = "reconcile" =>
            snap[r].spec = project.spec /\ ~snap[r].deleting

ObservedPast == Exists => project.status.observedGeneration <= project.generation

ReadyInv ==
    FinalizerKnown /\ CallsWant /\ ObjectsIntact /\ CleanCalls /\ ReadyReports
        /\ ReadyInSync /\ ObservedPast

OperatorInv == LifecycleInv /\ ReadyInv
-----------------------------------------------------------------------------
\* What users make of a project: they create it, end it, or write it, and the
\* generation tells whether they changed what a status is about.
ProjectWrittenByUser ==
    /\ Exists /\ Exists'
    /\ project'.uid = project.uid
    /\ project'.status = project.status
    /\ project'.generation >= project.generation
    /\ project'.generation = project.generation =>
        project'.spec = project.spec /\ project'.deleting = project.deleting
    /\ project.deleting => project'.deleting
    /\ projectFinalizer \in project.finalizers => projectFinalizer \in project'.finalizers

\* A project that was just created, with the status that says nothing yet.
ProjectIsNew ==
    /\ project.status.state = ""
    /\ project.status.observedGeneration = NeverObserved
    /\ project.generation = 1

WrittenByUser == ~Exists' \/ ProjectIsNew' \/ ProjectWrittenByUser

LEMMA UserWrites ==
    ASSUME ControllerTypes, User, "stripFinalizer" \notin Interference
    PROVE  WrittenByUser
<1>1. Exists => project \in Projects
    BY DEF Exists, ControllerTypes
<1>2. ASSUME NEW s \in Specs, CreateProject(s) PROVE WrittenByUser
    <2>1. PICK uid \in Owners : project' = NewProject(uid, s)
        BY <1>2 DEF CreateProject, Persist
    <2> QED BY <2>1 DEF WrittenByUser, ProjectIsNew, NewProject
\* A write that changes what a status is about, or one that does not.
<1>3. ASSUME NEW p \in Projects, Exists, project' \in {p, Remaining(p)},
             p.uid = project.uid, p.status = project.status,
             \/ p.generation = project.generation + 1
             \/ /\ p.generation = project.generation
                /\ p.spec = project.spec
                /\ p.deleting = project.deleting,
             project.deleting => p.deleting,
             projectFinalizer \in project.finalizers => projectFinalizer \in p.finalizers
      PROVE  WrittenByUser
    <2>1. CASE project' = NoProject
        BY <2>1 DEF WrittenByUser, Exists
    <2>2. CASE project' # NoProject
        <3>1. project' = p
            BY <1>3, <2>2 DEF Remaining
        <3>2. project.generation \in Nat
            BY <1>1, <1>3 DEF Projects
        <3>3. ProjectWrittenByUser
            BY <1>3, <2>2, <3>1, <3>2 DEF ProjectWrittenByUser, Exists
        <3> QED BY <3>3 DEF WrittenByUser
    <2> QED BY <2>1, <2>2
<1>4. ASSUME NEW s \in Specs, UpdateSpec(s) PROVE WrittenByUser
    <2> DEFINE p == [project EXCEPT !.spec = s, !.generation = @ + 1]
    <2>1. Exists /\ project \in Projects /\ project' = p /\ p \in Projects
        BY <1>1, <1>4, ProjectUpdates DEF UpdateSpec, ByUser, Persist
    <2>2. /\ p.uid = project.uid /\ p.status = project.status
          /\ p.generation = project.generation + 1
          /\ p.deleting = project.deleting /\ p.finalizers = project.finalizers
        BY <2>1 DEF Projects
    <2> HIDE DEF p
    <2> QED BY <1>3, <2>1, <2>2
<1>5. CASE DeleteProject
    <2> DEFINE p == [project EXCEPT !.deleting = TRUE, !.generation = @ + 1]
    <2>1. Exists /\ project \in Projects /\ project' = Remaining(p) /\ p \in Projects
        BY <1>1, <1>5, ProjectUpdates DEF DeleteProject, ByUser, Persist
    <2>2. /\ p.uid = project.uid /\ p.status = project.status
          /\ p.generation = project.generation + 1
          /\ p.deleting /\ p.finalizers = project.finalizers
        BY <2>1 DEF Projects
    <2> HIDE DEF p
    <2> QED BY <1>3, <2>1, <2>2
<1>6. ASSUME NEW F \in SUBSET Finalizers, Exists,
             project' \in {[project EXCEPT !.finalizers = F],
                           Remaining([project EXCEPT !.finalizers = F])},
             projectFinalizer \in project.finalizers => projectFinalizer \in F
      PROVE  WrittenByUser
    <2> DEFINE p == [project EXCEPT !.finalizers = F]
    <2>1. project \in Projects /\ project' \in {p, Remaining(p)} /\ p \in Projects
        BY <1>1, <1>6, ProjectUpdates
    <2>2. /\ p.uid = project.uid /\ p.status = project.status /\ p.spec = project.spec
          /\ p.generation = project.generation
          /\ p.deleting = project.deleting /\ p.finalizers = F
        BY <2>1 DEF Projects
    <2> HIDE DEF p
    <2> QED BY <1>3, <1>6, <2>1, <2>2
<1>7. ASSUME NEW f \in ForeignFinalizers, AddForeignFinalizer(f) PROVE WrittenByUser
    <2>1. /\ project.finalizers \cup {f} \in SUBSET Finalizers
          /\ Exists
          /\ project' = [project EXCEPT !.finalizers = @ \cup {f}]
        BY <1>1, <1>7 DEF AddForeignFinalizer, ByUser, Persist, Projects, Finalizers
    <2> QED BY <1>6, <2>1
<1>8. ASSUME NEW f \in ForeignFinalizers, RemoveForeignFinalizer(f) PROVE WrittenByUser
    <2>1. /\ project.finalizers \ {f} \in SUBSET Finalizers
          /\ Exists
          /\ project' = Remaining([project EXCEPT !.finalizers = @ \ {f}])
        BY <1>1, <1>8 DEF RemoveForeignFinalizer, ByUser, Persist, Projects
    <2>2. f # projectFinalizer
        BY ProjectAssumption
    <2> QED BY <1>6, <2>1, <2>2
<1> QED BY <1>2, <1>4, <1>5, <1>7, <1>8 DEF User, ReplaceManifest

LEMMA UserKeepsReady ==
    ASSUME OperatorInv, User, "stripFinalizer" \notin Interference
    PROVE  ReadyInv'
<1> USE DEF OperatorInv, ReadyInv
<1>1. UNCHANGED <<kubeVars, deployerVars, localVars>>
    BY DEF User, CreateProject, UpdateSpec, ReplaceManifest, DeleteProject,
        AddForeignFinalizer, RemoveForeignFinalizer, ByUser
<1>2. WrittenByUser
    BY UserWrites DEF LifecycleInv, FinalizerInv
<1>3. Guarded => Exists' /\ (project.deleting => project'.deleting)
    <2>1. Guarded => Guarded' /\ project'.uid = project.uid
        BY UserKeepsGuard DEF LifecycleInv, FinalizerInv
    <2>2. ASSUME Exists, NEW s \in Specs PROVE ~CreateProject(s)
        BY <2>2 DEF CreateProject
    <2>3. ASSUME Exists PROVE project \in Projects
        BY <2>3 DEF Exists, LifecycleInv, FinalizerInv, ControllerTypes
    <2>4. ASSUME Exists, Exists', project.deleting PROVE project'.deleting
        BY <2>2, <2>3, <2>4 DEF User, UpdateSpec, ReplaceManifest, DeleteProject,
            AddForeignFinalizer, RemoveForeignFinalizer, ByUser, Persist, Remaining, Exists,
            Projects
    <2> QED BY <2>1, <2>4 DEF Guarded
<1>4. project' \in Projects \cup {NoProject} /\ project \in Projects \cup {NoProject}
    BY NextTypes DEF LifecycleInv, FinalizerInv, ControllerTypes, Next
<1> USE <1>1 DEF kubeVars, deployerVars, localVars
<1> DEFINE ProjectPart ==
        /\ Exists /\ project.status.state = "Ready" => projectFinalizer \in project.finalizers
        /\ ReadyInSync /\ ObservedPast
<1>5. ASSUME ProjectIsNew' \/ ~Exists' PROVE ProjectPart'
    <2>1. NeverObserved <= 1
        BY DEF NeverObserved
    <2> QED BY <1>5, <2>1 DEF ProjectIsNew, ReadyInSync, IsReady, ObservedPast
<1>6. ASSUME ProjectWrittenByUser PROVE ProjectPart'
    <2> USE <1>6 DEF ProjectWrittenByUser
    <2>1. /\ project.generation \in Nat /\ project'.generation \in Nat
          /\ project.status.observedGeneration \in Int
        BY <1>4 DEF Exists, Projects, Statuses
    <2>2. Exists /\ project.status.state = "Ready" => projectFinalizer \in project.finalizers
        BY DEF FinalizerKnown
    <2>3. ObservedPast'
        BY <2>1 DEF ObservedPast
    <2>4. ASSUME IsReady'
          PROVE  IsReady /\ project'.spec = project.spec /\ project'.deleting = project.deleting
        <3>1. project.status.observedGeneration = project'.generation
            BY <2>4 DEF IsReady
        <3>2. project'.generation = project.generation
            BY <2>1, <3>1 DEF ObservedPast
        <3> QED BY <2>4, <3>1, <3>2 DEF IsReady
    <2>5. ReadyInSync'
        BY <2>4 DEF ReadyInSync, Deployed, Owned
    <2> QED BY <2>2, <2>3, <2>5
<1>7. FinalizerKnown'
    BY <1>2, <1>5, <1>6 DEF FinalizerKnown, WrittenByUser
<1>8. ReadyInSync' /\ ObservedPast'
    BY <1>2, <1>5, <1>6 DEF WrittenByUser
<1>9. CallsWant'
    BY <1>3 DEF CallsWant, LifecycleInv, FinalizerInv, CallInv, GuardedCalls
<1>10. ObjectsIntact'
    BY <1>3 DEF ObjectsIntact, LifecycleInv, FinalizerInv, FinalizerProtects, Owned, Guarded
<1>11. CleanCalls'
    BY DEF CleanCalls, CleanCall, HasListed, AsWanted, Owned
<1>12. ReadyReports'
    BY DEF ReadyReports, Deployed, Owned
<1> QED BY <1>7, <1>8, <1>9, <1>10, <1>11, <1>12

\* Reading the project, and going where no call of the deployer is made.
LEMMA BeginKeepsReady ==
    ASSUME OperatorInv, NEW r \in Replicas, Begin(r), Exists,
           NEW step \in {"addFinalizer", "status"}, NEW state \in States, Go(r, step, state),
           step = "addFinalizer" => projectFinalizer \notin project.finalizers,
           step = "status" => state # "Ready",
           UNCHANGED <<kubeVars, deployerVars>>
    PROVE  ReadyInv'
<1> USE DEF OperatorInv, ReadyInv, LifecycleInv, FinalizerInv, Begin, Go, kubeVars, deployerVars
<1>1. project \in Projects
    BY DEF ControllerTypes, Exists
<1>2. /\ snap'[r].deleting = project.deleting /\ snap'[r].finalizers = project.finalizers
      /\ snap'[r].status.state = state
      /\ pc'[r] = step
    <2>1. snap'[r] = [project EXCEPT !.status.state = state] /\ pc'[r] = step
        BY DEF ControllerTypes
    <2> QED BY <1>1, <2>1, StatusLeavesRest DEF Projects, Statuses
<1>3. \A q \in Replicas : q # r => pc'[q] = pc[q] /\ snap'[q] = snap[q]
    BY DEF ControllerTypes
<1>4. FinalizerKnown'
    BY <1>2, <1>3 DEF FinalizerKnown, Exists
<1>5. CallsWant'
    BY <1>2, <1>3 DEF CallsWant
<1>6. ObjectsIntact'
    BY <1>2, <1>3 DEF ObjectsIntact, Exists
<1>7. CleanCalls'
    BY <1>2, <1>3 DEF CleanCalls, CleanCall, HasListed, AsWanted, Owned
<1>8. ReadyReports'
    BY <1>2, <1>3 DEF ReadyReports, Deployed, Owned
<1>9. ReadyInSync'
    BY <1>2, <1>3 DEF ReadyInSync, IsReady, Deployed, Owned, Exists
<1>10. ObservedPast'
    BY DEF ObservedPast, Exists
<1> QED BY <1>4, <1>5, <1>6, <1>7, <1>8, <1>9, <1>10

\* Reading the project, and calling the deployer for it.
LEMMA CallKeepsReady ==
    ASSUME OperatorInv, NEW r \in Replicas, Begin(r), Guarded, NEW state \in States,
           Go(r, "reconcile", state), NEW w \in Wants, Call(r, project.uid, w),
           w = IF project.deleting THEN Nothing ELSE BuildDependentObjects(project.spec)
    PROVE  ReadyInv'
<1> USE DEF OperatorInv, ReadyInv, LifecycleInv, FinalizerInv, Begin, Go, Call, kubeVars
<1>1. project \in Projects /\ r \in active
    BY DEF ControllerTypes, Guarded, Exists
<1>2. /\ snap'[r].deleting = project.deleting /\ snap'[r].finalizers = project.finalizers
      /\ snap'[r].uid = project.uid /\ snap'[r].spec = project.spec
      /\ pc'[r] = "reconcile"
    <2>1. snap'[r] = [project EXCEPT !.status.state = state] /\ pc'[r] = "reconcile"
        BY DEF ControllerTypes
    <2> QED BY <1>1, <2>1 DEF Projects
<1>3. \A q \in Replicas : q # r => pc'[q] = "idle" /\ phase'[q] = "idle"
    BY <1>1, OthersIdle DEF ControllerTypes, DeployerInv, DeployerTypeOK
<1>4. /\ phase[r] = "idle" /\ phase'[r] = "Namespace"
      /\ owner'[r] = project.uid
      /\ want'[r] = w
      /\ todo'[r] = {k \in Keys : w[k] # Absent}
    BY DEF DeployerInv, DeployerTypeOK
<1>5. FinalizerKnown'
    BY <1>2, <1>3 DEF FinalizerKnown, Guarded, Exists
<1>6. CallsWant'
    BY <1>2, <1>3, <1>4 DEF CallsWant
<1>7. ObjectsIntact'
    BY <1>2, <1>3 DEF ObjectsIntact, Exists
<1>8. CleanCalls'
    <2>1. stale[r] = {} /\ listed[r] = Nothing
        BY <1>4 DEF CleanCalls, DeployerInv, IdleListsNothing
    <2>2. ASSUME NEW k \in Keys PROVE listed[r][k] = Absent
        BY <2>1, NothingType
    <2>3. CleanCall(r)'
        BY <1>4, <2>1, <2>2 DEF CleanCall, HasListed, AsWanted
    <2>4. ASSUME NEW q \in Replicas, q # r PROVE stale[q] = {} /\ CleanCall(q)'
        <3>1. phase[q] = "idle"
            BY <1>1, <2>4, OthersIdle
        <3> QED BY <1>3, <2>4, <3>1 DEF CleanCalls, CleanCall
    <2> QED BY <2>1, <2>3, <2>4 DEF CleanCalls
<1>9. ReadyReports'
    BY <1>2, <1>3 DEF ReadyReports
<1>10. ReadyInSync'
    BY <1>2, <1>3 DEF ReadyInSync, IsReady, Deployed, Owned, Exists
<1>11. ObservedPast'
    BY DEF ObservedPast, Exists
<1> QED BY <1>5, <1>6, <1>7, <1>8, <1>9, <1>10, <1>11

\* The object that an update or a deletion finds is the listed one; what is
\* created or updated is wanted.
WritesCreation(r, k) ==
    want[r][k] # Absent /\ cluster[k] = Absent /\ cluster'[k] = Desired(r, k)

WritesUpdate(r, k) ==
    /\ want[r][k] # Absent
    /\ cluster[k] \in Objects /\ cluster[k] = listed[r][k] /\ cluster[k].digest # want[r][k]
    /\ cluster'[k] = [Desired(r, k) EXCEPT !.terminating = cluster[k].terminating]

WritesDeletion(r, k) ==
    /\ want[r][k] = Absent \/ (cluster[k].digest # want[r][k] /\ KindOf[k] = "RoleBinding")
    /\ cluster[k] \in Objects /\ cluster[k] = listed[r][k]
    /\ cluster'[k] = AfterDelete(k)

LEMMA CallWrites ==
    ASSUME DeployerInv, Worklists, NEW r \in Replicas, NEW k \in Keys, WriteDone(r, k),
           cluster' # cluster
    PROVE  /\ \A j \in Keys : j # k => cluster'[j] = cluster[j]
           /\ WritesCreation(r, k) \/ WritesUpdate(r, k) \/ WritesDeletion(r, k)
<1> USE DEF DeployerInv, DeployerTypeOK, KubeTypeOK
<1>1. ASSUME NEW obj, Store(k, obj)
      PROVE  cluster'[k] = obj /\ \A j \in Keys : j # k => cluster'[j] = cluster[j]
    BY <1>1 DEF Store, Write
<1>2. ASSUME listed[r][k] # Absent, Matches(r, k)
      PROVE  cluster[k] \in Objects /\ cluster[k] = listed[r][k]
    BY <1>2 DEF Matches, ListedIsCurrent
<1>3. CASE CreateDone(r, k)
    BY <1>1, <1>3 DEF CreateDone, CanCreate, Creating, Visiting, Worklists, WritesCreation
<1>4. CASE DeleteDone(r, k)
    BY <1>1, <1>2, <1>4 DEF DeleteDone, Deleting, Differs, WritesDeletion
<1>5. CASE UpdateDone(r, k)
    BY <1>1, <1>2, <1>5 DEF UpdateDone, Updating, Differs, WritesUpdate
<1> QED BY <1>3, <1>4, <1>5 DEF WriteDone

\* The digests are those of the objects wanted for a spec.
LEMMA SpecDigests ==
    ASSUME NEW s \in Specs
    PROVE  /\ BuildDependentObjects(s) \in [Keys -> Digests \cup {Absent}]
           /\ BuildDependentObjects(s)["namespace"] # Absent
BY ControllerAssumption, DeployerAssumption

\* What Deployed asks for at a key is an object.
LEMMA DeployedObject ==
    ASSUME NEW o \in Owners, NEW d \in Digests \cup {Absent}
    PROVE  [owner |-> o, digest |-> d, drifted |-> FALSE, terminating |-> FALSE]
                \in Objects \ {Absent}
<1>1. [owner |-> o, digest |-> d, drifted |-> FALSE, terminating |-> FALSE] \in Objects
    BY DEF Objects
<1> QED BY <1>1, KubeAssumption

\* A call for a project that is Ready and deployed has nothing to write.
LEMMA NothingToWrite ==
    ASSUME OperatorInv, NEW r \in Replicas, NEW k \in Keys, WriteDone(r, k),
           Exists, IsReady, pc[r] = "reconcile"
    PROVE  cluster' = cluster
<1> USE DEF OperatorInv, ReadyInv, LifecycleInv, FinalizerInv
<1> SUFFICES ASSUME cluster' # cluster PROVE FALSE
    OBVIOUS
<1>1. project \in Projects /\ project.uid \in Owners /\ project.spec \in Specs
    BY DEF ControllerTypes, Exists, Projects
<1>2. owner[r] = project.uid /\ want[r] = BuildDependentObjects(project.spec)
    BY DEF ReadyInSync, CallsWant, CallInv, GuardedCalls
<1>3. Deployed(project)
    BY DEF ReadyInSync
<1>4. want[r][k] = Absent => ~Owned(k, project.uid)
    BY <1>2, <1>3 DEF Deployed
<1>5. want[r][k] # Absent =>
        cluster[k] = [owner |-> project.uid, digest |-> want[r][k],
                      drifted |-> FALSE, terminating |-> FALSE]
    BY <1>2, <1>3 DEF Deployed
<1>6. want[r][k] \in Digests \cup {Absent}
    BY DEF DeployerInv, DeployerTypeOK
<1>7. ASSUME cluster[k] \in Objects, cluster[k] = listed[r][k] PROVE Owned(k, project.uid)
    BY <1>2, <1>7, KubeAssumption DEF DeployerInv, ListedIsCurrent, Owned
<1>8. CASE WritesCreation(r, k)
    BY <1>1, <1>5, <1>6, <1>8, DeployedObject DEF WritesCreation
<1>9. CASE WritesUpdate(r, k)
    BY <1>5, <1>9 DEF WritesUpdate
<1>10. CASE WritesDeletion(r, k)
    BY <1>4, <1>5, <1>7, <1>10 DEF WritesDeletion
<1> QED BY <1>8, <1>9, <1>10, CallWrites DEF CallInv

\* A running call writes objects as wanted; only one that deletes the project
\* makes the namespace terminate.
LEMMA CallKeepsIntact ==
    ASSUME OperatorInv, NEW r \in Replicas, NEW k \in Keys, WriteDone(r, k),
           UNCHANGED controllerVars
    PROVE  ObjectsIntact'
<1> USE DEF OperatorInv, ReadyInv, LifecycleInv, FinalizerInv, controllerVars, projectVars, localVars
<1>1. CASE cluster' = cluster
    BY <1>1 DEF ObjectsIntact, Exists
<1>2. CASE cluster' # cluster
    <2>1. /\ \A j \in Keys : j # k => cluster'[j] = cluster[j]
          /\ WritesCreation(r, k) \/ WritesUpdate(r, k) \/ WritesDeletion(r, k)
        BY <1>2, CallWrites DEF CallInv
    <2>2. pc[r] = "reconcile" /\ r \in active
        <3>1. phase[r] # "idle"
            BY DEF WriteDone, CreateDone, DeleteDone, UpdateDone, Creating, Deleting, Updating,
                Visiting
        <3> QED BY <3>1 DEF ProcessInv, CallsMatch, OnlyLeadersWork
    <2>3. /\ Exists /\ owner[r] = project.uid /\ owner[r] \in Owners
          /\ snap[r] \in Projects
        BY <2>2 DEF CallInv, GuardedCalls, Guarded, Exists, ControllerTypes, Projects
    <2>4. CASE WritesCreation(r, k)
        BY <2>1, <2>4 DEF WritesCreation, Desired, ObjectsIntact, Exists
    <2>5. CASE WritesUpdate(r, k)
        <3>1. /\ cluster'[k].owner = owner[r] /\ ~cluster'[k].drifted
              /\ cluster'[k].terminating = cluster[k].terminating
              /\ cluster[k] # Absent
            BY <2>5, KubeAssumption DEF WritesUpdate, Desired
        <3> QED BY <2>1, <2>3, <3>1 DEF ObjectsIntact, Exists
    <2>6. CASE WritesDeletion(r, k) /\ KindOf[k] # "Namespace"
        BY <2>1, <2>6 DEF WritesDeletion, AfterDelete, ObjectsIntact, Exists
    <2>7. CASE WritesDeletion(r, k) /\ KindOf[k] = "Namespace"
        <3>1. k = "namespace" /\ want[r][k] = Absent
            BY <2>7 DEF WritesDeletion, KindOf, Keys
        <3>2. snap[r].deleting /\ project.deleting
            BY <2>2, <2>3, <3>1, SpecDigests DEF CallsWant, Projects
        <3>3. \A q \in Replicas : pc[q] # "idle" => snap[q].deleting
            BY <2>2, <3>2, OthersIdle
        <3>4. /\ cluster[k] # Absent /\ cluster[k].owner = owner[r]
              /\ cluster'[k].owner = cluster[k].owner
              /\ cluster'[k].drifted = cluster[k].drifted
            <4>1. cluster[k] # Absent /\ cluster[k].owner = owner[r]
                BY <2>7, KubeAssumption DEF WritesDeletion, DeployerInv, ListedIsCurrent
            <4> QED BY <2>7, <4>1 DEF WritesDeletion, AfterDelete, Objects
        <3> QED BY <2>1, <2>3, <3>2, <3>3, <3>4 DEF ObjectsIntact, Exists
    <2> QED BY <2>1, <2>4, <2>5, <2>6, <2>7
<1> QED BY <1>1, <1>2

\* Listing, and finding an object up to date, keep a clean call clean; any other
\* step ends it.
LEMMA CallKeepsClean ==
    ASSUME OperatorInv, NEW r \in Replicas, DeployerStep(r) \/ DeployerFault(r),
           UNCHANGED controllerVars
    PROVE  CleanCall(r)'
<1> USE DEF OperatorInv, ReadyInv, LifecycleInv, FinalizerInv, controllerVars, projectVars, localVars
<1> SUFFICES ASSUME pc[r] = "reconcile", ~snap[r].deleting, phase'[r] # "failed", ~unready'[r]
             PROVE  /\ stale'[r] = {}
                    /\ \A k \in Keys :
                        /\ HasListed(r, k)' /\ listed'[r][k] = Absent => ~Owned(k, owner[r])'
                        /\ k \notin todo'[r] => AsWanted(r, k)'
    BY DEF CleanCall, DeployerStep, DeployerFault, List, CallFails, ApplyObject, CheckStatus,
        AnswerLost, Fail, Visited
<1>1. CASE List(r)
    <2> USE <1>1 DEF List
    <2>1. phase[r] # "failed" /\ unready[r] = unready'[r]
        BY DEF NextPhase
    <2>2. stale[r] = {} /\ stale' = stale /\ cluster' = cluster /\ want' = want /\ owner' = owner
        BY <2>1 DEF CleanCalls, CleanCall
    <2>3. ASSUME NEW k \in Keys
          PROVE  /\ HasListed(r, k)' /\ listed'[r][k] = Absent => ~Owned(k, owner[r])'
                 /\ k \notin todo'[r] => AsWanted(r, k)'
        <3>1. CASE KindOf[k] = phase[r] /\ Owned(k, owner[r])
            BY <3>1 DEF Owned, DeployerInv, DeployerTypeOK, KubeTypeOK
        <3>2. CASE ~(KindOf[k] = phase[r] /\ Owned(k, owner[r]))
            <4>1. listed'[r][k] = listed[r][k] /\ (k \in todo'[r] <=> k \in todo[r])
                BY <3>2 DEF DeployerInv, DeployerTypeOK, KubeTypeOK
            <4>2. HasListed(r, k)' => HasListed(r, k) \/ KindOf[k] = phase[r]
                BY KindsOfKeys DEF HasListed, NextPhase, DeployerInv, DeployerTypeOK
            <4>3. /\ HasListed(r, k) /\ listed[r][k] = Absent => ~Owned(k, owner[r])
                  /\ k \notin todo[r] => AsWanted(r, k)
                BY <2>1, <2>2 DEF CleanCalls, CleanCall
            <4> QED BY <2>2, <3>2, <4>1, <4>2, <4>3 DEF Owned, AsWanted
        <3> QED BY <3>1, <3>2
    <2> QED BY <2>2, <2>3
<1>2. ASSUME NEW j \in Keys, CheckStatus(r, j)
      PROVE  /\ stale'[r] = {}
             /\ \A k \in Keys :
                 /\ HasListed(r, k)' /\ listed'[r][k] = Absent => ~Owned(k, owner[r])'
                 /\ k \notin todo'[r] => AsWanted(r, k)'
    <2>1. /\ phase' = phase /\ owner' = owner /\ want' = want /\ UNCHANGED kubeVars
          /\ todo'[r] = todo[r] \ {j}
          /\ unready'[r] = (unready[r] \/ listed[r][j].terminating)
          /\ listed[r][j] # Absent /\ want[r][j] # Absent /\ want[r][j] = listed[r][j].digest
        BY <1>2 DEF CheckStatus, Visited, DeployerInv, DeployerTypeOK
    <2>2. ~unready[r] /\ ~listed[r][j].terminating
        BY <2>1
    <2>3. stale[r] = {} /\ \A k \in Keys :
            /\ HasListed(r, k) /\ listed[r][k] = Absent => ~Owned(k, owner[r])
            /\ k \notin todo[r] => AsWanted(r, k)
        BY <2>1, <2>2 DEF CleanCalls, CleanCall
    <2>4. AsWanted(r, j)
        BY <2>1, <2>2 DEF AsWanted
    <2> QED BY <2>1, <2>3, <2>4 DEF HasListed, AsWanted, Owned, kubeVars
<1>3. ASSUME NEW j \in Keys, ApplyObject(r, j) PROVE FALSE
    BY <1>3 DEF ApplyObject, Visited, Fail, DeployerInv, DeployerTypeOK
<1>4. CASE DeployerFault(r)
    BY <1>4 DEF DeployerFault, CallFails, AnswerLost, Fail, DeployerInv, DeployerTypeOK
<1> QED BY <1>1, <1>2, <1>3, <1>4 DEF DeployerStep

\* A step of a running call.
LEMMA DeployerKeepsReady ==
    ASSUME OperatorInv, NEW r \in Replicas, DeployerStep(r) \/ DeployerFault(r),
           UNCHANGED controllerVars
    PROVE  ReadyInv'
<1> USE DEF OperatorInv, ReadyInv, LifecycleInv, FinalizerInv, controllerVars, projectVars, localVars
<1>1. pc[r] = "reconcile" /\ r \in active
    <2>1. phase[r] # "idle"
        BY DEF DeployerStep, DeployerFault, List, CallFails, ApplyObject, CheckStatus,
            AnswerLost, WriteDone, CreateDone, DeleteDone, UpdateDone, NotFoundIgnored,
            Rejected, Creating, Deleting, Updating, Visiting, NextPhase
    <2> QED BY <2>1 DEF ProcessInv, CallsMatch, OnlyLeadersWork
<1>2. \A q \in Replicas : q # r => pc[q] = "idle" /\ phase[q] = "idle"
    BY <1>1, OthersIdle
<1>3. /\ owner' = owner /\ want' = want
      /\ \A q \in Replicas : q # r => listed'[q] = listed[q]
      /\ \/ cluster' = cluster /\ stale' = stale
         \/ \E k \in Keys : WriteDone(r, k)
    BY DEF DeployerStep, DeployerFault, List, CallFails, ApplyObject, CheckStatus, AnswerLost,
        Fail, Visited, kubeVars, DeployerInv, DeployerTypeOK, KubeTypeOK
<1>4. FinalizerKnown' /\ CallsWant' /\ ObservedPast'
    BY <1>3 DEF FinalizerKnown, CallsWant, ObservedPast, Exists
<1>5. ObjectsIntact'
    BY <1>3, CallKeepsIntact DEF ObjectsIntact, Exists
<1>6. CleanCalls'
    <2>1. ASSUME NEW q \in Replicas, q # r PROVE stale'[q] = {} /\ CleanCall(q)'
        <3>1. stale[q] = {} /\ listed[q] = Nothing
            BY <1>2, <2>1 DEF CleanCalls, DeployerInv, IdleListsNothing
        <3>2. \A k \in Keys : listed[q][k] = Absent
            BY <3>1, NothingType
        <3>3. stale'[q] = {}
            <4>1. ASSUME NEW k \in Keys, NEW obj, Store(k, obj) PROVE stale'[q] = {}
                BY <3>1, <3>2, <4>1 DEF Store, Write
            <4> QED BY <1>3, <3>1, <4>1 DEF WriteDone, CreateDone, DeleteDone, UpdateDone
        <3> QED BY <1>2, <2>1, <3>3 DEF CleanCall
    <2>2. phase'[r] # "idle"
        <3>1. (phase'[r] # "idle")
            BY <1>1 DEF DeployerStep, DeployerFault, List, CallFails, ApplyObject, CheckStatus,
                AnswerLost, Fail, Visited, NextPhase, DeployerInv, DeployerTypeOK,
                ProcessInv, CallsMatch
        <3> QED BY <3>1
    <2> QED BY <2>1, <2>2, CallKeepsClean DEF CleanCalls
<1>7. ReadyReports'
    BY <1>1, <1>2 DEF ReadyReports
<1>8. ReadyInSync'
    <2> SUFFICES ASSUME Exists, IsReady
                 PROVE  /\ ~project.deleting
                        /\ Deployed(project)'
                        /\ \A q \in Replicas : pc[q] = "reconcile" =>
                            snap[q].spec = project.spec /\ ~snap[q].deleting
        BY DEF ReadyInSync, IsReady, Exists
    <2>1. cluster' = cluster
        BY <1>1, <1>3, NothingToWrite
    <2> QED BY <2>1 DEF ReadyInSync, Deployed, Owned
<1> QED BY <1>4, <1>5, <1>6, <1>7, <1>8

\* A clean call that has visited everything has found the project deployed.
LEMMA CleanCallDeployed ==
    ASSUME OperatorInv, NEW r \in Replicas, pc[r] = "reconcile", ~snap[r].deleting,
           Succeeded(r), ~unready[r]
    PROVE  Deployed(snap[r])
<1> USE DEF OperatorInv, ReadyInv, LifecycleInv, FinalizerInv
<1>1. phase[r] = "apply" /\ todo[r] = {}
    BY DEF Succeeded
<1>2. owner[r] = snap[r].uid /\ want[r] = BuildDependentObjects(snap[r].spec)
    BY DEF CallsWant
<1>3. stale[r] = {} /\ \A k \in Keys :
        /\ listed[r][k] = Absent => ~Owned(k, owner[r])
        /\ AsWanted(r, k)
    BY <1>1 DEF CleanCalls, CleanCall, HasListed
<1>4. ASSUME NEW k \in Keys, want[r][k] # Absent
      PROVE  cluster[k] = [owner |-> owner[r], digest |-> want[r][k],
                           drifted |-> FALSE, terminating |-> FALSE]
    <2>1. listed[r][k] # Absent /\ listed[r][k].digest = want[r][k] /\ ~listed[r][k].terminating
        BY <1>3, <1>4 DEF AsWanted
    <2>2. cluster[k] = listed[r][k] /\ listed[r][k].owner = owner[r]
        BY <1>3, <2>1 DEF DeployerInv, ListedIsCurrent
    <2>3. cluster[k] \in Objects /\ ~cluster[k].drifted
        BY <2>1, <2>2 DEF DeployerInv, DeployerTypeOK, KubeTypeOK, ObjectsIntact
    <2> QED BY <2>1, <2>2, <2>3 DEF Objects
<1>5. ASSUME NEW k \in Keys, want[r][k] = Absent PROVE ~Owned(k, owner[r])
    BY <1>3, <1>5 DEF AsWanted
<1> QED BY <1>2, <1>4, <1>5 DEF Deployed

LEMMA ReturnKeepsReady ==
    ASSUME OperatorInv, NEW r \in Replicas,
           DependentsReconciled(r) \/ DependentsGone(r) \/ ReconcileFailed(r)
    PROVE  ReadyInv'
<1> USE DEF OperatorInv, ReadyInv, LifecycleInv, FinalizerInv
<1>1. /\ pc[r] = "reconcile" /\ pc'[r] \in {"status", "removeFinalizer"}
      /\ Drop(r) /\ UNCHANGED projectVars
      /\ \A q \in Replicas : q # r => pc'[q] = pc[q] /\ snap'[q] = snap[q]
    BY DEF DependentsReconciled, DependentsGone, ReconcileFailed, ToStatus, ControllerTypes
<1>2. /\ cluster' = cluster /\ project' = project
      /\ phase'[r] = "idle" /\ stale'[r] = {}
      /\ \A q \in Replicas : q # r => pc[q] = "idle" /\ phase[q] = "idle" /\ stale'[q] = stale[q]
    <2>1. r \in active
        BY <1>1 DEF ProcessInv, OnlyLeadersWork
    <2> QED BY <1>1, <2>1, OthersIdle DEF Drop, projectVars, DeployerInv, DeployerTypeOK, KubeTypeOK
<1>3. /\ snap'[r].uid = snap[r].uid /\ snap'[r].spec = snap[r].spec
      /\ snap'[r].deleting = snap[r].deleting /\ snap'[r].finalizers = snap[r].finalizers
    <2>1. snap[r] \in Projects
        BY <1>1 DEF ControllerTypes
    <2>2. \/ snap' = snap
          \/ \E st : snap'[r] = [snap[r] EXCEPT !.status.state = st]
        BY DEF DependentsReconciled, DependentsGone, ReconcileFailed, ControllerTypes
    <2> QED BY <2>1, <2>2 DEF Projects
<1>4. FinalizerKnown' /\ CallsWant' /\ ObservedPast'
    BY <1>1, <1>2 DEF FinalizerKnown, CallsWant, ObservedPast, Exists
<1>5. ObjectsIntact'
    BY <1>1, <1>2, <1>3 DEF ObjectsIntact, Exists
<1>6. CleanCalls'
    BY <1>1, <1>2 DEF CleanCalls, CleanCall
<1>7. ReadyReports'
    <2> SUFFICES ASSUME pc'[r] = "status", ~err'[r], snap'[r].status.state = "Ready"
                 PROVE  /\ ~snap[r].deleting
                        /\ projectFinalizer \in snap[r].finalizers
                        /\ Deployed(snap[r])
        BY <1>1, <1>2, <1>3 DEF ReadyReports, Deployed, Owned
    <2>1. DependentsReconciled(r)
        BY DEF DependentsGone, ReconcileFailed, ToStatus, ControllerTypes
    <2>2. snap[r] \in Projects
        BY <1>1 DEF ControllerTypes
    <2>3. ~snap[r].deleting /\ ~unready[r] /\ Succeeded(r)
        <3>1. snap'[r].status.state = IF snap[r].deleting THEN "Deleting"
                                      ELSE IF unready[r] THEN "Processing" ELSE "Ready"
            BY <2>1, <2>2 DEF DependentsReconciled, ControllerTypes, Projects, Statuses
        <3> QED BY <2>1, <3>1 DEF DependentsReconciled
    <2> QED BY <1>1, <2>3, CleanCallDeployed DEF FinalizerKnown
<1>8. ReadyInSync'
    BY <1>1, <1>2 DEF ReadyInSync, IsReady, Deployed, Owned, Exists
<1> QED BY <1>4, <1>5, <1>6, <1>7, <1>8

\* A step of a replica in no call that leaves the project, or only writes what
\* a status is not about, and that reports nothing Ready.
LEMMA QuietKeepsReady ==
    ASSUME OperatorInv, NEW r \in Replicas,
           pc'[r] \in {"idle", "status"},
           pc'[r] = "status" => err'[r] /\ snap' = snap /\ pc[r] # "idle",
           \A q \in Replicas : q # r =>
                pc'[q] = pc[q] /\ snap'[q] = snap[q] /\ err'[q] = err[q],
           UNCHANGED <<cluster, listed, stale, deployerVars>>,
           pc[r] # "reconcile",
           \/ project' = project
           \/ /\ Exists /\ Exists'
              /\ project'.uid = project.uid /\ project'.spec = project.spec
              /\ project'.generation = project.generation
              /\ project'.deleting = project.deleting
              /\ project'.status = project.status
              /\ project.finalizers \subseteq project'.finalizers
    PROVE  ReadyInv'
<1> USE DEF OperatorInv, ReadyInv, LifecycleInv, FinalizerInv, deployerVars
<1>1. FinalizerKnown' /\ ObservedPast'
    BY DEF FinalizerKnown, ObservedPast, Exists
<1>2. CallsWant'
    BY DEF CallsWant, Exists, CallInv, GuardedCalls, Guarded
<1>3. ObjectsIntact'
    BY DEF ObjectsIntact, Exists
<1>4. CleanCalls'
    BY DEF CleanCalls, CleanCall, HasListed, AsWanted, Owned
<1>5. ReadyReports'
    BY DEF ReadyReports, Deployed, Owned
<1>6. ReadyInSync'
    BY DEF ReadyInSync, IsReady, Deployed, Owned, Exists
<1> QED BY <1>1, <1>2, <1>3, <1>4, <1>5, <1>6

\* When the project goes with its last finalizer, nothing of it is left.
LEMMA GoneKeepsReady ==
    ASSUME OperatorInv, NEW r \in Replicas, pc[r] = "removeFinalizer",
           project' = NoProject,
           pc'[r] \in {"idle", "status"}, pc'[r] = "status" => err'[r],
           \A q \in Replicas : q # r => pc'[q] = pc[q],
           UNCHANGED <<cluster, listed, stale, deployerVars>>
    PROVE  ReadyInv'
<1> USE DEF OperatorInv, ReadyInv, LifecycleInv, FinalizerInv, deployerVars
<1>1. \A q \in Replicas : q # r => pc[q] = "idle" /\ phase[q] = "idle"
    BY OthersIdle DEF ProcessInv, OnlyLeadersWork
<1>2. ~Exists'
    BY DEF Exists
<1>3. FinalizerKnown' /\ ObservedPast' /\ CallsWant' /\ ReadyReports' /\ ReadyInSync'
    BY <1>1, <1>2 DEF FinalizerKnown, ObservedPast, CallsWant, ReadyReports, ReadyInSync
<1>4. ObjectsIntact'
    BY DEF ObjectsIntact, CallInv, NothingLeft, Owned
<1>5. CleanCalls'
    BY <1>1 DEF CleanCalls, CleanCall
<1> QED BY <1>3, <1>4, <1>5

\* The finalizer is added to a project that has never been Ready.
LEMMA AddFinalizerKeepsReady ==
    ASSUME OperatorInv, NEW r \in Replicas, AddFinalizer(r)
    PROVE  ReadyInv'
<1> USE DEF OperatorInv, ReadyInv, LifecycleInv, FinalizerInv, AddFinalizer, ToStatus,
        deployerVars, kubeVars
<1>1. /\ project \in Projects /\ project' \in Projects /\ snap'[r] = project'
      /\ pc'[r] = "status" /\ r \in active
    BY FinalizerWrites DEF Current, Exists, ControllerTypes, ProcessInv, OnlyLeadersWork
<1>2. \A q \in Replicas : q # r =>
        pc[q] = "idle" /\ pc'[q] = "idle" /\ phase[q] = "idle"
    BY <1>1, OthersIdle DEF ControllerTypes
<1>3. /\ project'.status = project.status /\ project'.deleting = project.deleting
      /\ project'.generation = project.generation
      /\ projectFinalizer \in project'.finalizers
    BY <1>1 DEF Projects
<1>4. project.status.state # "Ready"
    <2>1. projectFinalizer \notin project.finalizers
        BY DEF FinalizerKnown, RequestInv, CopyInv, CopyIsCurrent, Current
    <2> QED BY <2>1 DEF FinalizerKnown, Current
<1>5. FinalizerKnown' /\ CallsWant' /\ ObservedPast'
    BY <1>1, <1>2, <1>3 DEF FinalizerKnown, CallsWant, ObservedPast, Exists, Current
<1>6. ObjectsIntact'
    BY <1>1, <1>2, <1>3, ProjectAssumption DEF ObjectsIntact, Exists
<1>7. CleanCalls'
    BY <1>1, <1>2 DEF CleanCalls, CleanCall
<1>8. ReadyReports'
    <2>1. snap'[r].status.state # "Ready"
        BY <1>1, <1>3, <1>4
    <2> QED BY <1>2, <2>1 DEF ReadyReports
<1>9. ReadyInSync'
    BY <1>3, <1>4 DEF ReadyInSync, IsReady
<1> QED BY <1>5, <1>6, <1>7, <1>8, <1>9

\* The status that is written is the reported one, for the generation that it
\* is about.
LEMMA UpdateStatusKeepsReady ==
    ASSUME OperatorInv, NEW r \in Replicas, UpdateStatus(r)
    PROVE  ReadyInv'
<1> USE DEF OperatorInv, ReadyInv, LifecycleInv, FinalizerInv, UpdateStatus, WriteStatus,
        RequeueAndFinish, Finish, deployerVars
<1>1. /\ project \in Projects /\ project' = [project EXCEPT !.status = ReportedStatus(r)]
      /\ ReportedStatus(r) \in Statuses
      /\ pc[r] = "status" /\ pc'[r] = "idle" /\ r \in active
    BY ReportedStatusType DEF Current, Exists, ControllerTypes, ProcessInv, OnlyLeadersWork
<1>2. \A q \in Replicas : q # r =>
        pc[q] = "idle" /\ pc'[q] = "idle" /\ phase[q] = "idle"
    BY <1>1, OthersIdle DEF ControllerTypes
<1>3. /\ project'.status = ReportedStatus(r)
      /\ project'.deleting = project.deleting /\ project'.finalizers = project.finalizers
      /\ project'.uid = project.uid /\ project'.spec = project.spec
      /\ project'.generation = project.generation
      /\ project' # NoProject
    <2>1. project' \in Projects
        BY <1>1, ProjectUpdates
    <2> QED BY <1>1, <2>1, ProjectAssumption DEF Projects
<1>4. /\ snap[r].uid = project.uid /\ snap[r].spec = project.spec
      /\ snap[r].generation = project.generation
      /\ snap[r].deleting = project.deleting /\ snap[r].finalizers = project.finalizers
    BY DEF RequestInv, CopyInv, CopyIsCurrent, Current
<1>5. /\ project'.status.observedGeneration = project.generation
      /\ project'.status.state = "Ready" => ~err[r] /\ snap[r].status.state = "Ready"
    BY <1>3, <1>4 DEF ReportedStatus
<1>6. project'.status.state = "Ready" =>
        /\ ~project.deleting
        /\ projectFinalizer \in project.finalizers
        /\ Deployed(project)
    BY <1>1, <1>4, <1>5 DEF ReadyReports, Deployed
<1>7. FinalizerKnown' /\ CallsWant'
    BY <1>1, <1>2, <1>3, <1>6 DEF FinalizerKnown, CallsWant
<1>8. ObservedPast'
    <2>1. project.generation \in Nat
        BY <1>1 DEF Projects
    <2> QED BY <1>3, <1>5, <2>1 DEF ObservedPast
<1>9. ObjectsIntact'
    BY <1>1, <1>2, <1>3 DEF ObjectsIntact, Exists
<1>10. CleanCalls'
    BY <1>1, <1>2 DEF CleanCalls, CleanCall
<1>11. ReadyReports'
    BY <1>1, <1>2 DEF ReadyReports
<1>12. ReadyInSync'
    BY <1>1, <1>2, <1>3, <1>6 DEF ReadyInSync, IsReady, Deployed, Owned
<1> QED BY <1>7, <1>8, <1>9, <1>10, <1>11, <1>12

LEMMA FinalizerKeepsReady ==
    ASSUME OperatorInv, NEW r \in Replicas,
           \/ AddFinalizer(r) \/ RemoveFinalizer(r) \/ FinalizerConflict(r)
           \/ FinalizerCallFails(r) \/ FinalizerAnswerLost(r)
    PROVE  ReadyInv'
<1> USE DEF OperatorInv, LifecycleInv, FinalizerInv, ControllerTypes, kubeVars
<1>1. CASE AddFinalizer(r)
    BY <1>1, AddFinalizerKeepsReady
<1>2. CASE RemoveFinalizer(r)
    <2>1. project' = NoProject
        BY <1>2, LastFinalizer DEF RemoveFinalizer
    <2> QED BY <1>2, <2>1, GoneKeepsReady DEF RemoveFinalizer, Finish
<1>3. CASE FinalizerConflict(r) \/ FinalizerCallFails(r)
    BY <1>3, QuietKeepsReady DEF FinalizerConflict, FinalizerCallFails, ToStatus, projectVars
<1>4. CASE FinalizerAnswerLost(r) /\ pc[r] = "removeFinalizer"
    <2>1. project' = NoProject
        BY <1>4, LastFinalizer DEF FinalizerAnswerLost, Persist
    <2> QED BY <1>4, <2>1, GoneKeepsReady DEF FinalizerAnswerLost, ToStatus
<1>5. CASE FinalizerAnswerLost(r) /\ pc[r] = "addFinalizer"
    <2>1. Exists /\ project' = [project EXCEPT !.finalizers = @ \cup {projectFinalizer}]
        BY <1>5 DEF FinalizerAnswerLost, Persist, Current
    <2>2. project \in Projects /\ project' \in Projects
        BY <2>1, FinalizerWrites DEF Exists
    <2>3. /\ Exists'
          /\ project'.uid = project.uid /\ project'.spec = project.spec
          /\ project'.generation = project.generation
          /\ project'.deleting = project.deleting
          /\ project'.status = project.status
          /\ project.finalizers \subseteq project'.finalizers
        BY <2>1, <2>2, ProjectAssumption DEF Projects, Exists
    <2> QED BY <1>5, <2>1, <2>3, QuietKeepsReady DEF FinalizerAnswerLost, ToStatus
<1> QED BY <1>1, <1>2, <1>3, <1>4, <1>5 DEF FinalizerAnswerLost

\* The end of a reconciliation that writes no status.
LEMMA FinishKeepsReady ==
    ASSUME OperatorInv, NEW r \in Replicas,
           StatusConflict(r) \/ StatusCallFails(r) \/ Crash(r)
    PROVE  ReadyInv'
<1> USE DEF OperatorInv, LifecycleInv, FinalizerInv
<1>1. /\ project' = project /\ pc'[r] = "idle"
      /\ \A q \in Replicas : q # r =>
            pc'[q] = pc[q] /\ snap'[q] = snap[q] /\ err'[q] = err[q]
    BY DEF StatusConflict, StatusCallFails, Crash, RequeueAndFinish, Finish, ControllerTypes
<1>2. CASE StatusConflict(r) \/ StatusCallFails(r)
    BY <1>1, <1>2, QuietKeepsReady DEF StatusConflict, StatusCallFails, RequeueAndFinish
<1>3. CASE Crash(r)
    <2>1. /\ cluster' = cluster /\ phase'[r] = "idle" /\ stale'[r] = {}
          /\ \A q \in Replicas : q # r => pc[q] = "idle" /\ phase[q] = "idle" /\ stale'[q] = stale[q]
        BY <1>3, OthersIdle DEF Crash, Drop, DeployerInv, DeployerTypeOK, KubeTypeOK
    <2>2. FinalizerKnown' /\ CallsWant' /\ ObservedPast'
        BY <1>1, <2>1 DEF ReadyInv, FinalizerKnown, CallsWant, ObservedPast, Exists
    <2>3. ObjectsIntact' /\ ReadyReports'
        BY <1>1, <2>1 DEF ReadyInv, ObjectsIntact, ReadyReports, Exists
    <2>4. CleanCalls'
        BY <1>1, <2>1 DEF ReadyInv, CleanCalls, CleanCall
    <2>5. ReadyInSync'
        BY <1>1, <2>1 DEF ReadyInv, ReadyInSync, IsReady, Deployed, Owned, Exists
    <2> QED BY <2>2, <2>3, <2>4, <2>5 DEF ReadyInv
<1> QED BY <1>2, <1>3

LEMMA SameKeepsReady ==
    ASSUME ReadyInv, UNCHANGED <<project, localVars, cluster, listed, stale, deployerVars>>
    PROVE  ReadyInv'
BY DEF ReadyInv, FinalizerKnown, CallsWant, ObjectsIntact, CleanCalls, CleanCall, ReadyReports,
    ReadyInSync, ObservedPast, IsReady, Deployed, Owned, Exists, HasListed, AsWanted,
    localVars, deployerVars

\* An object that somebody else creates takes a free place and is nobody's.
LEMMA CreationKeepsDeployed ==
    ASSUME KubeTypeOK, NEW k \in Keys, ExternalCreate(k), NEW p \in Projects, Deployed(p)
    PROVE  Deployed(p)'
<1> DEFINE made == [owner |-> NoOwner, digest |-> Absent, drifted |-> FALSE, terminating |-> FALSE]
<1>1. cluster[k] = Absent /\ cluster' = [cluster EXCEPT ![k] = made]
    BY KubeAssumption DEF ExternalCreate, CanCreate, Store, Write, KubeTypeOK, Objects
<1>2. p.uid \in Owners /\ p.uid # NoOwner /\ p.spec \in Specs
    BY KubeAssumption DEF Projects
<1>3. BuildDependentObjects(p.spec)[k] = Absent
    <2>1. BuildDependentObjects(p.spec)[k] \in Digests \cup {Absent}
        BY <1>2, SpecDigests
    <2> QED BY <1>1, <1>2, <2>1, DeployedObject DEF Deployed
<1>4. ~Owned(k, p.uid)'
    BY <1>1, <1>2 DEF Owned, KubeTypeOK
<1> QED BY <1>1, <1>3, <1>4 DEF Deployed, Owned, KubeTypeOK

\* Others only create objects, and the namespace controller only works for
\* deletions.
LEMMA EnvironmentKeepsReady ==
    ASSUME OperatorInv, Environment, UNCHANGED controllerVars, Interference \subseteq {"create"}
    PROVE  ReadyInv'
<1> USE DEF OperatorInv, ReadyInv, LifecycleInv, FinalizerInv, Environment, deployerVars,
        controllerVars, projectVars, localVars
<1>1. FinalizerKnown' /\ CallsWant' /\ ObservedPast'
    BY DEF FinalizerKnown, CallsWant, ObservedPast, Exists
<1>2. KubeTypeOK /\ listed' = listed
    BY DEF DeployerInv, DeployerTypeOK, NamespaceController, NamespaceFinalized,
        NamespaceContentDeleted, Outsider, ExternalDelete, ExternalEdit, ExternalRelabel,
        ExternalCreate
<1>3. ASSUME NEW r \in Replicas, phase[r] = "idle" PROVE stale'[r] = {}
    <2>1. stale[r] = {} /\ \A k \in Keys : listed[r][k] = Absent
        BY <1>3, NothingType DEF CleanCalls, DeployerInv, IdleListsNothing
    <2>2. ASSUME NEW k \in Keys, NEW obj, Store(k, obj) \/ Write(k, obj) PROVE stale'[r] = {}
        BY <2>1, <2>2 DEF Store, Write
    <2>3. "namespace" \in Keys
        BY DEF Keys
    <2> QED BY <2>2, <2>3 DEF NamespaceController, NamespaceFinalized, NamespaceContentDeleted,
            Outsider, ExternalDelete, ExternalEdit, ExternalRelabel, ExternalCreate
<1>4. CASE NamespaceController
    <2>1. "namespace" \in Keys
        BY DEF Keys
    <2>2. PICK k \in Keys : Terminating /\ Store(k, Absent)
        BY <1>4, <2>1 DEF NamespaceController, NamespaceFinalized, NamespaceContentDeleted
    <2>3. /\ Exists /\ project.deleting
          /\ \A r \in Replicas : pc[r] # "idle" => snap[r].deleting
        BY <2>1, <2>2 DEF Terminating, ObjectsIntact
    <2>4. ObjectsIntact'
        BY <1>2, <2>2 DEF ObjectsIntact, Store, Write, Exists, KubeTypeOK
    <2>5. CleanCalls'
        BY <1>3, <2>3 DEF CleanCalls, CleanCall
    <2>6. ReadyReports'
        BY <2>3 DEF ReadyReports
    <2>7. ReadyInSync'
        BY <2>3 DEF ReadyInSync, IsReady, Exists
    <2> QED BY <1>1, <2>4, <2>5, <2>6, <2>7
<1>5. ASSUME NEW k \in Keys, ExternalCreate(k) PROVE ReadyInv'
    <2>1. /\ cluster[k] = Absent
          /\ cluster' = [cluster EXCEPT ![k] = [owner |-> NoOwner, digest |-> Absent,
                                                drifted |-> FALSE, terminating |-> FALSE]]
          /\ stale' = [r \in Replicas |->
                        IF listed[r][k] # Absent THEN stale[r] \cup {k} ELSE stale[r]]
        <3>1. [owner |-> NoOwner, digest |-> Absent,
               drifted |-> FALSE, terminating |-> FALSE] \in Objects
            BY DEF Objects
        <3> QED BY <1>5, <3>1, KubeAssumption DEF ExternalCreate, CanCreate, Store, Write
    <2>2. ObjectsIntact'
        BY <1>2, <2>1 DEF ObjectsIntact, Exists, KubeTypeOK
    <2>3. CleanCalls'
        <3>1. ASSUME NEW r \in Replicas, pc[r] = "reconcile", ~snap[r].deleting,
                     phase[r] # "failed", ~unready[r]
              PROVE  /\ stale'[r] = {}
                     /\ \A j \in Keys :
                        /\ HasListed(r, j) /\ listed[r][j] = Absent => ~Owned(j, owner[r])'
                        /\ j \notin todo[r] => AsWanted(r, j)
            <4>1. stale[r] = {} /\ listed[r][k] = Absent
                BY <2>1, <3>1 DEF CleanCalls, CleanCall, DeployerInv, ListedIsCurrent
            <4>2. owner[r] # NoOwner
                BY <3>1, KubeAssumption
                    DEF CallInv, GuardedCalls, Guarded, Exists, ControllerTypes, Projects
            <4> QED BY <1>2, <2>1, <3>1, <4>1, <4>2 DEF CleanCalls, CleanCall, Owned, KubeTypeOK
        <3> QED BY <1>2, <1>3, <3>1 DEF CleanCalls, CleanCall, HasListed, AsWanted
    <2>4. ReadyReports'
        <3>1. ASSUME NEW r \in Replicas, pc[r] = "status", Deployed(snap[r])
              PROVE  Deployed(snap[r])'
            <4>1. snap[r] \in Projects
                BY <3>1 DEF ControllerTypes
            <4>2. Deployed(snap[r])' <=> \A j \in Keys :
                    LET content == BuildDependentObjects(snap[r].spec)[j]
                    IN  IF content = Absent
                        THEN ~Owned(j, snap[r].uid)'
                        ELSE cluster'[j] = [owner |-> snap[r].uid, digest |-> content,
                                            drifted |-> FALSE, terminating |-> FALSE]
                BY DEF Deployed, Owned
            <4> QED BY <1>2, <1>5, <3>1, <4>1, CreationKeepsDeployed
        <3> QED BY <3>1 DEF ReadyReports
    <2>5. ReadyInSync'
        <3>1. Exists => project \in Projects
            BY DEF ControllerTypes, Exists
        <3> QED BY <1>2, <1>5, <3>1, CreationKeepsDeployed DEF ReadyInSync, IsReady, Exists
    <2> QED BY <1>1, <2>2, <2>3, <2>4, <2>5
<1>6. ASSUME NEW k \in Keys, ExternalDelete(k) \/ ExternalEdit(k) \/ ExternalRelabel(k)
      PROVE  FALSE
    BY <1>6 DEF ExternalDelete, ExternalEdit, ExternalRelabel
<1> QED BY <1>4, <1>5, <1>6 DEF Outsider

LEMMA WorkKeepsReady ==
    ASSUME OperatorInv, NEW r \in Replicas, Work(r)
    PROVE  ReadyInv'
<1>1. CASE ProjectNotFound(r)
    BY <1>1, SameKeepsReady DEF ProjectNotFound, Begin, OperatorInv, localVars, kubeVars
<1>2. CASE \/ FirstSeen(r) \/ FinalizerMissing(r) \/ ReconcileDependents(r)
           \/ DeletionBlocked(r) \/ DeleteDependents(r)
    <2>1. Exists /\ project \in Projects /\ project.status.state \in States
        BY <1>2 DEF FirstSeen, FinalizerMissing, ReconcileDependents, DeletionBlocked,
            DeleteDependents, Observed, Exists, OperatorInv, LifecycleInv, RequestInv,
            ControllerTypes, Projects, Statuses
    <2>2. CASE FirstSeen(r)
        BY <2>1, <2>2, BeginKeepsReady DEF FirstSeen, States
    <2>3. CASE FinalizerMissing(r)
        BY <2>1, <2>3, BeginKeepsReady DEF FinalizerMissing
    <2>4. CASE ReconcileDependents(r)
        <3>1. Guarded /\ ~project.deleting
            BY <2>4 DEF ReconcileDependents, Observed, Guarded
        <3>2. BuildDependentObjects(project.spec) \in Wants
            BY <2>1, ControllerAssumption DEF Projects
        <3> QED BY <2>1, <2>4, <3>1, <3>2, CallKeepsReady DEF ReconcileDependents
    <2>5. CASE DeletionBlocked(r)
        BY <2>1, <2>5, BeginKeepsReady DEF DeletionBlocked, States
    <2>6. CASE DeleteDependents(r)
        <3>1. Guarded
            BY <2>6 DEF DeleteDependents, Observed, Guarded, OperatorInv, LifecycleInv,
                FinalizerInv, Held
        <3> QED BY <2>1, <2>6, <3>1, CallKeepsReady, ControllerAssumption DEF DeleteDependents
    <2> QED BY <1>2, <2>2, <2>3, <2>4, <2>5, <2>6
<1>3. CASE DeployerStep(r) /\ UNCHANGED controllerVars
    BY <1>3, DeployerKeepsReady
<1>4. CASE DependentsReconciled(r) \/ DependentsGone(r) \/ ReconcileFailed(r)
    BY <1>4, ReturnKeepsReady
<1>5. CASE AddFinalizer(r) \/ RemoveFinalizer(r) \/ FinalizerConflict(r)
    BY <1>5, FinalizerKeepsReady
<1>6. CASE UpdateStatus(r) \/ StatusConflict(r)
    BY <1>6, UpdateStatusKeepsReady, FinishKeepsReady
<1> QED BY <1>1, <1>2, <1>3, <1>4, <1>5, <1>6 DEF Work

LEMMA NextKeepsReady ==
    ASSUME OperatorInv, [Next]_vars, Interference \subseteq {"create"}
    PROVE  ReadyInv'
<1>1. ASSUME NEW r \in Replicas, Trouble(r) PROVE ReadyInv'
    BY <1>1, DeployerKeepsReady, FinalizerKeepsReady, FinishKeepsReady DEF Trouble
<1>2. ASSUME NEW r \in Replicas, Start(r) PROVE ReadyInv'
    BY <1>2, SameKeepsReady DEF Start, OperatorInv, kubeVars
<1>3. CASE UNCHANGED vars
    BY <1>3, SameKeepsReady DEF vars, OperatorInv, kubeVars, controllerVars, projectVars
<1>4. CASE User
    BY <1>4, UserKeepsReady
<1>5. CASE Environment /\ UNCHANGED controllerVars
    BY <1>5, EnvironmentKeepsReady
<1> QED BY <1>1, <1>2, <1>3, <1>4, <1>5, WorkKeepsReady DEF Next

\* With leader election, and as long as others leave the operator's objects and
\* finalizers alone: a project that reports Ready for its current generation has
\* exactly the objects of its spec (project_controller.go, 166-188 and 130-136).
THEOREM ReadyIsDeployed ==
    ASSUME LeaderElect, Interference \subseteq {"create"}
    PROVE  Spec => []ReadyMeansDeployed
<1>1. Init => ReadyInv
    BY DEF Init, DeployerInit, KubeInit, Nothing, Exists, ReadyInv, FinalizerKnown, CallsWant,
        ObjectsIntact, CleanCalls, CleanCall, ReadyReports, ReadyInSync, ObservedPast
<1>2. "stripFinalizer" \notin Interference
    OBVIOUS
<1>3. FinalizerInv /\ [Next]_vars => FinalizerInv'
    BY <1>2, NextKeepsFinalizerInv
<1>4. Spec => [](FinalizerInv /\ RequestInv)
    BY <1>3, InitFinalizerInv, RequestsInvariant, PTL DEF Spec
<1>5. FinalizerInv /\ RequestInv /\ ReadyInv /\ [Next]_vars => ReadyInv'
    BY NextKeepsReady DEF OperatorInv, LifecycleInv
<1>6. ReadyInv => ReadyMeansDeployed
    BY DEF ReadyInv, ReadyInSync, ReadyMeansDeployed
<1> QED BY <1>1, <1>4, <1>5, <1>6, PTL DEF Spec
=============================================================================
