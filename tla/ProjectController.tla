------------------------- MODULE ProjectController -------------------------
(***************************************************************************)
(* controllers/project_controller.go: the reconciler of a project, running *)
(* in the processes (replicas) of the operator, with its work queue, its   *)
(* deployer, the users of the project and the API server.                  *)
(*                                                                         *)
(* A replica works on one request at a time (one worker per controller).   *)
(* Reconcile is cut where it calls the API server: reading the project,    *)
(* updating its finalizers, every call of the deployer, and the status     *)
(* update of the deferred function.                                        *)
(***************************************************************************)
EXTENDS Deployer, DependentObjects

CONSTANTS
    Specs,              \* the specs users give the project
    MaxGeneration,      \* bound on the users' changes of one project
    ForeignFinalizers,  \* finalizers that others set on the project
    LeaderElect,        \* the flag --leader-elect
    NoProject           \* no project of that name

ASSUME ControllerAssumption ==
    /\ \A s \in Specs : /\ BuildDependentObjects(s) \in Wants
                         /\ BuildDependentObjects(s)["namespace"] # Absent
    /\ Nothing \in Wants
    /\ MaxGeneration \in Nat
    /\ LeaderElect \in BOOLEAN

VARIABLES
    project,        \* the project stored by the API server
    usedUIDs,       \* UIDs (Owners) of the projects there were so far
    active,         \* replicas whose manager runs and leads
    queued,         \* replica -> the project's request is in its work queue
    pc,             \* replica -> where its Reconcile is
    snap,           \* replica -> the variable "project" of its Reconcile
    outdated,       \* replica -> the project was written since it was read
    err             \* replica -> the result "err" of its Reconcile

localVars == <<pc, snap, err>>
projectVars == <<project, usedUIDs, active, queued, outdated>>
controllerVars == <<projectVars, localVars>>
vars == <<kubeVars, deployerVars, controllerVars>>

projectFinalizer == "project-operator.cs.sap.com"

Finalizers == {projectFinalizer} \cup ForeignFinalizers

States == {"", "Processing", "DeletionBlocked", "Deleting", "Ready", "Error"}

NeverObserved == -1

Statuses == [observedGeneration : Int, state : States]

Projects == [uid        : Owners,
             generation : Nat,
             spec       : Specs,
             deleting   : BOOLEAN,
             finalizers : SUBSET Finalizers,
             status     : Statuses]

ASSUME ProjectAssumption ==
    /\ NoProject \notin Projects
    /\ projectFinalizer \notin ForeignFinalizers

PCs == {"idle", "addFinalizer", "reconcile", "removeFinalizer", "status"}

TypeOK ==
    /\ DeployerTypeOK
    /\ project \in Projects \cup {NoProject}
    /\ usedUIDs \subseteq Owners
    /\ active \subseteq Replicas
    /\ queued \in [Replicas -> BOOLEAN]
    /\ pc \in [Replicas -> PCs]
    /\ snap \in [Replicas -> Projects \cup {NoProject}]
    /\ outdated \in [Replicas -> BOOLEAN]
    /\ err \in [Replicas -> BOOLEAN]

Init ==
    /\ DeployerInit
    /\ project = NoProject
    /\ usedUIDs = {}
    /\ active = {}
    /\ queued = [r \in Replicas |-> FALSE]
    /\ pc = [r \in Replicas |-> "idle"]
    /\ snap = [r \in Replicas |-> NoProject]
    /\ outdated = [r \in Replicas |-> FALSE]
    /\ err = [r \in Replicas |-> FALSE]

Exists == project # NoProject
-----------------------------------------------------------------------------
(* The API server's side of a project.                                     *)

\* The last finalizer of a deleted project takes the project with it.
Remaining(p) == IF p.deleting /\ p.finalizers = {} THEN NoProject ELSE p

\* The event filter lets changes of the generation pass (and of annotations,
\* not modelled), creations and deletions, but no changes of the status or
\* of the finalizers.
Notifies(p) ==
    \/ p = NoProject
    \/ project = NoProject
    \/ p # NoProject /\ project # NoProject /\ p.generation # project.generation

Notified(p) == [r \in Replicas |-> queued[r] \/ (r \in active /\ Notifies(p))]

\* Everybody who read the project before has an outdated resource version.
Persist(p) ==
    /\ project' = p
    /\ outdated' = [r \in Replicas |-> pc[r] # "idle"]

ByUser(p) ==
    /\ Persist(p)
    /\ queued' = Notified(p)
    /\ UNCHANGED <<usedUIDs, active, localVars, kubeVars, deployerVars>>

NewProject(uid, s) ==
    [uid |-> uid, generation |-> 1, spec |-> s, deleting |-> FALSE, finalizers |-> {},
     status |-> [observedGeneration |-> NeverObserved, state |-> ""]]
-----------------------------------------------------------------------------
(* Users.                                                                  *)
CreateProject(s) ==
    /\ ~Exists
    /\ \E uid \in Owners \ usedUIDs :
        /\ Persist(NewProject(uid, s))
        /\ queued' = Notified(NewProject(uid, s))
        /\ usedUIDs' = usedUIDs \cup {uid}
    /\ UNCHANGED <<active, localVars, kubeVars, deployerVars>>

UpdateSpec(s) ==
    /\ Exists
    /\ project.spec # s
    /\ project.generation < MaxGeneration
    /\ ByUser([project EXCEPT !.spec = s, !.generation = @ + 1])

\* The project is replaced by a manifest without the operator's finalizer
\* (kubectl replace, or an update by a client that does not read first).
ReplaceManifest(s) ==
    /\ "stripFinalizer" \in Interference
    /\ Exists
    /\ projectFinalizer \in project.finalizers
    /\ project.generation < MaxGeneration
    /\ ByUser(Remaining([project EXCEPT
            !.spec = s,
            !.generation = IF project.spec # s THEN @ + 1 ELSE @,
            !.finalizers = @ \ {projectFinalizer}]))

DeleteProject ==
    /\ Exists
    /\ ~project.deleting
    /\ ByUser(Remaining([project EXCEPT !.deleting = TRUE, !.generation = @ + 1]))

\* Others may guard the project too; the API server accepts no new finalizer
\* once the project is being deleted.
AddForeignFinalizer(f) ==
    /\ Exists
    /\ ~project.deleting
    /\ f \notin project.finalizers
    /\ ByUser([project EXCEPT !.finalizers = @ \cup {f}])

RemoveForeignFinalizer(f) ==
    /\ Exists
    /\ f \in project.finalizers
    /\ ByUser(Remaining([project EXCEPT !.finalizers = @ \ {f}]))

User ==
    \/ \E s \in Specs : CreateProject(s) \/ UpdateSpec(s) \/ ReplaceManifest(s)
    \/ DeleteProject
    \/ \E f \in ForeignFinalizers : AddForeignFinalizer(f) \/ RemoveForeignFinalizer(f)
-----------------------------------------------------------------------------
(* Reconcile.  A worker takes the request from the queue and reads the     *)
(* project.  A read that fails leaves the request to be retried and        *)
(* changes nothing, so it is not an action.                                *)
Begin(r) ==
    /\ r \in active
    /\ queued[r]
    /\ pc[r] = "idle"
    /\ queued' = [queued EXCEPT ![r] = FALSE]
    /\ UNCHANGED <<project, usedUIDs, active, outdated, err>>

\* The copy as read, with the state that Reconcile sets right away.
Go(r, step, state) ==
    /\ pc' = [pc EXCEPT ![r] = step]
    /\ snap' = [snap EXCEPT ![r] = [project EXCEPT !.status.state = state]]

ProjectNotFound(r) ==
    /\ Begin(r)
    /\ ~Exists
    /\ UNCHANGED <<pc, snap, kubeVars, deployerVars>>

\* Variant: a state that the API does not know.
FirstSeenAsNew(r) ==
    /\ Begin(r)
    /\ Exists
    /\ project.status.observedGeneration <= 0
    /\ Go(r, "status", "New")
    /\ UNCHANGED <<kubeVars, deployerVars>>

FirstSeen(r) ==
    /\ Begin(r)
    /\ Exists
    /\ project.status.observedGeneration <= 0
    /\ Go(r, "status", "Processing")
    /\ UNCHANGED <<kubeVars, deployerVars>>

Observed == Exists /\ project.status.observedGeneration > 0

FinalizerMissing(r) ==
    /\ Begin(r)
    /\ Observed
    /\ ~project.deleting
    /\ projectFinalizer \notin project.finalizers
    /\ Go(r, "addFinalizer", project.status.state)
    /\ UNCHANGED <<kubeVars, deployerVars>>

\* Variant: the objects are created without waiting for the finalizer.
ReconcileUnguarded(r) ==
    /\ Begin(r)
    /\ Observed
    /\ ~project.deleting
    /\ Go(r, "reconcile", project.status.state)
    /\ Call(r, project.uid, BuildDependentObjects(project.spec))

ReconcileDependents(r) ==
    /\ Begin(r)
    /\ Observed
    /\ ~project.deleting
    /\ projectFinalizer \in project.finalizers
    /\ Go(r, "reconcile", project.status.state)
    /\ Call(r, project.uid, BuildDependentObjects(project.spec))

\* Variant: the operator's own finalizer is not taken off the list.
DeletionBlockedByOwn(r) ==
    /\ Begin(r)
    /\ Observed
    /\ project.deleting
    /\ project.finalizers # {}
    /\ Go(r, "status", "DeletionBlocked")
    /\ UNCHANGED <<kubeVars, deployerVars>>

DeletionBlocked(r) ==
    /\ Begin(r)
    /\ Observed
    /\ project.deleting
    /\ project.finalizers \ {projectFinalizer} # {}
    /\ Go(r, "status", "DeletionBlocked")
    /\ UNCHANGED <<kubeVars, deployerVars>>

DeleteDependents(r) ==
    /\ Begin(r)
    /\ Observed
    /\ project.deleting
    /\ project.finalizers \ {projectFinalizer} = {}
    /\ Go(r, "reconcile", project.status.state)
    /\ Call(r, project.uid, Nothing)
-----------------------------------------------------------------------------
\* Updates carry the resource version that was read.
Current(r) == Exists /\ ~outdated[r]

ToStatus(r, failed) ==
    /\ pc' = [pc EXCEPT ![r] = "status"]
    /\ err' = [err EXCEPT ![r] = failed]

\* The update returns the stored object, from which the rest goes on.
AddFinalizer(r) ==
    /\ pc[r] = "addFinalizer"
    /\ Current(r)
    /\ LET p == [project EXCEPT !.finalizers = @ \cup {projectFinalizer}]
       IN  /\ project' = p
           /\ snap' = [snap EXCEPT ![r] = p]
    /\ outdated' = [q \in Replicas |-> q # r /\ pc[q] # "idle"]
    /\ ToStatus(r, FALSE)
    /\ UNCHANGED <<usedUIDs, active, queued, kubeVars, deployerVars>>

\* ReconcileObjects has returned; a deletion that is done goes on to remove
\* the finalizer.
DependentsReconciled(r) ==
    /\ pc[r] = "reconcile"
    /\ Succeeded(r)
    /\ ~(snap[r].deleting /\ ~unready[r])
    /\ snap' = [snap EXCEPT ![r].status.state =
                    IF snap[r].deleting THEN "Deleting"
                    ELSE IF unready[r] THEN "Processing" ELSE "Ready"]
    /\ ToStatus(r, FALSE)
    /\ Drop(r)
    /\ UNCHANGED <<faults, projectVars>>

\* Variant: deletions that were only triggered are taken to be done.
DependentsTriggered(r) ==
    /\ pc[r] = "reconcile"
    /\ Succeeded(r)
    /\ snap[r].deleting
    /\ pc' = [pc EXCEPT ![r] = "removeFinalizer"]
    /\ Drop(r)
    /\ UNCHANGED <<faults, projectVars, snap, err>>

DependentsGone(r) ==
    /\ pc[r] = "reconcile"
    /\ Succeeded(r)
    /\ snap[r].deleting
    /\ ~unready[r]
    /\ pc' = [pc EXCEPT ![r] = "removeFinalizer"]
    /\ Drop(r)
    /\ UNCHANGED <<faults, projectVars, snap, err>>

ReconcileFailed(r) ==
    /\ pc[r] = "reconcile"
    /\ Failed(r)
    /\ ToStatus(r, TRUE)
    /\ Drop(r)
    /\ UNCHANGED <<faults, projectVars, snap>>

\* Reconcile returns; what it did not requeue is forgotten.
Finish(r) ==
    /\ pc' = [pc EXCEPT ![r] = "idle"]
    /\ snap' = [snap EXCEPT ![r] = NoProject]
    /\ err' = [err EXCEPT ![r] = FALSE]

WithoutFinalizer == Remaining([project EXCEPT !.finalizers = @ \ {projectFinalizer}])

\* No status update and no requeue: the project is gone.
RemoveFinalizer(r) ==
    /\ pc[r] = "removeFinalizer"
    /\ Current(r)
    /\ project' = WithoutFinalizer
    /\ outdated' = [q \in Replicas |-> q # r /\ pc[q] # "idle"]
    /\ queued' = Notified(WithoutFinalizer)
    /\ Finish(r)
    /\ UNCHANGED <<usedUIDs, active, kubeVars, deployerVars>>

\* Conflict, or the project is gone: the error goes to the status update.
FinalizerConflict(r) ==
    /\ pc[r] \in {"addFinalizer", "removeFinalizer"}
    /\ ~Current(r)
    /\ ToStatus(r, TRUE)
    /\ UNCHANGED <<projectVars, snap, kubeVars, deployerVars>>

\* The update failed, or it was carried out and its answer got lost.
FinalizerCallFails(r) ==
    /\ pc[r] \in {"addFinalizer", "removeFinalizer"}
    /\ Fault
    /\ ToStatus(r, TRUE)
    /\ UNCHANGED <<projectVars, snap, cluster, listed, stale, deployerVars>>

FinalizerAnswerLost(r) ==
    /\ Current(r)
    /\ \/ /\ pc[r] = "addFinalizer"
          /\ Persist([project EXCEPT !.finalizers = @ \cup {projectFinalizer}])
          /\ UNCHANGED queued
       \/ /\ pc[r] = "removeFinalizer"
          /\ Persist(WithoutFinalizer)
          /\ queued' = Notified(WithoutFinalizer)
    /\ Fault
    /\ ToStatus(r, TRUE)
    /\ UNCHANGED <<usedUIDs, active, snap, cluster, listed, stale, deployerVars>>
-----------------------------------------------------------------------------
(* The deferred function.  All results that come with a status update ask  *)
(* for another round (Requeue, RequeueAfter or an error), whatever becomes *)
(* of the update.                                                          *)
\* Variant: the result does not ask for another round.
FinishOnly(r) ==
    /\ Finish(r)
    /\ UNCHANGED <<queued, usedUIDs, active, cluster, listed, stale, deployerVars>>

RequeueAndFinish(r) ==
    /\ queued' = [queued EXCEPT ![r] = TRUE]
    /\ Finish(r)
    /\ UNCHANGED <<usedUIDs, active, cluster, listed, stale, deployerVars>>

ReportedStatus(r) ==
    [observedGeneration |-> snap[r].generation,
     state |-> IF err[r] THEN "Error" ELSE snap[r].status.state]

\* Variant: the status is written whatever the version of the project.
WriteStatusAnyVersion(r) ==
    /\ pc[r] = "status"
    /\ Exists
    /\ project' = [project EXCEPT !.status = ReportedStatus(r)]
    /\ outdated' = [q \in Replicas |-> q # r /\ pc[q] # "idle"]

WriteStatus(r) ==
    /\ pc[r] = "status"
    /\ Current(r)
    /\ project' = [project EXCEPT !.status = ReportedStatus(r)]
    /\ outdated' = [q \in Replicas |-> q # r /\ pc[q] # "idle"]

UpdateStatus(r) == WriteStatus(r) /\ RequeueAndFinish(r) /\ UNCHANGED faults

\* Variant: a conflict is ignored, the event of the other write will do.
StatusConflictIgnored(r) ==
    /\ pc[r] = "status"
    /\ ~Current(r)
    /\ outdated' = [outdated EXCEPT ![r] = FALSE]
    /\ FinishOnly(r)
    /\ UNCHANGED <<project, faults>>

StatusConflict(r) ==
    /\ pc[r] = "status"
    /\ ~Current(r)
    /\ outdated' = [outdated EXCEPT ![r] = FALSE]
    /\ RequeueAndFinish(r)
    /\ UNCHANGED <<project, faults>>

\* A failing update; one whose answer got lost ends as UpdateStatus does.
StatusCallFails(r) ==
    /\ pc[r] = "status"
    /\ Fault
    /\ outdated' = [outdated EXCEPT ![r] = FALSE]
    /\ RequeueAndFinish(r)
    /\ UNCHANGED project
-----------------------------------------------------------------------------
(* Processes.  With leader election a replica only starts to work when no  *)
(* other one does; its first list puts an existing project into the queue. *)
Start(r) ==
    /\ r \notin active
    /\ LeaderElect => active = {}
    /\ active' = active \cup {r}
    /\ queued' = [queued EXCEPT ![r] = Exists]
    /\ UNCHANGED <<project, usedUIDs, outdated, localVars, kubeVars, deployerVars>>

Crash(r) ==
    /\ r \in active
    /\ Fault
    /\ active' = active \ {r}
    /\ queued' = [queued EXCEPT ![r] = FALSE]
    /\ outdated' = [outdated EXCEPT ![r] = FALSE]
    /\ Finish(r)
    /\ Drop(r)
    /\ UNCHANGED <<project, usedUIDs>>

Work(r) ==
    \/ ProjectNotFound(r)
    \/ FirstSeen(r)
    \/ FinalizerMissing(r)
    \/ ReconcileDependents(r)
    \/ DeletionBlocked(r)
    \/ DeleteDependents(r)
    \/ DeployerStep(r) /\ UNCHANGED controllerVars
    \/ AddFinalizer(r)
    \/ DependentsReconciled(r)
    \/ DependentsGone(r)
    \/ ReconcileFailed(r)
    \/ RemoveFinalizer(r)
    \/ FinalizerConflict(r)
    \/ UpdateStatus(r)
    \/ StatusConflict(r)

Trouble(r) ==
    \/ DeployerFault(r) /\ UNCHANGED controllerVars
    \/ FinalizerCallFails(r)
    \/ FinalizerAnswerLost(r)
    \/ StatusCallFails(r)
    \/ Crash(r)

Next ==
    \/ User
    \/ \E r \in Replicas : Work(r) \/ Trouble(r) \/ Start(r)
    \/ Environment /\ UNCHANGED controllerVars

Spec == Init /\ [][Next]_vars

\* The scheduling the code can rely on: a worker takes what is in its queue,
\* an API call returns, the namespace controller does its work, and somebody
\* starts an operator that is not running.  (Users and faults: no fairness.)
Fairness ==
    /\ \A r \in Replicas : WF_vars(Work(r)) /\ WF_vars(Start(r))
    /\ WF_vars(NamespaceController /\ UNCHANGED <<deployerVars, controllerVars>>)

FairSpec == Spec /\ Fairness
-----------------------------------------------------------------------------
(***************************************************************************)
(* Properties.                                                             *)
(***************************************************************************)

\* As long as an object carries the UID of a project, that project exists
\* and is held by the operator's finalizer: no object outlives its project
\* and none is created that a deletion would not find (lines 153-161, 189-206).
FinalizerProtects ==
    \A k \in Keys, o \in Owners :
        Owned(k, o) => /\ Exists
                       /\ project.uid = o
                       /\ projectFinalizer \in project.finalizers

\* The life of the project as ProjectLifecycle describes it.
Lifecycle == INSTANCE ProjectLifecycle WITH
    UIDs    <- Owners,
    Names   <- Keys,
    NoUID   <- NoOwner,
    alive   <- IF Exists THEN project.uid ELSE NoOwner,
    past    <- usedUIDs,
    guarded <- Exists /\ projectFinalizer \in project.finalizers,
    objects <- {k \in Keys : \E o \in Owners : Owned(k, o)}

\* The reconciler implements it: objects of a project come and go only under
\* the finalizer, which is given up, with the project, when all are gone
\* (project_controller.go, lines 151-206).
ImplementsLifecycle == Lifecycle!LifecycleSpec

\* The cluster has the objects of p's spec, and no others, for p.
Deployed(p) ==
    \A k \in Keys :
        LET content == BuildDependentObjects(p.spec)[k]
        IN  IF content = Absent
            THEN ~Owned(k, p.uid)
            ELSE cluster[k] = [owner |-> p.uid, digest |-> content,
                               drifted |-> FALSE, terminating |-> FALSE]

IsReady == /\ project.status.state = "Ready"
           /\ project.status.observedGeneration = project.generation

\* A project that is Ready for its current generation (what a client waits
\* for) has exactly the objects of its spec.
ReadyMeansDeployed == Exists /\ IsReady => Deployed(project)

\* A status is only ever written for the generation the project has at that
\* moment: one computed from an older spec does not replace a newer one.
StatusDescribesGeneration ==
    [][ /\ Exists /\ project' # NoProject
        /\ project'.uid = project.uid
        /\ project'.status # project.status
        => project'.status.observedGeneration = project.generation ]_vars

\* The status update of the operator does not trigger an event, so each
\* result must ask for another round: no running replica forgets a project.
NeverForgotten ==
    Exists => \A r \in active : queued[r] \/ pc[r] # "idle"

BeingDeleted(o) == Exists /\ project.uid = o /\ project.deleting

\* Once nobody else holds a deleted project, it goes away.
DeletionCompletes ==
    \A o \in Owners :
        BeingDeleted(o) /\ project.finalizers \cap ForeignFinalizers = {}
            ~> ~BeingDeleted(o)

\* Role bindings of a project are in the namespace that was created for it.
BindingsInOwnNamespace ==
    \A k \in Keys, o \in Owners :
        KindOf[k] = "RoleBinding" /\ Owned(k, o) => Owned("namespace", o)

\* The users leave the project alone at last, and keep it.
KeptForGood == <>[][~User]_vars /\ <>[](Exists /\ ~project.deleting)

\* A project that is kept becomes Ready with its objects deployed, and stays so,
\* through crashes, failing calls and deletions of its objects by others.
EventuallyReady ==
    KeptForGood => <>[](Exists /\ IsReady /\ Deployed(project))

\* The objects of a project are maintained: they do not stay changed by others.
DriftRepaired == KeptForGood => <>[](Exists /\ Deployed(project))
=============================================================================
