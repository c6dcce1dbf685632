# Verification of project-operator

This directory holds TLA+ specifications of project-operator, the TLC
configurations that model-check them and TLAPS proofs about them. Paths are
relative to the repository root; line numbers in comments of the modules refer
to the file that the module's header names.

    tlc -config ControllerSafety.cfg MCProjectController.tla
    tlapm Lifecycle_proofs.tla

## The system

A `Project` is a cluster-scoped Kubernetes resource. For each one the operator
maintains a namespace, up to two role bindings in it (`project:admin`,
`project:viewer`) and, optionally, a cluster role binding
(`project:<name>:view`), and removes them when the project is deleted.

| Part | Source | State | Operations | What makes it correct |
|---|---|---|---|---|
| Deployer | `internal/deployer` | none between calls; in a call the worklist, as listed | `ReconcileObjects`: three lists, then one create, delete or update per object | touches only objects of its owner; answers `true` only if everything is as wanted |
| Dependent objects | `controllers/project_controller.go:224-321` | none | `buildDependentObjects` | right subjects; an edit changes only what it concerns |
| Reconciler | `controllers/project_controller.go:73-222` | work queue; in a call the project as read | `Reconcile`: first status, finalizer, deployment or deletion, deferred status update | no object outlives its project; Ready means deployed; nothing is forgotten; deletions complete |
| Webhook | `webhooks/project_webhook.go` | none between calls | `ValidateCreate`, `ValidateUpdate`, `ValidateDelete`, subject access review | only the entitled change a project; never in the operator's way |
| Process | `main.go` | how far setup has come; the lease | flags to exit code, leader election | one leader, if asked for; somebody leads; a stop ends |
| API types | `api/v1alpha1/project_types.go` | status, conditions | `SetCondition`, `SetReadyCondition` | transition times change with the condition's status |
| Deep copies | `api/v1alpha1/zz_generated.deepcopy.go` | memory behind projects | `DeepCopy`, `DeepCopyInto` | copies share nothing |
| Metrics | `internal/metrics`, deferred function of `Reconcile` | series per project name | set, increase, delete | expired projects are reported; series live as long as the project |
| Informer factory | `pkg/client/informers` (generated) | mutex, informers, which were started, wait group | `InformerFor`, `Start`, `Shutdown`, `WaitForCacheSync` | one informer per type, which runs once, and not after shutdown |
| Clientset, listers | `pkg/client` (generated) | none | forward calls | |

They interact through the API server only. The reconciler calls the deployer
within a `Reconcile`; the process runs the reconciler's one worker and the
webhook; the API server calls the webhook for every write of a project, the
reconciler's included; users, the namespace controller and other clients change
the same objects at any time. What is hard is that every decision rests on
something read some API calls ago, that a call may fail after it took effect,
that a process may end anywhere, and that, leader election being off by
default, two replicas may do all this at once. The informer factory is for
other programs that use projects: there the goroutines of one process interact
through a mutex, a wait group and the objects in the store of an informer.

## Modules

| Module | What it models |
|---|---|
| `ObjectKeys` | the names and kinds of dependent objects |
| `KubeAPI` | external: the API server as the deployer uses it, the namespace controller, other clients |
| `Deployer` | `ReconcileObjects`, with any callers |
| `DependentObjects` | `buildDependentObjects` |
| `ProjectLifecycle` | abstract: what the operator promises about the life of a project |
| `ProjectController` | `Reconcile`, work queue, processes, users; composes the modules above |
| `ProjectWebhook` | admission of overlapping requests |
| `ProjectStatus` | states, conditions, `SetCondition` (operators) |
| `ProjectMetrics` | the deferred function of `Reconcile` over the life of a project, its TTL and the time |
| `OperatorProcess` | `main` in each replica, and the lease between them |
| `InformerLifecycle` | abstract: what a `SharedInformerFactory` promises |
| `SharedInformerFactory` | its methods, called by several goroutines |
| `ProjectValues` | abstract: projects are values |
| `ProjectCopies` | deep copies down to the memory they allocate |
| `MC...` | instances for TLC |
| `..._proofs` | theorems |

Definitions called *Variant* in a comment are deliberate mistakes, each put in
the place of the definition that follows it to see that the properties notice
(`mutants` in `PROJECT.json`); no specification uses them.

**KubeAPI.** `cluster` has the stored objects of one project name, reduced to
what the code tells apart: owner label, digest annotation, whether the content
still is what the digest was computed from, and whether deletion has begun.
Resource versions are reduced to the one question asked of them, whether the
object was written since a replica listed it (`stale`). A namespace is deleted
in two steps, its content first, by the namespace controller.

**Deployer.** A call goes from `Call` through one `List` per kind to the loop,
in which `ApplyObject` or `CheckStatus` takes any remaining key (Go visits a map
in any order), to `Succeeded` or `Failed`. Each API call is a step of its own,
so that others act between any two. A write has three outcomes: done, not done
with an error (ignored where the code ignores NotFound), done with the answer
lost. The digest is a hash of the object's JSON; it is taken to be injective, so
the content itself stands for it.

**ProjectController.** `pc` cuts `Reconcile` at its API calls: after the get
(`Begin` with one action per branch), at the finalizer updates, in the deployer,
and at the status update. `snap` is the local variable `project`, `outdated`
says whether its resource version is. `Notifies` is the event filter: creations,
deletions and changes of the generation reach the queues, changes of status and
finalizers do not. A queue holds the project or not, which is what a work queue
with one key does; when a delayed request is due is not modelled, it may be at
once. A get that fails leaves everything to be retried and is no action.

**ProjectWebhook.** Each user has at most one request under way. `stage` goes
from `admission` through `review`, where a subject access review is needed, to
an answer. `old` is the object of the admission request; what was admitted
against another version than the stored one does not take effect.

**ProjectLifecycle.** Four actions: a project is created when no object of an
earlier one is left, gets guarded, has objects come and go while it is, and ends
when none is left. `ProjectController` implements it with `alive`, `past`,
`guarded` and `objects` read off the stored project and its objects.

**ProjectMetrics.** One process, one project name. `local` is the variable
`project` of `Reconcile`, which differs from the stored one after a failed
update of the finalizers; `startedAt` is its `now`. A reconciliation begins
(`Begin`), reads the project (`Get`, `NotFound`, or `GetFails`, which returns
before the deferred function is registered and so leaves the series alone) and
has one of the outcomes that `ProjectController` shows it to have: what the
deployer does, and whether others hold a finalizer, is left open. The updates of
the finalizers and of the status may be done, fail, or be done with the answer
lost. Time goes in ticks, several to a second. A tick may not pass over a
request that is due, nor prolong a reconciliation beyond `Latency`. The request
comes back after the delay that Reconcile asked for (`RequeueAfter`, the ten
minutes; `RequeueBlocked`, ten seconds; one second) or, after an error and with
`Requeue`, after any delay up to `MaxBackoff`: the limiter of controller-runtime
doubles it from 5 ms to 1000 s, which is longer than the ten minutes. So the
properties about time say how late or early a gauge may be in terms of `Latency`,
of the longest of these delays, of half a second for the rounding, and of the
backoff after a read that failed.

**OperatorProcess.** `Setup` lists the steps of `main` that may end it with exit
code 1. The lease is client-go's: a candidate takes it when nobody has it or
when it has not seen it change for `LeaseDuration`; the holder must renew it
within `RenewDeadline` or its process ends at once; each write makes the others
look again. Told to stop, a manager first waits for its reconciler, then
releases the lease. `OneActive` justifies the guard of `Start` in
`ProjectController`: a replica starts only when no other one reconciles.

**SharedInformerFactory.** A critical section is one step, unless it reads and
later writes (`InformerFor`: look-up and assignment; `StartWithContext`: one
step per informer); `lock` then tells that others have to wait. `wg.Wait`,
`cache.WaitFor` and the loop that asks each informer again are outside the
mutex. `run` says with which context an informer runs. `handed` and the field
`before` only record history. The refinement reads the stage of each type's
informer off `informers` and `run`.

**ProjectCopies.** A project is a function from its reference fields to
references, `memory` has what they refer to. Each deep copy allocates cells
named after its place, as the generated code does field by field, and `Drop`
frees memory that nobody reaches, so that stale references would show. Users
edit through what `DeepCopyInto` copied, `SetCondition` in place. `Values` reads
a list of projects as the values of `ProjectValues`, where a copy equals its
original and an edit changes one project of one holder.

## What is checked

| Run | Question | Bounds |
|---|---|---|
| `dependent_objects` | Are the subjects right for every spec? | four lists of up to two names, two labels |
| `controller_safety` | No orphans, Ready means deployed, nothing forgotten, and the life of a project | two replicas, two projects of the name, two specs, two faults, one spec update and a deletion for each, a foreign finalizer |
| `controller_interference` | Does the reconciler leave alone what others took away from the project? | one replica, two projects, every kind of interference, one fault |
| `two_leaders_progress` | Can two replicas overwrite each other's status wrongly, and do they get anywhere? | two replicas without leader election, one spec, a deletion |
| `controller_liveness` | Do deletions complete, do projects become Ready? | one replica, two faults or deletions by others, a foreign finalizer |
| `webhook` | Who changes a project, and is the operator ever denied? | two persons and the operator, four manifests |
| `factory` | Do informers start once and stop before `Shutdown` returns, are sync results right, do the blocking calls return? | two types, two informers, two goroutines, one context |
| `metrics` | Is expiry reported in time and not too early, do series end with their project, is the time of transitions kept? | seven ticks, three to a second, TTLs of one second, of minus one tick, none and one that cannot be parsed, two projects of the name, one fault |
| `leader_election` | One active replica, and always one again? | three replicas, lease of two ticks, renewed within one |
| `deep_copies` | Do copies share memory? | two stored objects, two goroutines, lists of two, one edit |

A fault is a crash, a failing call, a lost answer or one action of another
client. Two specs differ so that an update of the namespace, the replacement of
a role binding and the creation or deletion of another one all occur. Two
projects of one name are needed for a leftover of the first to meet the second.
Two faults suffice for a lost answer followed by a crash. Where a run counts
`MaxGeneration` it bounds the users' changes; deletions are always possible.

The two leaders have one spec, as liveness has to be checked without symmetry;
with updates of the spec their statuses are the subject of a proof
(`StatusIsForGeneration`). Two goroutines are enough for one to be between any
two steps of the other; two types let an informer be started, or have synced,
while the other is not, and the second informer is the one too many that a race
would create. Expiry is late or early by rounding, by a reconciliation that was
begun before, by one that is due, and by the backoff after a read that failed. With
three ticks to a second rounding goes up and down; the TTL of minus one tick is
one that rounds to no second at all, with which a new project has expired at once.
The delays of `RequeueAfter` and of one second are the same in this run
(three ticks), the backoff may be longer by one (four), as 1000 s is longer than
ten minutes. Half a second, the longest delay and two reconciliations take seven
ticks, so that at the last one a project that was created at the first with the
negative TTL must be reported as expired. `MCView` leaves out of the comparison of
states what no later step and no property can tell apart. Three replicas are a leader, its
successor and one that looks at the lease in between. One edit after any number
of copies, of copies of lists and of memory used again is enough to be seen by
another holder if any memory is shared, and `NoSharing` asks for that directly.

`CHECK_DEADLOCK` is off for the reconciler and for the metrics: the clock and
the projects are bounded, so after the last one the operator has nothing left to
do, as it would in a cluster without projects.

Two runs show that the code does not do what it or its documentation says:

* `finalizer_stripped`: a project that lost the operator's finalizer along with
  an update of the spec is reported Ready for the new generation before
  anything was deployed. The deferred function always writes the generation
  read, also where Reconcile only added the finalizer and kept the old state.
* `namespace_rights`: the right to update the namespace does not give the right
  to update the project, as the review asks for the verb `PUT`.

Further disagreements have a configuration but are not part of the runs; TLC
finds each of these in seconds:

* `ForeignNamespace.cfg`: if the project's namespace exists and belongs to
  somebody else, role bindings may be created in it, depending on the map's order
  (`BindingsInOwnNamespace`).
* `DriftIgnored.cfg`: edits that keep the digest annotation are never repaired
  (`DriftRepaired`).
* `ErrorsKept.cfg`: when the update that removes the finalizer fails, all series
  of the project are deleted although it still exists, and its counter of errors,
  by its help text the total per project (`project_metrics.go:18`), starts again
  (`ErrorsKept`).
* `LastTransition.cfg`: with a TTL that cannot be parsed, the condition is set
  twice in each reconciliation, and its transition time, by its comment that of
  the last change (`project_types.go:49`), moves though the stored status stays
  (`LastTransition`). The webhook keeps such a TTL out (`TTLParseable`) of
  projects that were stored while it was there.

One more configuration passes: with `FactoryContexts.cfg` the informer that
`WaitForCacheSync` waits for may have been stopped by another context than its
own; it has one type, where the run `factory` has two and one context.

And three can be read off the code: the counter of reconciliation errors misses
those whose only error is the failing update of the status, or a TTL that cannot
be parsed (`project_controller.go:97` and `:135`); a project without a TTL
counts as not expired (`:117`), where the help text of the metric says it would
be expired (`project_metrics.go:46`); and a project that its user deletes before
the operator has guarded it is only ever seen as not found (`:82`), so that its
series stay until a project of its name is let go or the process ends.

### Fairness

`Fairness` in `ProjectController` is weak fairness of each replica's `Work`, of
starting a replica, and of the namespace controller. A controller's worker takes
what is in its queue and returns from API calls, which time out; retries and
delayed requests come back to the queue; a Deployment starts the operator again;
the namespace controller is part of Kubernetes. Users, failures, other clients
and the removal of foreign finalizers are not assumed to happen. Faults are
finitely many by `MaxFaults`: with failing calls for ever nothing would
complete. `EventuallyReady` speaks of projects that users leave alone from some
point on.

`OperatorProcess` assumes that time passes, that candidates try again and again
(client-go retries every two seconds), that a holder which cannot renew notices,
and that a manager which is told to stop does. Nothing is assumed about starts,
renewals and crashes: `SomebodyLeads` only speaks of behaviours in which some
process runs on for good. `SharedInformerFactory` has strong fairness of each
call's own steps, as Go's mutex is granted in the end to who waits for it, and
weak fairness of informers that stop once their context is cancelled; no caller
has to call, no context to be cancelled, no informer to sync. The metrics have
no liveness property: that something happens in time is an invariant there.

## What is proved

All proofs are for any number of replicas, UIDs, specs, faults and bounds. Every
invariant and every action property of the runs, and each refinement, is a
theorem; the assumptions about the constants are those of the modules, and what
else a theorem assumes is in its statement.

**`ProjectController_proofs`**: the deployer, and the operator with or without
leader election.

* `DeployerTypes` and `OwnObjects`. The invariant `ListedIsCurrent` says what a
  list is worth: it has objects of the caller only, and shows each as it is until
  it is marked stale. A write has the listed version as precondition, so what it
  changes is what was listed.
* `OperatorOwnObjects`. The reconciler is composed of the deployer's own actions
  (the lemma `UsesDeployer` only spells that out), so what is proved of the
  deployer with any callers holds of it. `TypeCorrect` is the type invariant.
* `NothingForgotten` and `StatusIsForGeneration`. A request is taken from the
  queue only for a round of work, and every way out of it asks for another one
  unless the project is gone; a status is written only if the project has the
  version that was read, so the generation read is the stored one.

**`Lifecycle_proofs`**: the operator under leader election.

* `NoOrphans`, if nobody strips the finalizer. `FinalizerProtects` is not
  inductive. What it needs: the project of a running call stays and stays
  guarded (`GuardedCalls`), since only the one leader gives up the finalizer;
  and in a deletion call what was not found when listing is not there later
  either, and what was found keeps the call from answering `true`
  (`DeletionCalls`), hence nothing is left when the finalizer goes
  (`NothingLeft`). Without leader election this breaks: a second replica with an
  older copy may create an object after the first one listed.
* `RefinesLifecycle`, the reconciler implements `ProjectLifecycle`, from the same
  assumptions. A step keeps the project, writes it without taking its guard,
  ends or creates it; what may happen to its objects meanwhile follows from
  `FinalizerProtects` before and after the step. That the finalizer which is
  given up is the last one comes from the invariant of `NothingForgotten`.
* `ReadyIsDeployed`, if others do no more to the objects than create some. The
  status says Ready because of what one call of the deployer found, so the
  invariant says what such a call is worth while it runs: as long as it has found
  nothing unready it has written nothing, so its list is still right, and
  everything it has visited is as wanted (`CleanCall`). Nobody undoes it before
  the status is written or later: objects stay as they were written, and only a
  call that deletes the project makes something terminate (`ObjectsIntact`); a
  call that runs while the project is Ready wants what is there (`ReadyInSync`).
  With edits or deletions by others Ready is out of date until the next
  reconciliation, so the restriction is necessary; so is the finalizer, as
  `finalizer_stripped` shows.

**`DependentObjects_proofs`**: `UniqKeepsFirsts`, `ViewCoversBindings`,
`ViewIsInOrder` and `EditsAreSeen`, for lists of any length. `Uniq` is a recursive
function, and the library's induction theorems have an operator as parameter,
which the provers cannot instantiate. `SetInduction` says the same of a set of
numbers and follows from `WFMin`: what is missing from the set has a least
element. With it the loop is shown to be defined (`LoopEnds`), and to keep the
first occurrences in their order (`FirstsOf`), turn by turn.

**`ProjectWebhook_proofs`**: `EntitledChanges`, `TTLAlwaysParseable`,
`OperatorNeverDenied` and `WebhookTypeCorrect`, from one invariant: a request that
is not outdated was admitted against the stored project, what was allowed is
valid, and the operator's requests never reach a review.

**`ProjectMetrics_proofs`**: `ExpiryIsReported`, `ExpiryIsNotEarly`,
`SeriesIsEnded`, `TransitionTimeIsKept` and `MetricsTypeCorrect`, for any TTLs,
negative ones included, any delays and backoffs, any annotations and any faults.
That a gauge is right by a certain time is not inductive; the invariant says why
it will be. A reconciliation works on what is stored, or its next request is due
(`FreshOrDue`). An expired gauge is right, or is from before the last change and
the reconciliation that corrects it is due or running shortly after the change,
or after the backoff of a read that failed since (`ToBeCorrected`, `Shortly`). An
expired project is reported, or for each moment at which the last reconciliation
may have found it not yet expired (`LastMoment`) the next one comes in time, the
backoff of a failed read included (`DueBy`, `NextAfter`). The arithmetic of
rounding, timestamps and deadlines is in lemmas. For `TransitionTimeIsKept`: the
condition that a reconciliation is going to write follows the stored one, unless
its TTL cannot be parsed (`ConditionsFollow`), and a status is stored by the
update at the end of `Reconcile` alone (`StoredByUpdate`). `SeriesIsEnded` leaves
out the projects that their user ended before they were guarded.

**`OperatorProcess_proofs`**: `AtMostOneActive` and `TypeCorrect`. The invariant
relates ages: a candidate that has looked at the lease saw it change no longer
ago than its holder renewed it, and the holder ends before its `RenewDeadline`,
which is shorter than `LeaseDuration`.

**`SharedInformerFactory_proofs`**: `OneInformer`, `ShutdownIsFinal`, `SyncResult`,
`FailureIsExplained`, `TypeCorrect` and the refinement `RefinesLifecycle`. The
invariant says who holds the lock in which step, that the wait group counts the
running informers (by their cardinality), that an informer belongs to one type,
and what a waiting call knows.

**`ProjectCopies_proofs`**: `NothingShared`, `CopiesTypeCorrect` and
`CopiesAreValues`, the refinement of `ProjectValues`. That nothing is shared says
too little of what a copy allocates next to it; the invariant `OwnMemory` says
that all a project refers to was allocated for its place in its holder's list and
is there. So a copy, which allocates for places that were empty, spares everybody
else's memory (`OthersSpared`), and an edit in place is seen at one place only
(`EditOwns`, `EditPasses`).

Assumptions on constants are in `KubeAssumption`, `DeployerAssumption`,
`ControllerAssumption`, `ProjectAssumption`, `OptionsAssumption`,
`AbsentAssumption`, `EditAssumption`, `WebhookAssumption`, `ElectionAssumption`,
`FactoryAssumption`, `MetricsAssumption`, `ValuesAssumption`, `CopiesAssumption`
and `NilAssumption`: sentinels are not values (no object is not a binding, nil is
not a reference), names are strings, bounds are numbers, the renew deadline is
shorter than the lease, lists may have an item, and `Wants` covers what
`BuildDependentObjects` returns, which includes a namespace for every spec. TLC
evaluates each of them.

Only model-checked: the liveness properties (`DeletionCompletes`,
`EventuallyReady`, `ShutdownReturns`, `WaitForCacheSyncReturns`, `SomebodyLeads`,
`StopEnds`): fairness and ENABLED are out of the prover's reach.

## What is not modelled, and what the results rest on

* Leader election in `ProjectController` is ideal: one leader at most, which
  `AtMostOneActive` shows for processes that are never suspended longer than the
  lease allows. A leader that lost its lease without noticing is the situation
  of the run `two_leaders_progress`.
* `ProjectMetrics` has one process, no foreign finalizers on projects that are
  not guarded yet, and users who set TTLs; what the deployer does is a choice, and
  so is the delay of the rate limiter, which is only known to be at most the
  longest. That a reconciliation begins when it is due and ends within `Latency`
  is assumed: the worker is not busy with other projects for long.
* Reads are as fresh as the API server: the manager's cache is disabled for
  projects, and the deployer's objects are unstructured, which are not cached.
* Projects that were stored while the webhook was not installed: the webhook
  run starts without a project.
* Informers, work queues, the elector and the API server are external: modelled
  as the code in this repository uses them.
* The generated clientset and its fake, which keep no state and forward each
  call; selectors and namespaces of the listers; options and namespaced variants
  of the informer factory, which configure it before it is used.
* The parsing of flags and addresses (that it may fail is modelled), logging,
  the answers of health checks, messages of conditions; `mustGVKForObject`,
  which looks up three built-in kinds at start-up.

## Plan

1. `ObjectKeys`, `KubeAPI`, `Deployer`, `DependentObjects`, `ProjectLifecycle`,
   `ProjectController`, their runs, and the proofs of types, of `OwnObjects`
   and of `NoOrphans` (done).
2. `ProjectWebhook` with its proofs (done).
3. `ProjectStatus`, `ProjectMetrics`, `SharedInformerFactory` with its
   refinement and proofs, `OperatorProcess` with its proofs, `ProjectCopies`, and
   the proofs of `NeverForgotten`, of `StatusDescribesGeneration` and of the
   refinement of `ProjectLifecycle` (done).
4. The proofs of `ReadyMeansDeployed`, of all that is checked of the metrics, of
   the deep copies and their refinement, and of `DependentObjects` (done).
5. Left: every invariant, action property and refinement that the runs check is
   a theorem. What could be weakened is the hypothesis of `ReadyIsDeployed`: where
   others edit or delete objects, Ready should hold again after the next
   reconciliation.
