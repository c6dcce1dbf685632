--------------------------- MODULE ProjectMetrics ---------------------------
(***************************************************************************)
(* What the operator tells of a project: the series of its metrics         *)
(* (internal/metrics, set by the deferred function of Reconcile in         *)
(* controllers/project_controller.go) and the Ready condition, over the    *)
(* project's life, its TTL and the time.                                   *)
(*                                                                         *)
(* What Reconcile does to the dependent objects is in ProjectController;   *)
(* here a reconciliation has one of its outcomes.  A project is reconciled *)
(* by one process, which may restart.  Time is counted in ticks; Reconcile *)
(* takes at most Latency, begins when it is due, and comes back after the  *)
(* delay it asked for, or, after errors and if it asked for no particular  *)
(* one, after some delay of the work queue's rate limiter.                 *)
(***************************************************************************)
EXTENDS Integers, ProjectStatus

CONSTANTS
    TTLs,           \* the TTLs that can be parsed, in ticks
    Invalid,        \* an annotation that cannot be parsed
    NoTTL,          \* no annotation
    Annotations,    \* the annotations that users set
    Second,         \* ticks per second
    Latency,        \* bound on the duration of a reconciliation
    RequeueAfter,   \* the ten minutes between reconciliations
    RequeueBlocked, \* the ten seconds between looks at a blocked deletion
    MaxBackoff,     \* the longest delay of the rate limiter, a thousand seconds
    MaxTime,        \* bound on the clock
    MaxFaults,      \* bound on failing calls and restarts
    MaxErrors,      \* where the counter of errors stops
    MaxProjects,    \* bound on the projects of the name, one after the other
    NoProject, Absent

ASSUME MetricsAssumption ==
    /\ TTLs \subseteq Int
    /\ Annotations \subseteq TTLs \cup {Invalid, NoTTL}
    /\ {Second, Latency} \subseteq Nat \ {0}
    /\ {RequeueAfter, RequeueBlocked, MaxBackoff} \subseteq Nat
    /\ Second <= RequeueAfter /\ RequeueBlocked <= RequeueAfter
    /\ {MaxTime, MaxFaults, MaxErrors, MaxProjects} \subseteq Nat

VARIABLES
    now,
    project,        \* the stored project
    created,        \* how many projects there were (bound)
    changedAt,      \* when its TTL was last set or the process started (history)
    due,            \* when its request is due in the work queue
    pc,             \* where Reconcile is
    local,          \* the variable "project" of Reconcile
    startedAt,      \* the variable "now" of Reconcile
    outdated,       \* the project was written since it was read
    result,         \* the results of Reconcile: the delays it may come back after
    errors,         \* the series project_reconcile_errors_total
    gauges,         \* the other series of the project
    faults,         \* how many faults there were (bound)
    endedBy,        \* who took the last project away (history)
    missedAt        \* when a read failed last, -1 if none did (history)

storedVars == <<project, created, changedAt, endedBy>>
localVars == <<pc, local, startedAt, result>>
vars == <<now, storedVars, due, localVars, outdated, errors, gauges, faults, missedAt>>

\* The longest time until a request comes back, and one that it never takes.
Longest == IF RequeueAfter >= MaxBackoff THEN RequeueAfter ELSE MaxBackoff

Never == MaxTime + Longest + 1

\* After an error, and with Requeue: the delay grows from 5 ms up.
RateLimited == 0..MaxBackoff

Projects ==
    [creationTimestamp : Nat, ttl : Annotations, deleting : BOOLEAN, guarded : BOOLEAN,
     status : [observed : BOOLEAN, state : States, conditions : Seq(Conditions(Nat))]]

Gauges == [initial : Int, remaining : Int, expired : 0..1, created : Nat]

ASSUME ValuesAssumption ==
    /\ NoProject \notin Projects
    /\ Absent \notin Nat \cup Gauges
    /\ {Invalid, NoTTL} \cap TTLs = {}

TypeOK ==
    /\ {now, created, changedAt, due, startedAt, faults} \subseteq Nat
    /\ result \subseteq Nat
    /\ missedAt \in Int
    /\ project \in Projects \cup {NoProject}
    /\ pc \in {"idle", "get", "reconcile", "status"}
    /\ local \in Projects \cup {NoProject}
    /\ outdated \in BOOLEAN
    /\ errors \in Nat \cup {Absent}
    /\ gauges \in Gauges \cup {Absent}
    /\ endedBy \in {"nobody", "operator", "user"}

Init ==
    /\ now = 0
    /\ project = NoProject
    /\ created = 0
    /\ changedAt = 0
    /\ due = Never
    /\ pc = "idle"
    /\ local = NoProject
    /\ startedAt = 0
    /\ outdated = FALSE
    /\ result = {}
    /\ errors = Absent
    /\ gauges = Absent
    /\ faults = 0
    /\ endedBy = "nobody"
    /\ missedAt = -1

Exists == project # NoProject

Total == IF errors = Absent THEN 0 ELSE errors

Least(s, t) == IF s < t THEN s ELSE t
-----------------------------------------------------------------------------
(* Users.  Every change they make passes the event filter.                 *)
ByUser(p) ==
    /\ project' = p
    /\ due' = Least(due, now)
    /\ outdated' = (local # NoProject)
    /\ UNCHANGED <<now, localVars, errors, gauges, faults, missedAt>>

\* Timestamps of the API have no fractions of a second.
Timestamp(t) == t - (t % Second)

Create(a) ==
    /\ ~Exists
    /\ created < MaxProjects
    /\ ByUser([creationTimestamp |-> Timestamp(now), ttl |-> a, deleting |-> FALSE,
               guarded |-> FALSE,
               status |-> [observed |-> FALSE, state |-> "", conditions |-> <<>>]])
    /\ created' = created + 1
    /\ changedAt' = now
    /\ endedBy' = "nobody"

SetTTL(a) ==
    /\ Exists
    /\ project.ttl # a
    /\ ByUser([project EXCEPT !.ttl = a])
    /\ changedAt' = now
    /\ UNCHANGED <<created, endedBy>>

Delete ==
    /\ Exists
    /\ ~project.deleting
    /\ ByUser(IF project.guarded THEN [project EXCEPT !.deleting = TRUE] ELSE NoProject)
    /\ endedBy' = IF project.guarded THEN endedBy ELSE "user"
    /\ UNCHANGED <<created, changedAt>>
-----------------------------------------------------------------------------
(* Reconcile.                                                              *)
Begin ==
    /\ pc = "idle"
    /\ due <= now
    /\ due' = Never
    /\ pc' = "get"
    /\ startedAt' = now
    /\ UNCHANGED <<now, storedVars, local, outdated, result, errors, gauges, faults, missedAt>>

\* Reconcile returns, and its request comes back after one of the delays.
Return(delays) ==
    /\ pc' = "idle"
    /\ local' = NoProject
    /\ result' = {}
    /\ startedAt' = 0
    /\ outdated' = FALSE
    /\ \E d \in delays : due' = Least(due, now + d)

Fault == faults < MaxFaults /\ faults' = faults + 1

\* The deferred function is registered once the project was read: the other two
\* ends of this call leave the series as they are.
Get ==
    /\ pc = "get"
    /\ Exists
    /\ pc' = "reconcile"
    /\ local' = project
    /\ UNCHANGED <<now, storedVars, due, outdated, startedAt, result, errors, gauges, faults,
                   missedAt>>

NotFound ==
    /\ pc = "get"
    /\ ~Exists
    /\ Return({Never})
    /\ UNCHANGED <<now, storedVars, errors, gauges, faults, missedAt>>

GetFails ==
    /\ pc = "get"
    /\ Fault
    /\ missedAt' = now
    /\ Return(RateLimited)
    /\ UNCHANGED <<now, storedVars, errors, gauges>>

\* time.Duration.Round: halves are rounded away from zero.
Round(d) ==
    IF d < 0 THEN -((-d + Second \div 2) \div Second) ELSE (d + Second \div 2) \div Second

Parsed(a) == IF a = Invalid THEN 0 ELSE a

\* Variant: a project without a remaining second is expired.
ExpiredAtZero(remaining) == IF remaining > 0 THEN 0 ELSE 1

Expired(remaining) == IF remaining >= 0 THEN 0 ELSE 1

GaugesOf(p) ==
    IF p.ttl = NoTTL
    THEN [initial |-> 0, remaining |-> 0, expired |-> 0, created |-> p.creationTimestamp]
    ELSE LET remaining == Round(p.creationTimestamp + Parsed(p.ttl) - startedAt)
         IN  [initial |-> Round(Parsed(p.ttl)), remaining |-> remaining,
              expired |-> Expired(remaining),
              created |-> p.creationTimestamp]

\* Variant: every project of which a reconciliation was begun has series.
AlwaysKept(p) == TRUE

Kept(p) == ~p.deleting \/ p.guarded

\* The first part of the deferred function: the series.
SetSeries(p, failed) ==
    IF Kept(p)
    THEN /\ errors' = IF failed THEN Least(Total + 1, MaxErrors) ELSE errors
         /\ gauges' = GaugesOf(p)
    ELSE errors' = Absent /\ gauges' = Absent

\* The deferred function with Reconcile's copy p of the project, up to the
\* update of the status.
Observe(p, failed, delays) ==
    LET bad == failed \/ (Kept(p) /\ p.ttl = Invalid)
        status == [p.status EXCEPT !.observed = TRUE]
    IN  /\ SetSeries(p, failed)
        /\ pc' = "status"
        /\ result' = IF bad THEN RateLimited ELSE delays
        /\ local' = [p EXCEPT !.status =
                IF bad THEN SetReadyCondition(status, "False", "Error", Timestamp(now))
                ELSE status]

Ready(p, status, state) ==
    [p EXCEPT !.status = SetReadyCondition(p.status, status, state, Timestamp(now))]

Step ==
    /\ pc = "reconcile"
    /\ UNCHANGED <<now, created, changedAt, due, startedAt, missedAt>>

FirstSeen ==
    /\ Step
    /\ ~local.status.observed
    /\ Observe(Ready(local, "Unknown", "Processing"), FALSE, RateLimited)
    /\ UNCHANGED <<project, endedBy, outdated, faults>>

\* A call of the API server fails with a conflict, or for some other reason.
CallFails == (outdated /\ UNCHANGED faults) \/ Fault

\* It may also be carried out though its answer gets lost.
AnswerLost == ~outdated /\ Fault

AddFinalizer ==
    /\ Step
    /\ local.status.observed /\ ~local.deleting /\ ~local.guarded
    /\ \/ /\ ~outdated
          /\ project' = [project EXCEPT !.guarded = TRUE]
          /\ Observe(project', FALSE, RateLimited)
          /\ UNCHANGED <<outdated, faults>>
       \/ /\ CallFails
          /\ Observe([local EXCEPT !.guarded = TRUE], TRUE, {})
          /\ UNCHANGED <<project, outdated>>
       \/ /\ AnswerLost
          /\ project' = [project EXCEPT !.guarded = TRUE]
          /\ outdated' = TRUE
          /\ Observe([local EXCEPT !.guarded = TRUE], TRUE, {})
    /\ UNCHANGED endedBy

\* Variant: a project that is ready is left alone until it changes.
RequeueNever == Never

RequeueReady == RequeueAfter

Outcome(status, state, delay) ==
    Observe(Ready(local, status, state), FALSE, {delay}) /\ UNCHANGED faults

\* The outcomes while Reconcile keeps the finalizer: others may hold one, too.
DependentsReconciled ==
    /\ Step
    /\ local.status.observed /\ local.guarded
    /\ \/ ~local.deleting /\ Outcome("True", "Ready", RequeueReady)
       \/ ~local.deleting /\ Outcome("Unknown", "Processing", Second)
       \/ local.deleting /\ Outcome("Unknown", "Deleting", Second)
       \/ local.deleting /\ Outcome("Unknown", "DeletionBlocked", RequeueBlocked)
       \/ CallFails /\ Observe(local, TRUE, {})
    /\ UNCHANGED <<project, endedBy, outdated>>
-----------------------------------------------------------------------------
\* The local copy has lost the finalizer before the update is tried.
Removing ==
    /\ pc = "reconcile"
    /\ local.status.observed /\ local.guarded /\ local.deleting

RemoveFinalizer ==
    /\ Removing
    /\ ~outdated
    /\ project' = NoProject
    /\ endedBy' = "operator"
    /\ SetSeries([local EXCEPT !.guarded = FALSE], FALSE)
    /\ Return({Never})
    /\ UNCHANGED <<now, created, changedAt, faults, missedAt>>

RemoveFinalizerFails ==
    /\ Step
    /\ Removing
    /\ CallFails
    /\ Observe([local EXCEPT !.guarded = FALSE], TRUE, {})
    /\ UNCHANGED <<project, endedBy, outdated>>

RemoveFinalizerAnswerLost ==
    /\ Step
    /\ Removing
    /\ AnswerLost
    /\ project' = NoProject
    /\ endedBy' = "operator"
    /\ outdated' = TRUE
    /\ Observe([local EXCEPT !.guarded = FALSE], TRUE, {})

UpdateStatus ==
    /\ pc = "status"
    /\ \/ /\ ~outdated
          /\ project' = [project EXCEPT !.status = local.status]
          /\ Return(result)
          /\ UNCHANGED faults
       \/ /\ CallFails
          /\ UNCHANGED project
          /\ Return(RateLimited)
       \/ /\ AnswerLost
          /\ project' = [project EXCEPT !.status = local.status]
          /\ Return(RateLimited)
    /\ UNCHANGED <<now, created, changedAt, endedBy, errors, gauges, missedAt>>

Reconcile ==
    \/ Begin
    \/ Get
    \/ NotFound
    \/ GetFails
    \/ FirstSeen
    \/ AddFinalizer
    \/ DependentsReconciled
    \/ RemoveFinalizer
    \/ RemoveFinalizerFails
    \/ RemoveFinalizerAnswerLost
    \/ UpdateStatus
-----------------------------------------------------------------------------
\* A new process has no series; it starts with all projects in its queue.
Restart ==
    /\ Fault
    /\ errors' = Absent
    /\ gauges' = Absent
    /\ due' = IF Exists THEN now ELSE Never
    /\ pc' = "idle"
    /\ local' = NoProject
    /\ result' = {}
    /\ startedAt' = 0
    /\ outdated' = FALSE
    /\ changedAt' = now
    /\ UNCHANGED <<now, project, created, endedBy, missedAt>>

Tick ==
    /\ now < MaxTime
    /\ pc = "idle" => due > now
    /\ pc # "idle" => now < startedAt + Latency
    /\ now' = now + 1
    /\ UNCHANGED <<storedVars, due, localVars, outdated, errors, gauges, faults, missedAt>>

Next ==
    \/ \E a \in Annotations : Create(a) \/ SetTTL(a)
    \/ Delete
    \/ Reconcile
    \/ Restart
    \/ Tick

Spec == Init /\ [][Next]_vars
-----------------------------------------------------------------------------
Deadline == project.creationTimestamp + project.ttl

\* The delay of the next reconciliation, the duration of the last and of the next.
Bound == Longest + 2 * Latency

\* What the backoff after a read that failed takes, and the next reconciliation.
Reread == now > missedAt + MaxBackoff + Latency

(* An expired project is reported expired at the latest one reconciliation *)
(* later, counted from its deadline and the half second that rounding may  *)
(* lose, from the last change of its TTL and from the start of the process, *)
(* also if writes failed or their answers got lost, or if the TTL was set  *)
(* to a time long past.  After a read that failed, which leaves the series *)
(* alone, it may take another backoff; and a removal of the finalizer that *)
(* failed takes the series away until the next try                         *)
(* (project_controller.go:81-87, 99-114, 169-171).                         *)
ExpiryReported ==
    Exists /\ project.ttl \in TTLs /\ now > Deadline + Second \div 2 + Bound
        /\ now > changedAt + Bound /\ Reread =>
            IF gauges = Absent THEN project.deleting ELSE gauges.expired = 1

(* A project is not reported expired before its time, though the gauge may *)
(* be the one of its previous TTL, or of another project of its name, for  *)
(* the duration of two reconciliations, or, when the project could not be  *)
(* read since the change, until one more after the backoff                 *)
(* (project_controller.go:81-87, 105-113).                                 *)
ExpiryNotEarly ==
    Exists /\ project.ttl \in TTLs \cup {NoTTL} /\ now > changedAt + 2 * Latency
        /\ (missedAt >= changedAt => Reread)
        /\ gauges # Absent /\ gauges.expired = 1 =>
            project.ttl # NoTTL /\ now > Deadline

(* No series outlives a project that the operator let go, also if the      *)
(* answer of the update that did so got lost, or updates of its status or  *)
(* its finalizers failed before (project_controller.go:120-126, 198).  A   *)
(* project that its user ended before it was guarded is another matter: no *)
(* reconciliation sees it go, and its series may stay behind.              *)
SeriesEnd ==
    ~Exists /\ pc = "idle" /\ endedBy = "operator" => errors = Absent /\ gauges = Absent

ReadyStatus ==
    IF project.status.conditions = <<>> THEN "" ELSE project.status.conditions[1].status

ReadySince == project.status.conditions[1].lastTransitionTime

\* A status of the project is stored.
StatusStored ==
    Exists /\ project' # NoProject /\ created' = created /\ project'.status # project.status

(* With a status that was computed for a TTL that can be parsed, the time  *)
(* of the last transition is kept if the status of the condition is the    *)
(* one stored before, and otherwise becomes a time of this reconciliation, *)
(* up to the fraction of a second (project_types.go:127-147).              *)
TransitionTime ==
    [][StatusStored /\ local.ttl # Invalid =>
        IF ReadyStatus' = ReadyStatus THEN ReadySince' = ReadySince
        ELSE startedAt - Second < ReadySince' /\ ReadySince' <= now]_vars

(* "Timestamp of the last change of ConditionStatus": also with a TTL that *)
(* cannot be parsed, where the condition is set twice before the status is *)
(* written, the time does not move while the stored status of the          *)
(* condition stays (project_types.go:49, project_controller.go:133).       *)
LastTransition ==
    [][StatusStored /\ ReadyStatus' = ReadyStatus => ReadySince' = ReadySince]_vars

(* "Total number of reconciliation errors per project": the counter of     *)
(* errors does not fall while the project exists and the process runs on   *)
(* (project_metrics.go:18, project_controller.go:120).                     *)
ErrorsKept ==
    [][Exists /\ project' # NoProject /\ ~Restart => Total' >= Total]_vars
==============================================================================
