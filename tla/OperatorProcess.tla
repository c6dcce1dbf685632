--------------------------- MODULE OperatorProcess ---------------------------
(***************************************************************************)
(* main.go: the processes (replicas) of the operator from their flags to   *)
(* their exit, and the lease of the leader election the manager is         *)
(* configured with.                                                        *)
(*                                                                         *)
(* The manager and the elector are controller-runtime's and client-go's.   *)
(* Time is measured by ages that count up to LeaseDuration.  A process is  *)
(* never suspended: it notices in time that it could not renew the lease.  *)
(***************************************************************************)
EXTENDS Integers, Sequences

CONSTANTS
    Replicas,       \* the replicas of the operator's deployment
    Nobody,         \* nobody holds the lease
    Gone,           \* a process that has ended holds it
    LeaderElect,    \* the flag --leader-elect
    LeaseDuration,  \* how long others leave a lease alone
    RenewDeadline   \* how long its holder tries to renew it

ASSUME ElectionAssumption ==
    /\ Nobody # Gone
    /\ {Nobody, Gone} \cap Replicas = {}
    /\ LeaderElect \in BOOLEAN
    /\ LeaseDuration \in Nat
    /\ RenewDeadline \in 1..(LeaseDuration - 1)

VARIABLES
    phase,          \* replica -> how far main has come
    active,         \* the replicas whose reconciler runs
    holder,         \* the lease's holder
    looked,         \* replica -> it has seen the lease as it is
    seenAge,        \* replica -> how long ago it saw the lease change
    renewAge        \* replica -> how long ago it last renewed the lease

vars == <<phase, active, holder, looked, seenAge, renewAge>>
leaseVars == <<holder, looked, seenAge, renewAge>>

\* The steps of main that may fail, in their order.
Setup ==
    <<"flags", "address", "manager", "reconciler", "webhook", "healthz", "readyz">>

Phases == {Setup[i] : i \in DOMAIN Setup} \cup {"running", "stopping", "exit 0", "exit 1"}

Ages == 0..LeaseDuration

\* The type invariant: the state is well typed, and a reconciler runs only in a
\* process whose manager does (the end of the process ends it, main.go:156-160).
TypeOK ==
    /\ phase \in [Replicas -> Phases]
    /\ active \subseteq {r \in Replicas : phase[r] \in {"running", "stopping"}}
    /\ holder \in Replicas \cup {Nobody, Gone}
    /\ looked \in [Replicas -> BOOLEAN]
    /\ seenAge \in [Replicas -> Ages]
    /\ renewAge \in [Replicas -> Ages]

Init ==
    /\ phase = [r \in Replicas |-> "flags"]
    /\ active = {}
    /\ holder = Nobody
    /\ looked = [r \in Replicas |-> FALSE]
    /\ seenAge = [r \in Replicas |-> 0]
    /\ renewAge = [r \in Replicas |-> 0]

Go(r, from, to) ==
    /\ phase[r] = from
    /\ phase' = [phase EXCEPT ![r] = to]

\* Variant: the manager leaves its reconciler behind.
ActiveStill(r) == active

ActiveWithout(r) == active \ {r}

\* A process has a name of its own in the lease: the next one on the replica is
\* not the holder, and knows nothing of the lease.
Exit(r, code) ==
    /\ phase' = [phase EXCEPT ![r] = code]
    /\ active' = ActiveWithout(r)
    /\ holder' = IF holder = r THEN Gone ELSE holder
    /\ looked' = [looked EXCEPT ![r] = FALSE]
    /\ seenAge' = [seenAge EXCEPT ![r] = 0]
    /\ renewAge' = [renewAge EXCEPT ![r] = 0]
-----------------------------------------------------------------------------
(* main, up to the start of the manager.                                   *)
SetupStep(r) ==
    /\ \E i \in 1..(Len(Setup) - 1) : Go(r, Setup[i], Setup[i + 1])
    /\ UNCHANGED <<active, leaseVars>>

SetupFails(r) ==
    /\ \E i \in DOMAIN Setup : phase[r] = Setup[i]
    /\ Exit(r, "exit 1")

NeedsLease == LeaderElect

\* Webhooks, metrics and health checks are served from now on, the reconciler
\* runs at once only without leader election.
StartManager(r) ==
    /\ Go(r, "readyz", "running")
    /\ active' = IF NeedsLease THEN active ELSE active \cup {r}
    /\ UNCHANGED leaseVars

\* The deployment runs another process in place of one that has ended.
Restart(r) ==
    /\ phase[r] \in {"exit 0", "exit 1"}
    /\ phase' = [phase EXCEPT ![r] = "flags"]
    /\ UNCHANGED <<active, leaseVars>>
-----------------------------------------------------------------------------
(* The lease, which is written with optimistic locking.                    *)
Candidate(r) == LeaderElect /\ phase[r] = "running" /\ r \notin active

Look(r) ==
    /\ Candidate(r)
    /\ ~looked[r]
    /\ looked' = [looked EXCEPT ![r] = TRUE]
    /\ seenAge' = [seenAge EXCEPT ![r] = 0]
    /\ UNCHANGED <<phase, active, holder, renewAge>>

WriteLease(r, h) ==
    /\ holder' = h
    /\ looked' = [q \in Replicas |-> FALSE]
    /\ renewAge' = [renewAge EXCEPT ![r] = 0]

\* Variant: the lease of a process that ended without releasing it stays.
NeverExpires(r) == FALSE

Expired(r) == seenAge[r] = LeaseDuration

Acquire(r) ==
    /\ Candidate(r)
    /\ looked[r]
    /\ holder = Nobody \/ Expired(r)
    /\ WriteLease(r, r)
    /\ active' = active \cup {r}
    /\ UNCHANGED <<phase, seenAge>>

Renew(r) ==
    /\ LeaderElect
    /\ r \in active
    /\ holder = r
    /\ WriteLease(r, r)
    /\ UNCHANGED <<phase, active, seenAge>>

\* The manager ends at once, without waiting for the reconciler.
LeaseLost(r) ==
    /\ LeaderElect
    /\ r \in active
    /\ renewAge[r] >= RenewDeadline
    /\ Exit(r, "exit 1")

Tick ==
    /\ LeaderElect => \A r \in active : renewAge[r] < RenewDeadline
    /\ seenAge' = [r \in Replicas |-> IF Candidate(r) /\ seenAge[r] < LeaseDuration
                                      THEN seenAge[r] + 1 ELSE seenAge[r]]
    /\ renewAge' = [r \in Replicas |-> IF r \in active /\ renewAge[r] < LeaseDuration
                                       THEN renewAge[r] + 1 ELSE renewAge[r]]
    /\ UNCHANGED <<phase, active, holder, looked>>
-----------------------------------------------------------------------------
(* The end of a process.                                                   *)
Signal(r) ==
    /\ Go(r, "running", "stopping")
    /\ UNCHANGED <<active, leaseVars>>

\* Variant: the lease is released when the process is told to stop.
ReleasedOnSignal(r) == phase[r] = "stopping"

\* The manager waits for the reconciler before it gives up the lease.
ReadyToRelease(r) == phase[r] = "stopping" /\ r \notin active

\* Variant: the manager is started with a context that no signal cancels.
NeverTold(r) == FALSE

ToldToStop(r) == phase[r] = "stopping"

\* The worker ends after the reconciliation it is in.
ReconcilerStops(r) ==
    /\ ToldToStop(r)
    /\ r \in active
    /\ active' = active \ {r}
    /\ UNCHANGED <<phase, leaseVars>>

\* LeaderElectionReleaseOnCancel.
Release(r) ==
    /\ ReadyToRelease(r)
    /\ holder = r
    /\ WriteLease(r, Nobody)
    /\ UNCHANGED <<phase, active, seenAge>>

StopManager(r) ==
    /\ phase[r] = "stopping"
    /\ r \notin active
    /\ holder # r
    /\ Exit(r, "exit 0")

\* The manager reports an error, or the process is killed.
Crash(r) ==
    /\ phase[r] \in {"running", "stopping"}
    /\ Exit(r, "exit 1")
-----------------------------------------------------------------------------
Next ==
    \/ Tick
    \/ \E r \in Replicas :
        \/ SetupStep(r) \/ SetupFails(r) \/ StartManager(r) \/ Restart(r)
        \/ Look(r) \/ Acquire(r) \/ Renew(r) \/ LeaseLost(r)
        \/ Signal(r) \/ ReconcilerStops(r) \/ Release(r) \/ StopManager(r) \/ Crash(r)

\* Time passes, the elector tries again and again, and what has begun to stop
\* stops.  Nothing makes a process start, succeed in its setup or renew in time.
Fairness ==
    /\ WF_vars(Tick)
    /\ \A r \in Replicas :
        WF_vars(Look(r)) /\ WF_vars(Acquire(r)) /\ WF_vars(LeaseLost(r))
        /\ WF_vars(ReconcilerStops(r)) /\ WF_vars(Release(r)) /\ WF_vars(StopManager(r))

Spec == Init /\ [][Next]_vars /\ Fairness
-----------------------------------------------------------------------------
(* Properties.                                                             *)

\* The documentation of --leader-elect: "Enabling this will ensure there is only
\* one active controller manager." (main.go:64), also while one process stops
\* and another takes over (main.go:109), or after a crash.
OneActive ==
    LeaderElect => \A r, q \in active : r = q

\* If some process runs on, projects are reconciled again and again, whatever
\* became of the process that last held the lease.
SomebodyLeads ==
    (\E r \in Replicas : <>[](phase[r] = "running")) => []<>(active # {})

\* A process told to stop ends: it waits for its reconciler and the release of
\* the lease (main.go:109, 157).
StopEnds ==
    \A r \in Replicas : phase[r] = "stopping" ~> phase[r] \in {"exit 0", "exit 1"}
==============================================================================
