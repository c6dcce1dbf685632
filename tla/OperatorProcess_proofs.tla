----------------------- MODULE OperatorProcess_proofs -----------------------
(***************************************************************************)
(* Theorems about the processes of the operator: at most one of them       *)
(* reconciles if leader election is asked for, with any number of replicas *)
(* and any timing of the lease that leaves the holder less time than the   *)
(* others.                                                                 *)
(***************************************************************************)
EXTENDS OperatorProcess, TLAPS

\* While a process reconciles it holds the lease, has renewed it in time, and
\* nobody has looked at the lease for longer than that.
LeaseIsFresh ==
    LeaderElect =>
        \A r \in active :
            /\ holder = r
            /\ renewAge[r] <= RenewDeadline
            /\ \A q \in Replicas : looked[q] => seenAge[q] <= renewAge[r]

IInv == TypeOK /\ LeaseIsFresh

LEMMA Durations ==
    LeaseDuration \in Nat /\ RenewDeadline \in Nat /\ RenewDeadline < LeaseDuration
<1>1. LeaseDuration \in Nat /\ RenewDeadline \in 1..(LeaseDuration - 1)
  BY ElectionAssumption
<1> QED
  BY <1>1

LEMMA ZeroAge == 0 \in Ages
BY Durations DEF Ages

LEMMA SetupPhases ==
    ASSUME NEW i \in DOMAIN Setup
    PROVE  Setup[i] \in Phases
BY DEF Setup, Phases

\* The steps of a single process keep the types.
LEMMA GoTypes ==
    ASSUME TypeOK, NEW r \in Replicas, NEW from, NEW to \in Phases, Go(r, from, to)
    PROVE  phase' \in [Replicas -> Phases]
BY DEF TypeOK, Go

LEMMA ExitTypes ==
    ASSUME TypeOK, NEW r \in Replicas, NEW code \in {"exit 0", "exit 1"}, Exit(r, code)
    PROVE  TypeOK'
<1>1. /\ phase' \in [Replicas -> Phases]
      /\ holder' \in Replicas \cup {Nobody, Gone}
      /\ looked' \in [Replicas -> BOOLEAN]
      /\ seenAge' \in [Replicas -> Ages]
      /\ renewAge' \in [Replicas -> Ages]
  BY ZeroAge DEF TypeOK, Exit, Phases
<1>2. active' \subseteq {q \in Replicas : phase'[q] \in {"running", "stopping"}}
  BY DEF TypeOK, Exit, ActiveWithout
<1> QED
  BY <1>1, <1>2 DEF TypeOK

LEMMA WriteLeaseTypes ==
    ASSUME TypeOK, NEW r \in Replicas, NEW h \in Replicas \cup {Nobody}, WriteLease(r, h)
    PROVE  /\ holder' \in Replicas \cup {Nobody, Gone}
           /\ looked' \in [Replicas -> BOOLEAN]
           /\ renewAge' \in [Replicas -> Ages]
BY ElectionAssumption DEF TypeOK, WriteLease, Ages

LEMMA TypeStep ==
    ASSUME TypeOK, [Next]_vars
    PROVE  TypeOK'
<1>1. CASE UNCHANGED vars
  BY <1>1 DEF TypeOK, vars
<1>2. CASE Tick
  <2>1. seenAge' \in [Replicas -> Ages] /\ renewAge' \in [Replicas -> Ages]
    BY <1>2, ElectionAssumption DEF TypeOK, Tick, Ages
  <2> QED
    BY <1>2, <2>1 DEF TypeOK, Tick
<1>3. ASSUME NEW r \in Replicas, SetupStep(r)
      PROVE  TypeOK'
  <2>1. PICK i \in 1..(Len(Setup) - 1) : Go(r, Setup[i], Setup[i + 1])
    BY <1>3 DEF SetupStep
  <2>2. i + 1 \in DOMAIN Setup /\ i \in DOMAIN Setup
    BY DEF Setup
  <2>3. phase' \in [Replicas -> Phases]
    BY <2>1, <2>2, SetupPhases, GoTypes
  <2>4. Setup[i] \notin {"running", "stopping"}
    BY <2>2 DEF Setup
  <2>5. r \notin active
    BY <2>1, <2>4 DEF TypeOK, Go
  <2> QED
    BY <1>3, <2>1, <2>3, <2>5 DEF TypeOK, SetupStep, Go, leaseVars
<1>4. ASSUME NEW r \in Replicas, SetupFails(r) \/ LeaseLost(r) \/ StopManager(r) \/ Crash(r)
      PROVE  TypeOK'
  BY <1>4, ExitTypes DEF SetupFails, LeaseLost, StopManager, Crash
<1>5. ASSUME NEW r \in Replicas, StartManager(r)
      PROVE  TypeOK'
  BY <1>5, GoTypes DEF TypeOK, StartManager, Go, leaseVars, Phases
<1>6. ASSUME NEW r \in Replicas, Restart(r)
      PROVE  TypeOK'
  <2>1. "flags" \in Phases
    BY DEF Phases, Setup
  <2> QED
    BY <1>6, <2>1 DEF TypeOK, Restart, leaseVars
<1>7. ASSUME NEW r \in Replicas, Look(r)
      PROVE  TypeOK'
  BY <1>7, ElectionAssumption DEF TypeOK, Look, Ages
<1>8. ASSUME NEW r \in Replicas, Acquire(r)
      PROVE  TypeOK'
  BY <1>8, WriteLeaseTypes DEF TypeOK, Acquire, Candidate
<1>9. ASSUME NEW r \in Replicas, Renew(r)
      PROVE  TypeOK'
  BY <1>9, WriteLeaseTypes DEF TypeOK, Renew
<1>10. ASSUME NEW r \in Replicas, Signal(r)
       PROVE  TypeOK'
  BY <1>10, GoTypes DEF TypeOK, Signal, Go, leaseVars, Phases
<1>11. ASSUME NEW r \in Replicas, ReconcilerStops(r)
       PROVE  TypeOK'
  BY <1>11 DEF TypeOK, ReconcilerStops, leaseVars
<1>12. ASSUME NEW r \in Replicas, Release(r)
       PROVE  TypeOK'
  BY <1>12, WriteLeaseTypes DEF TypeOK, Release
<1> QED
  BY <1>1, <1>2, <1>3, <1>4, <1>5, <1>6, <1>7, <1>8, <1>9, <1>10, <1>11, <1>12 DEF Next

\* A process that ends leaves the others' relation to the lease as it was.
LEMMA ExitKeepsFresh ==
    ASSUME IInv, NEW r \in Replicas, NEW code, Exit(r, code)
    PROVE  LeaseIsFresh'
BY ElectionAssumption DEF IInv, TypeOK, LeaseIsFresh, Exit, ActiveWithout, Ages

\* Steps that leave the lease alone and let nobody reconcile anew.
LEMMA IdleKeepsFresh ==
    ASSUME IInv, active' \subseteq active, UNCHANGED leaseVars
    PROVE  LeaseIsFresh'
BY DEF IInv, LeaseIsFresh, leaseVars

LEMMA FreshStep ==
    ASSUME IInv, [Next]_vars
    PROVE  LeaseIsFresh'
<1> SUFFICES ASSUME LeaderElect
             PROVE  LeaseIsFresh'
  BY DEF LeaseIsFresh
<1>1. CASE UNCHANGED vars
  BY <1>1, IdleKeepsFresh DEF vars, leaseVars
<1>2. CASE Tick
  <2> SUFFICES ASSUME NEW r \in active
               PROVE  /\ holder = r
                      /\ renewAge'[r] <= RenewDeadline
                      /\ \A q \in Replicas : looked[q] => seenAge'[q] <= renewAge'[r]
    BY <1>2 DEF LeaseIsFresh, Tick
  <2>1. renewAge[r] < RenewDeadline /\ renewAge[r] \in Nat
    BY <1>2 DEF IInv, TypeOK, Tick, Ages
  <2>2. renewAge'[r] = renewAge[r] + 1
    BY <1>2, <2>1, ElectionAssumption DEF IInv, TypeOK, Tick
  <2>3. ASSUME NEW q \in Replicas, looked[q]
        PROVE  seenAge'[q] <= renewAge'[r]
    <3>1. seenAge[q] \in Nat /\ seenAge[q] <= renewAge[r]
      BY <2>3 DEF IInv, TypeOK, LeaseIsFresh, Ages
    <3>2. seenAge'[q] \in {seenAge[q], seenAge[q] + 1}
      BY <1>2 DEF Tick
    <3> QED
      BY <2>1, <2>2, <3>1, <3>2
  <2> QED
    BY <2>1, <2>2, <2>3, ElectionAssumption DEF IInv, LeaseIsFresh
<1>3. ASSUME NEW r \in Replicas,
             SetupFails(r) \/ LeaseLost(r) \/ StopManager(r) \/ Crash(r)
      PROVE  LeaseIsFresh'
  BY <1>3, ExitKeepsFresh DEF SetupFails, LeaseLost, StopManager, Crash
<1>4. ASSUME NEW r \in Replicas,
             \/ SetupStep(r) \/ StartManager(r) \/ Restart(r)
             \/ Signal(r) \/ ReconcilerStops(r)
      PROVE  LeaseIsFresh'
  BY <1>4, IdleKeepsFresh
     DEF SetupStep, StartManager, NeedsLease, Restart, Signal, ReconcilerStops
<1>5. ASSUME NEW r \in Replicas, Look(r)
      PROVE  LeaseIsFresh'
  BY <1>5, ElectionAssumption DEF IInv, TypeOK, LeaseIsFresh, Look, Ages
\* Nobody reconciles while the lease is free or seems to be.
<1>6. ASSUME NEW r \in Replicas, Acquire(r)
      PROVE  LeaseIsFresh'
  <2>1. active = {}
    BY <1>6, ElectionAssumption DEF IInv, TypeOK, LeaseIsFresh, Acquire, Expired, Ages
  <2> QED
    BY <1>6, <2>1, ElectionAssumption DEF IInv, TypeOK, LeaseIsFresh, Acquire, WriteLease, Ages
<1>7. ASSUME NEW r \in Replicas, Renew(r)
      PROVE  LeaseIsFresh'
  BY <1>7, ElectionAssumption DEF IInv, TypeOK, LeaseIsFresh, Renew, WriteLease, Ages
<1>8. ASSUME NEW r \in Replicas, Release(r)
      PROVE  LeaseIsFresh'
  <2>1. active = {}
    BY <1>8 DEF IInv, LeaseIsFresh, Release, ReadyToRelease
  <2> QED
    BY <1>8, <2>1 DEF LeaseIsFresh, Release
<1> QED
  BY <1>1, <1>2, <1>3, <1>4, <1>5, <1>6, <1>7, <1>8 DEF Next

THEOREM Invariant == Spec => []IInv
<1>1. Init => IInv
  BY ElectionAssumption DEF Init, IInv, TypeOK, LeaseIsFresh, Phases, Setup, Ages
<1>2. IInv /\ [Next]_vars => IInv'
  BY TypeStep, FreshStep DEF IInv
<1> QED
  BY <1>1, <1>2, PTL DEF Spec

\* The state of the processes and of the lease is well typed, and a reconciler
\* runs only in a process whose manager does (main.go:156-160).
THEOREM TypeCorrect == Spec => []TypeOK
BY Invariant, PTL DEF IInv

\* With --leader-elect there is at most one active reconciler (main.go:64, 107-109).
THEOREM AtMostOneActive == Spec => []OneActive
<1>1. IInv => OneActive
  BY DEF IInv, LeaseIsFresh, OneActive
<1> QED
  BY <1>1, Invariant, PTL
==============================================================================
