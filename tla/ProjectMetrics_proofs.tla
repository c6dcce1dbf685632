------------------------ MODULE ProjectMetrics_proofs ------------------------
(***************************************************************************)
(* The metrics and the Ready condition, for any TTLs, rounding, delays,    *)
(* backoffs, faults and numbers of projects: an expired project is         *)
(* reported in time, none is reported too early, no series is left by a    *)
(* project that the operator let go, and the Ready condition has the time  *)
(* of its last transition.                                                 *)
(***************************************************************************)
EXTENDS ProjectMetrics, SequenceTheorems, TLAPS

\* Types, and what a reconciliation carries: once it has read the project, a copy
\* of it, which is still there if nobody wrote it, and, at last, the delays after
\* which there will be another round.
Idle == local = NoProject /\ ~outdated

Working == local \in Projects /\ (~outdated => Exists)

MetricsTypes ==
    /\ TypeOK
    /\ pc \in {"idle", "get"} => Idle
    /\ pc \in {"reconcile", "status"} => Working
    /\ pc = "status" => \A d \in result : d <= Longest
-----------------------------------------------------------------------------
\* A reconciliation is not begun in the future and does not take longer than
\* Latency.
InTime ==
    /\ changedAt <= now
    /\ missedAt <= now
    /\ pc # "idle" => startedAt <= now /\ now <= startedAt + Latency

\* The copy a reconciliation works on says of the TTL what is stored, or the
\* project was changed since and its request is due.
Fresh ==
    /\ local.ttl = project.ttl
    /\ local.creationTimestamp = project.creationTimestamp
    /\ local.deleting => project.deleting

FreshOrDue ==
    pc = "reconcile" /\ Exists =>
        Fresh \/ (due <= changedAt /\ startedAt <= changedAt)

\* A gauge that says expired is right, or of before the last change; then the
\* reconciliation that corrects it is due, or running, shortly after the change
\* or after the backoff of a read that failed since.
Early ==
    Exists /\ project.ttl \in TTLs \cup {NoTTL} /\ gauges # Absent /\ gauges.expired = 1

Shortly(s) ==
    \/ s <= changedAt + Latency
    \/ missedAt >= changedAt /\ s <= missedAt + MaxBackoff

Right == project.ttl # NoTTL /\ now > Deadline

ToBeCorrected ==
    /\ pc = "idle" => Shortly(due) /\ Shortly(now)
    /\ pc \in {"get", "reconcile"} => Shortly(startedAt)
    /\ pc = "status" => due <= changedAt /\ startedAt <= changedAt

RightOrCorrected == Early => Right \/ ToBeCorrected

\* The series of an expired project say so, or there was a reason why they did
\* not at the last reconciliation, and the next one is due.
Reported == IF gauges = Absent THEN project.deleting ELSE gauges.expired = 1

LastMoment(t) == t >= Deadline + Second \div 2 /\ t >= changedAt

NextAfter(t, s) == s <= t + Latency + Longest \/ s <= missedAt + MaxBackoff

DueBy(t) ==
    /\ pc = "idle" => NextAfter(t, due) /\ NextAfter(t, now)
    /\ pc \in {"get", "reconcile"} => NextAfter(t, startedAt)
    /\ pc = "status" => startedAt <= t

ReportedOrDue ==
    Exists /\ project.ttl \in TTLs =>
        Reported \/ (\A t \in Nat : LastMoment(t) => DueBy(t))

\* The operator ended the last project: its series went with it.
SeriesEnded ==
    ~Exists /\ endedBy = "operator" =>
        pc # "reconcile" /\ errors = Absent /\ gauges = Absent

\* The condition of a status that is going to be written follows the one that
\* is stored.
Since(status) == status.conditions[1]

ThisTime(t) == startedAt - Second < t /\ t <= now

Follows(status, stored) ==
    IF stored.conditions # <<>> /\ Since(status).status = Since(stored).status
    THEN Since(status).lastTransitionTime = Since(stored).lastTransitionTime
    ELSE ThisTime(Since(status).lastTransitionTime)

Seen(status) == status.observed => status.conditions # <<>>

ConditionsFollow ==
    /\ Exists => Seen(project.status)
    /\ pc = "reconcile" /\ ~outdated => local.status = project.status
    /\ pc = "status" /\ ~outdated =>
        /\ local.status.conditions # <<>>
        /\ local.ttl # Invalid => Follows(local.status, project.status)
-----------------------------------------------------------------------------
(* Numbers.                                                                *)

LEMMA Constants ==
    /\ Second \in Nat \ {0} /\ Latency \in Nat \ {0}
    /\ RequeueAfter \in Nat /\ RequeueBlocked \in Nat /\ MaxBackoff \in Nat
    /\ MaxTime \in Nat /\ MaxFaults \in Nat /\ MaxErrors \in Nat
    /\ Longest \in Nat /\ Never \in Nat
    /\ Second <= Longest /\ RequeueBlocked <= Longest /\ RequeueAfter <= Longest
    /\ MaxBackoff <= Longest
    /\ RateLimited \subseteq Nat /\ \A d \in RateLimited : d <= MaxBackoff
BY MetricsAssumption DEF Never, Longest, RateLimited

LEMMA TimestampType ==
    ASSUME NEW t \in Nat
    PROVE  Timestamp(t) \in Nat /\ Timestamp(t) <= t /\ t - Second < Timestamp(t)
<1>1. t % Second \in Nat /\ t % Second <= t /\ t % Second < Second
    BY Constants
<1> QED BY <1>1, Constants DEF Timestamp

\* Durations keep their sign, but what is above minus half a second may be
\* rounded to none.
LEMMA Rounding ==
    ASSUME NEW d \in Int
    PROVE  /\ Round(d) \in Int
           /\ d \in Nat => Round(d) \in Nat
           /\ d < -(Second \div 2) => Round(d) < 0
<1>1. Second \div 2 \in Nat /\ Second <= 2 * (Second \div 2) + 1
    BY Constants
<1>2. ASSUME d \in Nat PROVE Round(d) \in Nat
    <2>1. d + Second \div 2 \in Nat
        BY <1>1, <1>2
    <2>2. (d + Second \div 2) \div Second \in Nat
        BY <2>1, Constants
    <2> QED BY <1>2, <2>2 DEF Round
<1>3. ASSUME d < 0 PROVE Round(d) \in Int /\ (d < -(Second \div 2) => Round(d) < 0)
    <2> DEFINE x == -d + Second \div 2
    <2>1. x \in Nat
        BY <1>1, <1>3
    <2>2. x \div Second \in Nat
        BY <2>1, Constants
    <2>3. d < -(Second \div 2) => x >= Second
        BY <1>1, Constants
    <2>4. x >= Second => x \div Second >= 1
        BY <2>1, Constants
    <2>5. Round(d) = -(x \div Second)
        BY <1>3 DEF Round
    <2> HIDE DEF x
    <2> QED BY <2>2, <2>3, <2>4, <2>5
<1> QED BY <1>1, <1>2, <1>3

\* What is not rounded below zero is none of the past.
LEMMA RoundedExpired ==
    ASSUME NEW d \in Int, Round(d) < 0
    PROVE  d < 0
BY Rounding

LEMMA GaugesType ==
    ASSUME NEW p \in Projects, startedAt \in Nat
    PROVE  GaugesOf(p) \in Gauges
<1>1. p.creationTimestamp \in Nat
    BY DEF Projects
<1>2. CASE p.ttl = NoTTL
    BY <1>1, <1>2 DEF GaugesOf, Gauges
<1>3. CASE p.ttl # NoTTL
    <2> DEFINE left == p.creationTimestamp + Parsed(p.ttl) - startedAt
    <2>1. Parsed(p.ttl) \in Int
        <3>1. p.ttl \in TTLs \cup {Invalid}
            BY <1>3, MetricsAssumption DEF Projects
        <3>2. p.ttl # Invalid => p.ttl \in Int
            BY <3>1, MetricsAssumption
        <3> QED BY <3>2 DEF Parsed
    <2>2. Round(Parsed(p.ttl)) \in Int /\ Round(left) \in Int
        BY <1>1, <2>1, Rounding
    <2>3. Expired(Round(left)) \in 0..1
        BY DEF Expired
    <2>4. GaugesOf(p) = [initial |-> Round(Parsed(p.ttl)), remaining |-> Round(left),
                         expired |-> Expired(Round(left)), created |-> p.creationTimestamp]
        BY <1>3 DEF GaugesOf
    <2> HIDE DEF left
    <2> QED BY <1>1, <2>2, <2>3, <2>4 DEF Gauges
<1> QED BY <1>2, <1>3

\* What a gauge says of an expired project, up to rounding.
LEMMA GaugesExpired ==
    ASSUME NEW p \in Projects, startedAt \in Nat, p.ttl \in TTLs
    PROVE  /\ startedAt > p.creationTimestamp + p.ttl + Second \div 2
                => GaugesOf(p).expired = 1
           /\ GaugesOf(p).expired = 1 => startedAt > p.creationTimestamp + p.ttl
<1> DEFINE left == p.creationTimestamp + p.ttl - startedAt
<1>1. p.creationTimestamp \in Nat /\ p.ttl \in Int
    BY MetricsAssumption DEF Projects
<1>2. GaugesOf(p).expired = Expired(Round(left))
    BY ValuesAssumption DEF GaugesOf, Parsed
<1>3. Round(left) \in Int /\ (left < -(Second \div 2) => Round(left) < 0)
      /\ (Round(left) < 0 => left < 0)
    BY <1>1, Rounding, RoundedExpired
<1>4. left < -(Second \div 2) <=> startedAt > p.creationTimestamp + p.ttl + Second \div 2
    <2>1. Second \div 2 \in Nat
        BY Constants
    <2> QED BY <1>1, <2>1
<1>5. left < 0 <=> startedAt > p.creationTimestamp + p.ttl
    BY <1>1
<1> HIDE DEF left
<1> QED BY <1>2, <1>3, <1>4, <1>5 DEF Expired
-----------------------------------------------------------------------------
(* Conditions.                                                             *)

\* There is one type of conditions.
LEMMA FirstPosition ==
    ASSUME NEW cs \in Seq(Conditions(Nat))
    PROVE  Position(cs, "Ready") = 1
<1> DEFINE P(i) == /\ i <= Len(cs) => cs[i].type = "Ready"
                   /\ \A j \in 1..(i - 1) : cs[j].type # "Ready"
<1>1. Len(cs) \in Nat
    BY LenProperties
<1>2. \A j \in 1..Len(cs) : cs[j].type = "Ready"
    <2> TAKE j \in 1..Len(cs)
    <2>1. cs[j] \in Conditions(Nat)
        BY ElementOfSeq
    <2> QED BY <2>1 DEF Conditions, ConditionTypes
<1>3. 1 \in 1..(Len(cs) + 1) /\ P(1)
    BY <1>1, <1>2
<1>4. ASSUME NEW i \in 1..(Len(cs) + 1), P(i) PROVE i = 1
    <2>1. CASE i > 1
        <3>1. 1 \in 1..(i - 1) /\ 1 \in 1..Len(cs)
            BY <1>1, <2>1
        <3> QED BY <1>2, <1>4, <3>1
    <2> QED BY <1>1, <2>1
<1>5. Position(cs, "Ready") = CHOOSE i \in 1..(Len(cs) + 1) : P(i)
    BY DEF Position
<1> HIDE DEF P
<1> QED BY <1>3, <1>4, <1>5

\* The condition that was set is the first; it has its old time if the status was
\* the same, and the new one otherwise.
FirstSet(new, cs, st, t) ==
    /\ new # <<>>
    /\ new[1].status = st
    /\ new[1].lastTransitionTime =
            IF cs # <<>> /\ cs[1].status = st THEN cs[1].lastTransitionTime ELSE t

LEMMA ConditionSet ==
    ASSUME NEW cs \in Seq(Conditions(Nat)), NEW st \in ConditionStatuses,
           NEW reason \in States, NEW t \in Nat
    PROVE  /\ SetCondition(cs, "Ready", st, reason, t) \in Seq(Conditions(Nat))
           /\ FirstSet(SetCondition(cs, "Ready", st, reason, t), cs, st, t)
<1> DEFINE unchanged == 1 <= Len(cs) /\ cs[1].status = st
           cond == [type |-> "Ready", status |-> st, reason |-> reason,
                    lastTransitionTime |-> IF unchanged THEN cs[1].lastTransitionTime ELSE t]
           rest == SubSeq(cs, 2, Len(cs))
           new == SetCondition(cs, "Ready", st, reason, t)
<1>1. Len(cs) \in Nat /\ (cs # <<>> <=> 1 <= Len(cs))
    BY LenProperties, EmptySeq
<1>2. new = SubSeq(cs, 1, 0) \o <<cond>> \o rest
    <2>1. Position(cs, "Ready") = 1
        BY FirstPosition
    <2>2. new = SubSeq(cs, 1, 1 - 1) \o <<cond>> \o SubSeq(cs, 1 + 1, Len(cs))
        BY ONLY <2>1 DEF SetCondition
    <2>3. 1 - 1 = 0 /\ 1 + 1 = 2
        OBVIOUS
    <2> HIDE DEF new, cond
    <2> QED BY <2>2, <2>3
<1>3. SubSeq(cs, 1, 0) = <<>>
    BY SubSeqEmpty
<1>4. unchanged => cs[1].lastTransitionTime \in Nat
    <2> SUFFICES ASSUME unchanged PROVE cs[1] \in Conditions(Nat)
        BY DEF Conditions
    <2> QED BY <1>1, ElementOfSeq
<1>5. cond \in Conditions(Nat)
    BY <1>4 DEF Conditions, ConditionTypes
<1>6. rest \in Seq(Conditions(Nat))
    <2>1. \A i \in 2..Len(cs) : cs[i] \in Conditions(Nat)
        BY <1>1, ElementOfSeq
    <2> QED BY <1>1, <2>1, SubSeqProperties
<1>7. cond.status = st
      /\ cond.lastTransitionTime = IF unchanged THEN cs[1].lastTransitionTime ELSE t
    OBVIOUS
<1> HIDE DEF cond, rest
<1>8. <<cond>> \in Seq(Conditions(Nat)) /\ Len(<<cond>>) = 1 /\ <<cond>>[1] = cond
    BY <1>5
<1>9. new = <<cond>> \o rest
    BY <1>2, <1>3, <1>8, ConcatEmptySeq
<1>10. Len(rest) \in Nat
    BY <1>6, LenProperties
<1> HIDE DEF new
<1>11. new \in Seq(Conditions(Nat)) /\ Len(new) >= 1 /\ new[1] = cond
    <2>1. /\ <<cond>> \o rest \in Seq(Conditions(Nat))
          /\ Len(<<cond>> \o rest) = Len(<<cond>>) + Len(rest)
          /\ \A i \in 1 .. Len(<<cond>>) + Len(rest) :
                (<<cond>> \o rest)[i] = IF i <= Len(<<cond>>) THEN <<cond>>[i]
                                       ELSE rest[i - Len(<<cond>>)]
        BY <1>6, <1>8, ConcatProperties
    <2>2. 1 \in 1 .. Len(<<cond>>) + Len(rest) /\ 1 <= Len(<<cond>>)
        BY <1>8, <1>10
    <2>3. (<<cond>> \o rest)[1] = <<cond>>[1]
        BY <2>1, <2>2
    <2>4. Len(<<cond>> \o rest) >= 1
        BY <2>1, <2>2
    <2> QED BY <1>8, <1>9, <2>1, <2>3, <2>4
<1>12. new # <<>>
    BY <1>11, EmptySeq
<1>13. new[1].lastTransitionTime =
            IF cs # <<>> /\ cs[1].status = st THEN cs[1].lastTransitionTime ELSE t
    <2>1. unchanged <=> cs # <<>> /\ cs[1].status = st
        BY <1>1
    <2> QED BY <1>7, <1>11, <2>1
<1>14. FirstSet(new, cs, st, t)
    BY <1>7, <1>11, <1>12, <1>13 DEF FirstSet
<1> QED BY <1>11, <1>14 DEF new

Statuses == [observed : BOOLEAN, state : States, conditions : Seq(Conditions(Nat))]

\* The same of a status.
LEMMA ReadyConditionSet ==
    ASSUME NEW status \in Statuses, NEW st \in ConditionStatuses,
           NEW state \in States, NEW t \in Nat
    PROVE  LET new == SetReadyCondition(status, st, state, t)
           IN  /\ new \in Statuses
               /\ new.observed = status.observed
               /\ new.conditions # <<>>
               /\ Since(new).status = st
               /\ Since(new).lastTransitionTime =
                    IF status.conditions # <<>> /\ Since(status).status = st
                    THEN Since(status).lastTransitionTime ELSE t
<1> DEFINE new == SetReadyCondition(status, st, state, t)
<1>1. status.conditions \in Seq(Conditions(Nat))
    BY DEF Statuses
<1>2. new = [status EXCEPT !.conditions = SetCondition(status.conditions, "Ready", st, state, t),
                           !.state = state]
    BY DEF SetReadyCondition
<1>3. new.conditions = SetCondition(status.conditions, "Ready", st, state, t)
      /\ new.observed = status.observed /\ new.state = state
    BY <1>2 DEF Statuses
<1>4. SetCondition(status.conditions, "Ready", st, state, t) \in Seq(Conditions(Nat))
    BY <1>1, ConditionSet
<1>5. new \in Statuses
    BY <1>2, <1>4 DEF Statuses
<1> HIDE DEF new
<1> DEFINE cs == SetCondition(status.conditions, "Ready", st, state, t)
<1>6. FirstSet(cs, status.conditions, st, t)
    BY <1>1, ConditionSet
<1> HIDE DEF cs
<1>7. new.conditions = cs
    BY <1>3 DEF cs
<1>8. new = SetReadyCondition(status, st, state, t)
    BY DEF new
<1> QED BY <1>3, <1>5, <1>6, <1>7, <1>8 DEF Since, FirstSet
-----------------------------------------------------------------------------
(* Types.                                                                  *)

\* Delays after which there is another round.
Delays(ds) == ds \subseteq Nat /\ \A d \in ds : d <= Longest

LEMMA RateLimitedDelays == Delays(RateLimited) /\ Delays({})
BY Constants DEF Delays

\* What the deferred function leaves.
LEMMA Observed ==
    ASSUME TypeOK, NEW p \in Projects, NEW failed \in BOOLEAN, NEW delays, Delays(delays),
           Observe(p, failed, delays)
    PROVE  /\ pc' = "status"
           /\ local' \in Projects /\ local'.ttl = p.ttl
           /\ Delays(result')
           /\ errors' \in Nat \cup {Absent}
           /\ gauges' \in Gauges \cup {Absent}
           /\ gauges' = IF Kept(p) THEN GaugesOf(p) ELSE Absent
<1> DEFINE status == [p.status EXCEPT !.observed = TRUE]
<1>1. Timestamp(now) \in Nat /\ startedAt \in Nat
    BY TimestampType DEF TypeOK
<1>2. p.status \in Statuses
    BY DEF Projects, Statuses
<1>3. status \in Statuses
    BY <1>2 DEF Statuses
<1>4. SetReadyCondition(status, "False", "Error", Timestamp(now)) \in Statuses
    <2>1. "False" \in ConditionStatuses /\ "Error" \in States
        BY DEF ConditionStatuses, States
    <2> HIDE DEF status
    <2> QED BY <1>1, <1>3, <2>1, ReadyConditionSet
<1>5. local' \in Projects /\ local'.ttl = p.ttl
    <2>1. \E s \in Statuses : local' = [p EXCEPT !.status = s]
        BY <1>3, <1>4 DEF Observe
    <2> QED BY <2>1 DEF Projects, Statuses
<1>6. errors' \in Nat \cup {Absent}
    BY Constants DEF Observe, SetSeries, Total, Least, TypeOK
<1>7. gauges' = IF Kept(p) THEN GaugesOf(p) ELSE Absent
    BY DEF Observe, SetSeries
<1>8. gauges' \in Gauges \cup {Absent}
    BY <1>1, <1>7, GaugesType
<1>9. pc' = "status" /\ result' \in {RateLimited, delays}
    BY DEF Observe
<1>10. Delays(result')
    BY <1>9, RateLimitedDelays
<1> QED BY <1>5, <1>6, <1>7, <1>8, <1>9, <1>10

LEMMA ReadyType ==
    ASSUME TypeOK, NEW p \in Projects, NEW st \in ConditionStatuses, NEW state \in States
    PROVE  /\ Ready(p, st, state) \in Projects
           /\ Ready(p, st, state).creationTimestamp = p.creationTimestamp
           /\ Ready(p, st, state).ttl = p.ttl
           /\ Ready(p, st, state).deleting = p.deleting
           /\ Ready(p, st, state).guarded = p.guarded
           /\ Ready(p, st, state).status = SetReadyCondition(p.status, st, state, Timestamp(now))
<1>1. Timestamp(now) \in Nat
    BY TimestampType DEF TypeOK
<1>2. p.status \in Statuses
    BY DEF Projects, Statuses
<1>3. SetReadyCondition(p.status, st, state, Timestamp(now)) \in Statuses
    BY <1>1, <1>2, ReadyConditionSet
<1> QED BY <1>3 DEF Ready, Projects, Statuses

\* The steps of a reconciliation that end in an observation of a project p which
\* is stored, or has the same TTL and deletion as the copy that was read.
Works == FirstSeen \/ AddFinalizer \/ DependentsReconciled \/ RemoveFinalizerFails

SameProject(p, q) ==
    /\ p.creationTimestamp = q.creationTimestamp
    /\ p.ttl = q.ttl
    /\ p.deleting = q.deleting

Ends(p, failed, delays) ==
    /\ Observe(p, failed, delays)
    /\ Delays(delays)
    /\ SameProject(p, local) \/ (p = project' /\ p.guarded)

SomehowEnds == \E p \in Projects, failed \in BOOLEAN : \E delays : Ends(p, failed, delays)

\* What else such a step leaves.
Kind ==
    /\ pc = "reconcile"
    /\ UNCHANGED <<now, created, changedAt, due, startedAt, endedBy, missedAt>>
    /\ outdated' \in BOOLEAN /\ (outdated => outdated')
    /\ project' = project \/ (Exists /\ project' = [project EXCEPT !.guarded = TRUE])
    /\ faults' \in Nat
    /\ SomehowEnds

LEMMA FaultsType ==
    ASSUME TypeOK, CallFails \/ Fault \/ UNCHANGED faults
    PROVE  faults' \in Nat
BY DEF TypeOK, CallFails, Fault

LEMMA ReadyEnds ==
    ASSUME TypeOK, local \in Projects, NEW st \in ConditionStatuses, NEW state \in States,
           NEW delays, Delays(delays), Observe(Ready(local, st, state), FALSE, delays)
    PROVE  SomehowEnds
<1> DEFINE p == Ready(local, st, state)
<1>1. p \in Projects /\ SameProject(p, local)
    BY ReadyType DEF SameProject
<1>2. Observe(p, FALSE, delays)
    OBVIOUS
<1> HIDE DEF p
<1> QED BY <1>1, <1>2 DEF Ends, SomehowEnds

LEMMA FailureEnds ==
    ASSUME local \in Projects, NEW b \in BOOLEAN,
           Observe([local EXCEPT !.guarded = b], TRUE, {})
    PROVE  SomehowEnds
<1> DEFINE p == [local EXCEPT !.guarded = b]
<1>1. p \in Projects /\ SameProject(p, local)
    BY DEF Projects, SameProject
<1>2. Observe(p, TRUE, {})
    OBVIOUS
<1> HIDE DEF p
<1> QED BY <1>1, <1>2, RateLimitedDelays DEF Ends, SomehowEnds

LEMMA WorksKind ==
    ASSUME MetricsTypes, Works
    PROVE  Kind
<1>1. TypeOK /\ pc = "reconcile" /\ local \in Projects /\ (~outdated => Exists)
    BY DEF MetricsTypes, Working, Works, Step, FirstSeen, AddFinalizer, DependentsReconciled,
           RemoveFinalizerFails
<1>2. outdated \in BOOLEAN
    BY <1>1 DEF TypeOK
<1>3. CASE FirstSeen
    <2>1. SomehowEnds
        BY <1>1, <1>3, RateLimitedDelays, ReadyEnds DEF FirstSeen, ConditionStatuses, States
    <2>2. faults' \in Nat
        BY <1>1, <1>3, FaultsType DEF FirstSeen
    <2> QED BY <1>1, <1>2, <1>3, <2>1, <2>2 DEF FirstSeen, Step, Kind
<1>4. CASE AddFinalizer
    <2>1. faults' \in Nat
        BY <1>1, <1>4, FaultsType DEF AddFinalizer, AnswerLost
    <2>2. CASE /\ ~outdated
               /\ project' = [project EXCEPT !.guarded = TRUE]
               /\ Observe(project', FALSE, RateLimited)
               /\ UNCHANGED <<outdated, faults>>
        <3>1. Exists /\ project \in Projects
            BY <1>1, <2>2 DEF TypeOK, Exists
        <3>2. project' \in Projects /\ project'.guarded
            BY <2>2, <3>1 DEF Projects
        <3>3. SomehowEnds
            BY <2>2, <3>2, RateLimitedDelays DEF Ends, SomehowEnds
        <3> QED BY <1>1, <1>2, <1>4, <2>1, <2>2, <3>1, <3>3 DEF AddFinalizer, Step, Kind
    <2>3. CASE /\ Observe([local EXCEPT !.guarded = TRUE], TRUE, {})
               /\ UNCHANGED <<project, outdated>>
        <3>1. SomehowEnds
            BY <1>1, <2>3, FailureEnds
        <3> QED BY <1>1, <1>2, <1>4, <2>1, <2>3, <3>1 DEF AddFinalizer, Step, Kind
    <2>4. CASE /\ AnswerLost
               /\ project' = [project EXCEPT !.guarded = TRUE]
               /\ outdated' = TRUE
               /\ Observe([local EXCEPT !.guarded = TRUE], TRUE, {})
        <3>1. SomehowEnds
            BY <1>1, <2>4, FailureEnds
        <3>2. Exists
            BY <1>1, <2>4 DEF AnswerLost
        <3> QED BY <1>1, <1>4, <2>1, <2>4, <3>1, <3>2 DEF AddFinalizer, Step, Kind
    <2> QED BY <1>4, <2>2, <2>3, <2>4 DEF AddFinalizer
<1>5. CASE DependentsReconciled
    <2>1. faults' \in Nat
        BY <1>1, <1>5, FaultsType DEF DependentsReconciled, Outcome
    <2>2. Delays({RequeueReady}) /\ Delays({Second}) /\ Delays({RequeueBlocked})
        BY Constants DEF Delays, RequeueReady
    <2>3. CASE \E st \in ConditionStatuses, state \in States,
                  delay \in {RequeueReady, Second, RequeueBlocked} :
                    Outcome(st, state, delay)
        <3>1. PICK st \in ConditionStatuses, state \in States,
                   delay \in {RequeueReady, Second, RequeueBlocked} :
                    Observe(Ready(local, st, state), FALSE, {delay})
            BY <2>3 DEF Outcome
        <3>2. Delays({delay})
            BY <2>2, <3>1
        <3>3. SomehowEnds
            BY <1>1, <3>1, <3>2, ReadyEnds
        <3> QED BY <1>1, <1>2, <1>5, <2>1, <3>3 DEF DependentsReconciled, Step, Kind
    <2>4. CASE CallFails /\ Observe(local, TRUE, {})
        <3>1. SomehowEnds
            BY <1>1, <2>4, RateLimitedDelays DEF Ends, SomehowEnds, SameProject
        <3> QED BY <1>1, <1>2, <1>5, <2>1, <3>1 DEF DependentsReconciled, Step, Kind
    <2> QED BY <1>5, <2>3, <2>4 DEF DependentsReconciled, ConditionStatuses, States
<1>6. CASE RemoveFinalizerFails
    <2>1. SomehowEnds
        BY <1>1, <1>6, FailureEnds DEF RemoveFinalizerFails
    <2>2. faults' \in Nat
        BY <1>1, <1>6, FaultsType DEF RemoveFinalizerFails
    <2> QED BY <1>1, <1>2, <1>6, <2>1, <2>2 DEF RemoveFinalizerFails, Step, Kind
<1> QED BY <1>3, <1>4, <1>5, <1>6 DEF Works

\* What Reconcile leaves when it returns.
LEMMA Returns ==
    ASSUME TypeOK, NEW delays, delays \subseteq Nat, Return(delays)
    PROVE  /\ pc' = "idle" /\ local' = NoProject /\ outdated' \in BOOLEAN /\ ~outdated'
           /\ result' \subseteq Nat /\ startedAt' = 0
           /\ due' \in Nat /\ due' <= due
           /\ \E d \in delays : due' <= now + d
<1>1. now \in Nat /\ due \in Nat
    BY DEF TypeOK
<1>2. PICK d \in delays : due' = Least(due, now + d)
    BY DEF Return
<1>3. due' \in Nat /\ due' <= due /\ due' <= now + d
    BY <1>1, <1>2 DEF Least
<1> QED BY <1>3 DEF Return

LEMMA ReturnsLimited ==
    ASSUME TypeOK, Return(RateLimited)
    PROVE  due' <= now + MaxBackoff
<1>1. PICK d \in RateLimited : due' <= now + d
    BY Returns, Constants
<1>2. now \in Nat /\ due' \in Nat /\ d \in Nat /\ d <= MaxBackoff
    BY <1>1, Returns, Constants DEF TypeOK
<1> QED BY <1>1, <1>2, Constants

LEMMA ByUserType ==
    ASSUME MetricsTypes, NEW p, ByUser(p)
    PROVE  /\ project' = p /\ due' \in Nat /\ due' <= due /\ due' <= now
           /\ outdated' \in BOOLEAN
           /\ pc \in {"idle", "get"} => ~outdated'
           /\ pc \in {"reconcile", "status"} => outdated'
           /\ UNCHANGED <<now, pc, local, startedAt, result, errors, gauges, faults, missedAt>>
<1>1. now \in Nat /\ due \in Nat
    BY DEF MetricsTypes, TypeOK
<1>2. project' = p /\ due' \in Nat /\ due' <= due /\ due' <= now
    BY <1>1 DEF ByUser, Least
<1>3. /\ outdated' = (local # NoProject)
      /\ UNCHANGED <<now, pc, local, startedAt, result, errors, gauges, faults, missedAt>>
    BY DEF ByUser, localVars
<1>4. /\ pc \in {"idle", "get"} => local = NoProject
      /\ pc \in {"reconcile", "status"} => local # NoProject
    BY ValuesAssumption DEF MetricsTypes, Idle, Working
<1> QED BY <1>2, <1>3, <1>4

LEMMA InitTypes ==
    ASSUME Init
    PROVE  MetricsTypes
<1>1. {now, created, changedAt, due, startedAt, faults} \subseteq Nat /\ missedAt \in Int
    BY Constants DEF Init
<1> QED BY <1>1 DEF Init, MetricsTypes, TypeOK, Idle

\* What the actions of others write.
LEMMA CreateProject ==
    ASSUME TypeOK, NEW a \in Annotations, Create(a)
    PROVE  project' \in Projects /\ project'.status.conditions = <<>> /\ ~project'.status.observed
<1>1. Timestamp(now) \in Nat
    BY TimestampType DEF TypeOK
<1>2. <<>> \in Seq(Conditions(Nat)) /\ "" \in States
    BY EmptySeq DEF States
<1> QED BY <1>1, <1>2 DEF Create, ByUser, Projects

LEMMA SetTTLProject ==
    ASSUME TypeOK, NEW a \in Annotations, SetTTL(a)
    PROVE  project \in Projects /\ project' \in Projects /\ project'.status = project.status
BY DEF SetTTL, ByUser, Projects, TypeOK, Exists

LEMMA DeleteProject ==
    ASSUME TypeOK, Delete
    PROVE  /\ project \in Projects
           /\ project' = [project EXCEPT !.deleting = TRUE] \/ project' = NoProject
           /\ project' \in Projects \cup {NoProject}
<1>1. project \in Projects
    BY DEF Delete, TypeOK, Exists
<1>2. project' = [project EXCEPT !.deleting = TRUE] \/ project' = NoProject
    BY DEF Delete, ByUser
<1> QED BY <1>1, <1>2 DEF Projects

LEMMA StatusProject ==
    ASSUME MetricsTypes, UpdateStatus
    PROVE  /\ local \in Projects
           /\ \/ /\ ~outdated /\ Exists
                 /\ project \in Projects
                 /\ project' = [project EXCEPT !.status = local.status]
                 /\ project' \in Projects
              \/ project' = project
<1>1. TypeOK /\ local \in Projects /\ (~outdated => Exists)
    BY DEF MetricsTypes, Working, UpdateStatus
<1>2. CASE /\ ~outdated
           /\ project' = [project EXCEPT !.status = local.status]
    <2>1. Exists /\ project \in Projects
        BY <1>1, <1>2 DEF TypeOK, Exists
    <2> QED BY <1>1, <1>2, <2>1 DEF Projects
<1> QED BY <1>1, <1>2 DEF UpdateStatus, AnswerLost

\* How UpdateStatus returns.
LEMMA StatusReturns ==
    ASSUME MetricsTypes, UpdateStatus
    PROVE  /\ pc = "status" /\ pc' = "idle" /\ local' = NoProject
           /\ outdated' \in BOOLEAN /\ ~outdated'
           /\ result' \subseteq Nat /\ startedAt' = 0 /\ faults' \in Nat
           /\ due' \in Nat /\ due' <= due /\ due' <= now + Longest
<1>1. TypeOK /\ pc = "status" /\ Delays(result)
    BY DEF MetricsTypes, TypeOK, Delays, UpdateStatus
<1>2. faults' \in Nat
    BY <1>1, FaultsType DEF UpdateStatus, AnswerLost
<1>3. PICK delays : Delays(delays) /\ Return(delays)
    BY <1>1, RateLimitedDelays DEF UpdateStatus
<1>4. PICK d \in delays : due' <= now + d
    BY <1>1, <1>3, Returns DEF Delays
<1>5. /\ pc' = "idle" /\ local' = NoProject /\ outdated' \in BOOLEAN /\ ~outdated'
      /\ result' \subseteq Nat /\ startedAt' = 0
      /\ due' \in Nat /\ due' <= due
    BY <1>1, <1>3, Returns DEF Delays
<1>6. now \in Nat /\ d \in Nat /\ d <= Longest
    BY <1>1, <1>3 DEF TypeOK, Delays
<1> QED BY <1>1, <1>2, <1>4, <1>5, <1>6, Constants

\* Reconcile removes the last finalizer of the project: its series are gone.
LEMMA Ended ==
    ASSUME MetricsTypes, RemoveFinalizer \/ RemoveFinalizerAnswerLost
    PROVE  /\ pc = "reconcile" /\ pc' \in {"idle", "status"}
           /\ pc' = "status" =>
                local' \in Projects /\ outdated' \in BOOLEAN /\ outdated' /\ Delays(result')
                                /\ due' = due /\ startedAt' = startedAt
           /\ pc' = "idle" =>
                local' = NoProject /\ outdated' \in BOOLEAN /\ ~outdated' /\ result' \subseteq Nat
                              /\ due' \in Nat /\ startedAt' = 0
           /\ project' = NoProject /\ endedBy' = "operator"
           /\ errors' = Absent /\ gauges' = Absent
           /\ faults' \in Nat
           /\ UNCHANGED <<now, created, changedAt, missedAt>>
<1> DEFINE p == [local EXCEPT !.guarded = FALSE]
<1>1. TypeOK /\ pc = "reconcile" /\ local \in Projects /\ local.deleting
    BY DEF MetricsTypes, Working, RemoveFinalizer, RemoveFinalizerAnswerLost, Removing
<1>2. p \in Projects /\ p.deleting /\ ~p.guarded
    BY <1>1 DEF Projects
<1>3. ~Kept(p)
    BY <1>2 DEF Kept
<1>4. faults' \in Nat
    BY <1>1, FaultsType DEF RemoveFinalizer, RemoveFinalizerAnswerLost, AnswerLost
<1>5. CASE RemoveFinalizer
    <2>1. SetSeries(p, FALSE) /\ Return({Never})
        BY <1>5 DEF RemoveFinalizer
    <2>2. {Never} \subseteq Nat
        BY Constants
    <2>3. /\ pc' = "idle" /\ local' = NoProject /\ outdated' \in BOOLEAN /\ ~outdated'
          /\ result' \subseteq Nat /\ startedAt' = 0 /\ due' \in Nat
        BY <1>1, <2>1, <2>2, Returns
    <2> HIDE DEF p
    <2>4. errors' = Absent /\ gauges' = Absent
        BY <1>3, <2>1 DEF SetSeries
    <2> QED BY <1>1, <1>4, <1>5, <2>3, <2>4 DEF RemoveFinalizer
<1>6. CASE RemoveFinalizerAnswerLost
    <2>1. Observe(p, TRUE, {})
        BY <1>6 DEF RemoveFinalizerAnswerLost
    <2> HIDE DEF p
    <2>2. pc' = "status" /\ local' \in Projects /\ Delays(result')
        BY <1>1, <1>2, <2>1, RateLimitedDelays, Observed
    <2>3. errors' = Absent /\ gauges' = Absent
        BY <1>3, <2>1 DEF Observe, SetSeries
    <2> QED BY <1>1, <1>4, <1>6, <2>2, <2>3 DEF RemoveFinalizerAnswerLost, Step
<1> QED BY <1>5, <1>6

LEMMA TypesStep ==
    ASSUME MetricsTypes, [Next]_vars
    PROVE  MetricsTypes'
<1> USE DEF MetricsTypes, Idle, Working
<1>0. /\ TypeOK /\ ValuesAssumption
      /\ {now, created, changedAt, due, faults} \subseteq Nat
      /\ pc \in {"idle", "get", "reconcile", "status"}
    BY ValuesAssumption DEF TypeOK
<1>1. ASSUME \E a \in Annotations : Create(a) \/ SetTTL(a) PROVE MetricsTypes'
    <2>1. project' \in Projects
        BY <1>0, <1>1, CreateProject, SetTTLProject
    <2>2. created' \in {created, created + 1} /\ changedAt' = now
          /\ endedBy' \in {endedBy, "nobody"} /\ \E p : ByUser(p)
        BY <1>1 DEF Create, SetTTL
    <2>3. /\ due' \in Nat /\ outdated' \in BOOLEAN
          /\ pc \in {"idle", "get"} => ~outdated'
          /\ UNCHANGED <<now, pc, local, startedAt, result, errors, gauges, faults, missedAt>>
        BY <2>2, ByUserType
    <2> QED BY <1>0, <2>1, <2>2, <2>3 DEF TypeOK, Exists, ValuesAssumption
<1>2. ASSUME Delete PROVE MetricsTypes'
    <2>1. project' \in Projects \cup {NoProject}
        BY <1>0, <1>2, DeleteProject
    <2>2. created' = created /\ changedAt' = changedAt /\ endedBy' \in {endedBy, "user"}
          /\ \E p : ByUser(p)
        BY <1>2 DEF Delete
    <2>3. /\ due' \in Nat /\ outdated' \in BOOLEAN
          /\ pc \in {"idle", "get"} => ~outdated'
          /\ pc \in {"reconcile", "status"} => outdated'
          /\ UNCHANGED <<now, pc, local, startedAt, result, errors, gauges, faults, missedAt>>
        BY <2>2, ByUserType
    <2> QED BY <1>0, <2>1, <2>2, <2>3 DEF TypeOK
<1>3. ASSUME Begin PROVE MetricsTypes'
    BY <1>0, <1>3, Constants DEF Begin, TypeOK, storedVars, Exists
<1>4. ASSUME Get PROVE MetricsTypes'
    BY <1>0, <1>4 DEF Get, TypeOK, storedVars, Exists
<1>5. ASSUME NotFound \/ GetFails PROVE MetricsTypes'
    <2>1. PICK delays : delays \subseteq Nat /\ Return(delays)
        BY <1>5, Constants DEF NotFound, GetFails
    <2>2. /\ pc' = "idle" /\ local' = NoProject /\ outdated' \in BOOLEAN /\ ~outdated'
          /\ result' \subseteq Nat /\ startedAt' = 0 /\ due' \in Nat
        BY <1>0, <2>1, Returns
    <2>3. faults' \in Nat /\ missedAt' \in Int
        BY <1>0, <1>5, FaultsType DEF NotFound, GetFails, TypeOK
    <2>4. UNCHANGED <<now, storedVars, errors, gauges>>
        BY <1>5 DEF NotFound, GetFails
    <2> QED BY <1>0, <2>2, <2>3, <2>4 DEF TypeOK, storedVars
<1>6. ASSUME Works PROVE MetricsTypes'
    <2>1. Kind
        BY <1>6, WorksKind
    <2>2. PICK p \in Projects, failed \in BOOLEAN : \E delays : Ends(p, failed, delays)
        BY <2>1 DEF Kind, SomehowEnds
    <2>3. PICK delays : Delays(delays) /\ Observe(p, failed, delays)
        BY <2>2 DEF Ends
    <2>4. /\ pc' = "status" /\ local' \in Projects /\ Delays(result')
          /\ errors' \in Nat \cup {Absent} /\ gauges' \in Gauges \cup {Absent}
        BY <1>0, <2>3, Observed
    <2>5. project' \in Projects \cup {NoProject} /\ (Exists => project' \in Projects)
        BY <1>0, <2>1 DEF Kind, Projects, Exists, TypeOK
    <2>6. /\ faults' \in Nat /\ outdated' \in BOOLEAN /\ (outdated => outdated')
          /\ UNCHANGED <<now, created, changedAt, due, startedAt, endedBy, missedAt>>
          /\ pc = "reconcile"
        BY <2>1 DEF Kind
    <2> QED BY <1>0, <2>4, <2>5, <2>6 DEF TypeOK, Exists, ValuesAssumption, Delays
<1>7. ASSUME RemoveFinalizer \/ RemoveFinalizerAnswerLost PROVE MetricsTypes'
    BY <1>0, <1>7, Ended DEF TypeOK, Delays
<1>8. ASSUME UpdateStatus PROVE MetricsTypes'
    <2>1. project' \in Projects \cup {NoProject}
        BY <1>0, <1>8, StatusProject DEF TypeOK
    <2>2. UNCHANGED <<now, created, changedAt, endedBy, errors, gauges, missedAt>>
        BY <1>8 DEF UpdateStatus
    <2> QED BY <1>0, <1>8, <2>1, <2>2, StatusReturns DEF TypeOK
<1>9. ASSUME Restart PROVE MetricsTypes'
    <2>1. due' \in Nat /\ faults' \in Nat /\ changedAt' \in Nat
        BY <1>0, <1>9, FaultsType, Constants DEF Restart
    <2>2. UNCHANGED <<now, project, created, endedBy, missedAt>> /\ pc' = "idle"
        BY <1>9 DEF Restart
    <2>3. /\ local' = NoProject /\ outdated' \in BOOLEAN /\ ~outdated'
          /\ result' \subseteq Nat /\ startedAt' = 0
          /\ errors' = Absent /\ gauges' = Absent
        BY <1>9 DEF Restart
    <2> QED BY <1>0, <2>1, <2>2, <2>3 DEF TypeOK
<1>10. ASSUME Tick PROVE MetricsTypes'
    BY <1>0, <1>10 DEF Tick, TypeOK, storedVars, localVars, Exists
<1>11. ASSUME UNCHANGED vars PROVE MetricsTypes'
    BY <1>0, <1>11 DEF vars, TypeOK, storedVars, localVars, Exists
<1> QED BY <1>1, <1>2, <1>3, <1>4, <1>5, <1>6, <1>7, <1>8, <1>9, <1>10, <1>11
        DEF Next, Reconcile, Works
-----------------------------------------------------------------------------
(* What the steps do, for the invariants over time.                        *)

\* A user creates a project or sets its TTL.
Changed ==
    /\ project' \in Projects
    /\ Exists => project'.status = project.status
    /\ ~Exists => ~project'.status.observed
    /\ changedAt' = now
    /\ due' \in Nat /\ due' <= now
    /\ UNCHANGED <<now, pc, local, startedAt, errors, gauges, missedAt>>
    /\ pc \in {"reconcile", "status"} => outdated'

LEMMA ChangedByUser ==
    ASSUME MetricsTypes, NEW a \in Annotations, Create(a) \/ SetTTL(a)
    PROVE  Changed
<1>1. TypeOK
    BY DEF MetricsTypes
<1>2. project' \in Projects
    BY <1>1, CreateProject, SetTTLProject
<1>3. /\ Exists => project'.status = project.status
      /\ ~Exists => ~project'.status.observed
    BY <1>1, CreateProject, SetTTLProject DEF Create, SetTTL
<1>4. changedAt' = now /\ \E p : ByUser(p)
    BY DEF Create, SetTTL
<1>5. due' \in Nat /\ due' <= now
      /\ (pc \in {"reconcile", "status"} => outdated')
      /\ UNCHANGED <<now, pc, local, startedAt, errors, gauges, missedAt>>
    BY <1>4, ByUserType
<1> QED BY <1>2, <1>3, <1>4, <1>5 DEF Changed

\* A user deletes the project, or marks it as deleted.
Deleted ==
    /\ Exists
    /\ \/ project' = NoProject /\ endedBy' # "operator"
       \/ /\ project' \in Projects
          /\ project'.creationTimestamp = project.creationTimestamp
          /\ project'.ttl = project.ttl
          /\ project'.status = project.status
          /\ project'.deleting
          /\ endedBy' = endedBy
    /\ due' \in Nat /\ due' <= due
    /\ UNCHANGED <<now, changedAt, created, pc, local, startedAt, errors, gauges, missedAt>>
    /\ pc \in {"reconcile", "status"} => outdated'

LEMMA DeletedByUser ==
    ASSUME MetricsTypes, Delete
    PROVE  Deleted
<1>1. TypeOK /\ Exists
    BY DEF MetricsTypes, Delete
<1>2. project \in Projects
    BY <1>1, DeleteProject
<1>3. PICK p : ByUser(p)
    BY DEF Delete
<1>4. due' \in Nat /\ due' <= due
      /\ (pc \in {"reconcile", "status"} => outdated')
      /\ UNCHANGED <<now, pc, local, startedAt, errors, gauges, missedAt>>
    BY <1>3, ByUserType
<1>5. UNCHANGED <<changedAt, created>>
    BY DEF Delete
<1>6. CASE project.guarded
    <2>1. project' = [project EXCEPT !.deleting = TRUE] /\ endedBy' = endedBy
        BY <1>6 DEF Delete, ByUser
    <2> QED BY <1>1, <1>2, <1>4, <1>5, <2>1 DEF Deleted, Projects
<1>7. CASE ~project.guarded
    <2>1. project' = NoProject /\ endedBy' # "operator"
        BY <1>7 DEF Delete, ByUser
    <2> QED BY <1>1, <1>4, <1>5, <2>1 DEF Deleted
<1> QED BY <1>6, <1>7

\* The project is not there, or could not be read.
Unread ==
    /\ pc = "get" /\ pc' = "idle"
    /\ due' \in Nat /\ due' <= due
    /\ \/ ~Exists /\ missedAt' = missedAt
       \/ missedAt' = now /\ due' <= now + MaxBackoff
    /\ UNCHANGED <<now, project, created, changedAt, endedBy, errors, gauges>>

LEMMA GetUnread ==
    ASSUME MetricsTypes, NotFound \/ GetFails
    PROVE  Unread
<1>1. TypeOK
    BY DEF MetricsTypes
<1>2. PICK delays : delays \subseteq Nat /\ Return(delays)
    BY Constants DEF NotFound, GetFails
<1>3. pc' = "idle" /\ due' \in Nat /\ due' <= due
    BY <1>1, <1>2, Returns
<1>4. GetFails => due' <= now + MaxBackoff
    BY <1>1, ReturnsLimited DEF GetFails
<1> QED BY <1>3, <1>4 DEF NotFound, GetFails, Unread, storedVars

\* Reconcile returns and leaves the project.
Returned ==
    /\ pc = "status" /\ pc' = "idle"
    /\ \/ project' = project
       \/ /\ Exists /\ project' \in Projects
          /\ project'.creationTimestamp = project.creationTimestamp
          /\ project'.ttl = project.ttl
          /\ project'.deleting = project.deleting
          /\ project'.status = local.status
          /\ ~outdated
    /\ due' \in Nat /\ due' <= due /\ due' <= now + Longest
    /\ UNCHANGED <<now, changedAt, created, endedBy, errors, gauges, missedAt>>

LEMMA ReturnedFromStatus ==
    ASSUME MetricsTypes, UpdateStatus
    PROVE  Returned
<1>1. \/ project' = project
      \/ /\ Exists /\ project' \in Projects
         /\ project'.creationTimestamp = project.creationTimestamp
         /\ project'.ttl = project.ttl
         /\ project'.deleting = project.deleting
         /\ project'.status = local.status
         /\ ~outdated
    BY StatusProject DEF Projects
<1>2. UNCHANGED <<now, changedAt, created, endedBy, errors, gauges, missedAt>>
    BY DEF UpdateStatus
<1> QED BY <1>1, <1>2, StatusReturns DEF Returned

Removed == RemoveFinalizer \/ RemoveFinalizerAnswerLost

\* The cases of a step.
LEMMA Cases ==
    ASSUME MetricsTypes, [Next]_vars
    PROVE  \/ Changed
           \/ Deleted
           \/ Begin
           \/ Get
           \/ Unread
           \/ Kind
           \/ Removed
           \/ Returned
           \/ Restart
           \/ Tick
           \/ UNCHANGED vars
<1>1. CASE \E a \in Annotations : Create(a) \/ SetTTL(a)
    BY <1>1, ChangedByUser
<1>2. CASE Delete
    BY <1>2, DeletedByUser
<1>3. CASE NotFound \/ GetFails
    BY <1>3, GetUnread
<1>4. CASE Works
    BY <1>4, WorksKind
<1>5. CASE UpdateStatus
    BY <1>5, ReturnedFromStatus
<1> QED BY <1>1, <1>2, <1>3, <1>4, <1>5 DEF Next, Reconcile, Works, Removed
-----------------------------------------------------------------------------
(* Time.                                                                   *)

LEMMA Times ==
    ASSUME MetricsTypes
    PROVE  /\ {now, changedAt, startedAt, due} \subseteq Nat /\ missedAt \in Int
           /\ {Latency, Longest, MaxBackoff} \subseteq Nat /\ MaxBackoff <= Longest
           /\ pc \in {"idle", "get", "reconcile", "status"}
BY Constants DEF MetricsTypes, TypeOK

LEMMA InTimeStep ==
    ASSUME MetricsTypes, InTime, [Next]_vars
    PROVE  InTime'
<1>1. {now, changedAt, startedAt, Latency} \subseteq Nat /\ missedAt \in Int
    BY Times
<1>2. CASE Changed
    BY <1>1, <1>2 DEF Changed, InTime
<1>3. CASE Deleted
    BY <1>3 DEF Deleted, InTime
<1>4. CASE Begin
    BY <1>1, <1>4 DEF Begin, InTime, storedVars
<1>5. CASE Get
    BY <1>1, <1>5 DEF Get, InTime, storedVars
<1>6. CASE Unread
    BY <1>1, <1>6 DEF Unread, InTime
<1>7. CASE Kind
    BY <1>7 DEF Kind, InTime
<1>8. CASE Removed
    <2>1. UNCHANGED <<now, changedAt, missedAt>> /\ (pc' # "idle" => startedAt' = startedAt)
          /\ pc = "reconcile"
        BY <1>8, Ended DEF Removed
    <2> QED BY <2>1 DEF InTime
<1>9. CASE Returned
    BY <1>9 DEF Returned, InTime
<1>10. CASE Restart
    BY <1>1, <1>10 DEF Restart, InTime
<1>11. CASE Tick
    BY <1>1, <1>11 DEF Tick, InTime, storedVars, localVars
<1>12. CASE UNCHANGED vars
    BY <1>12 DEF vars, InTime, storedVars, localVars
<1> QED BY <1>2, <1>3, <1>4, <1>5, <1>6, <1>7, <1>8, <1>9, <1>10, <1>11, <1>12, Cases

LEMMA FreshOrDueStep ==
    ASSUME MetricsTypes, InTime, FreshOrDue, [Next]_vars
    PROVE  FreshOrDue'
<1>1. {now, changedAt, startedAt, due} \subseteq Nat
    BY Times
<1>2. CASE Changed
    BY <1>1, <1>2 DEF Changed, FreshOrDue, InTime
<1>3. CASE Deleted
    BY <1>1, <1>3 DEF Deleted, FreshOrDue, Exists, Fresh
<1>4. CASE Get
    BY <1>4 DEF Get, FreshOrDue, storedVars, Exists, Fresh
<1>5. CASE Begin \/ Unread \/ Kind \/ Removed \/ Returned \/ Restart
    <2>1. Kind => pc' = "status"
        BY DEF Kind, SomehowEnds, Ends, Observe
    <2>2. pc' # "reconcile"
        BY <1>5, <2>1, Ended DEF Begin, Unread, Removed, Returned, Restart
    <2> QED BY <2>2 DEF FreshOrDue
<1>6. CASE Tick
    BY <1>6 DEF Tick, FreshOrDue, Fresh, Exists, storedVars, localVars
<1>7. CASE UNCHANGED vars
    BY <1>7 DEF vars, FreshOrDue, Fresh, Exists, storedVars, localVars
<1> QED BY <1>2, <1>3, <1>4, <1>5, <1>6, <1>7, Cases

\* Which project's series an observation sets: those of the stored one as it
\* was when the reconciliation began, or they are due again.
LEMMA SeriesOf ==
    ASSUME MetricsTypes, FreshOrDue, Kind, Exists
    PROVE  /\ pc = "reconcile" /\ pc' = "status"
           /\ project \in Projects /\ project' \in Projects
           /\ SameProject(project', project)
           /\ UNCHANGED <<now, changedAt, due, startedAt, missedAt>>
           /\ \/ due <= changedAt /\ startedAt <= changedAt
              \/ \E p \in Projects :
                    /\ p.ttl = project.ttl
                    /\ p.creationTimestamp = project.creationTimestamp
                    /\ gauges' = IF Kept(p) THEN GaugesOf(p) ELSE Absent
                    /\ ~Kept(p) => project.deleting
<1>1. TypeOK /\ pc = "reconcile" /\ project \in Projects
    BY DEF MetricsTypes, Kind, TypeOK, Exists
<1>2. project' \in Projects /\ SameProject(project', project)
    BY <1>1 DEF Kind, Projects, SameProject
<1>3. PICK p \in Projects, failed \in BOOLEAN : \E delays : Ends(p, failed, delays)
    BY DEF Kind, SomehowEnds
<1>4. PICK delays : Ends(p, failed, delays)
    BY <1>3
<1>5. Delays(delays) /\ Observe(p, failed, delays)
    BY <1>4 DEF Ends
<1>6. pc' = "status" /\ gauges' = IF Kept(p) THEN GaugesOf(p) ELSE Absent
    BY <1>1, <1>5, Observed
<1>7. UNCHANGED <<now, changedAt, due, startedAt, missedAt>>
    BY DEF Kind
<1>8. CASE p = project' /\ p.guarded
    <2>1. p.ttl = project.ttl /\ p.creationTimestamp = project.creationTimestamp /\ Kept(p)
        BY <1>2, <1>8 DEF SameProject, Kept
    <2> QED BY <1>1, <1>2, <1>6, <1>7, <2>1
<1>9. CASE SameProject(p, local) /\ Fresh
    <2>1. /\ p.ttl = project.ttl /\ p.creationTimestamp = project.creationTimestamp
          /\ ~Kept(p) => project.deleting
        BY <1>9 DEF SameProject, Fresh, Kept
    <2> QED BY <1>1, <1>2, <1>6, <1>7, <2>1
<1>10. CASE due <= changedAt /\ startedAt <= changedAt
    BY <1>1, <1>2, <1>6, <1>7, <1>10
<1> QED BY <1>1, <1>4, <1>8, <1>9, <1>10 DEF Ends, FreshOrDue

LEMMA RightOrCorrectedStep ==
    ASSUME MetricsTypes, InTime, FreshOrDue, RightOrCorrected, [Next]_vars
    PROVE  RightOrCorrected'
<1>1. /\ {now, changedAt, startedAt, due, Latency, MaxBackoff} \subseteq Nat /\ missedAt \in Int
      /\ pc \in {"idle", "get", "reconcile", "status"}
    BY Times
<1>2. CASE Changed
    BY <1>1, <1>2 DEF Changed, RightOrCorrected, ToBeCorrected, Shortly, InTime
<1>3. CASE Deleted
    <2>1. Early' => Early /\ Deadline' = Deadline /\ project'.ttl = project.ttl
        BY <1>3 DEF Deleted, Early, Exists, Deadline
    <2> QED BY <1>1, <1>3, <2>1 DEF Deleted, RightOrCorrected, Right, ToBeCorrected, Shortly
<1>4. CASE Begin
    <2>1. UNCHANGED <<project, gauges, now, changedAt, missedAt>>
        BY <1>4 DEF Begin, storedVars
    <2>2. Early' = Early /\ Right' = Right
        BY <2>1 DEF Early, Right, Exists, Deadline
    <2>3. pc = "idle" /\ pc' = "get" /\ startedAt' = now
        BY <1>4 DEF Begin
    <2> QED BY <2>1, <2>2, <2>3 DEF RightOrCorrected, ToBeCorrected, Shortly
<1>5. CASE Get
    <2>1. UNCHANGED <<project, gauges, now, changedAt, missedAt, startedAt>>
        BY <1>5 DEF Get, storedVars
    <2>2. Early' = Early /\ Right' = Right
        BY <2>1 DEF Early, Right, Exists, Deadline
    <2>3. pc = "get" /\ pc' = "reconcile"
        BY <1>5 DEF Get
    <2> QED BY <2>1, <2>2, <2>3 DEF RightOrCorrected, ToBeCorrected, Shortly
<1>6. CASE Unread
    <2>1. UNCHANGED <<project, gauges, now, changedAt>> /\ pc' = "idle"
        BY <1>6 DEF Unread
    <2>2. Early' => Exists
        BY <2>1 DEF Early, Exists
    <2>3. CASE missedAt' = now /\ due' <= now + MaxBackoff
        BY <1>1, <2>1, <2>3 DEF RightOrCorrected, ToBeCorrected, Shortly, InTime
    <2> QED BY <1>6, <2>2, <2>3 DEF Unread, RightOrCorrected
<1>7. CASE Kind
    <2> SUFFICES ASSUME Early' PROVE Right' \/ ToBeCorrected'
        BY DEF RightOrCorrected
    <2>1. Exists
        BY <1>7 DEF Kind, Early, Exists
    <2>2. /\ pc' = "status" /\ project \in Projects
          /\ SameProject(project', project)
          /\ UNCHANGED <<now, changedAt, due, startedAt>>
        BY <1>7, <2>1, SeriesOf
    <2>3. CASE due <= changedAt /\ startedAt <= changedAt
        BY <2>2, <2>3 DEF ToBeCorrected
    <2>4. ASSUME NEW p \in Projects, p.ttl = project.ttl,
                 p.creationTimestamp = project.creationTimestamp,
                 gauges' = IF Kept(p) THEN GaugesOf(p) ELSE Absent
          PROVE  Right'
        <3>1. GaugesOf(p).expired = 1 /\ p.ttl \in TTLs \cup {NoTTL}
            BY <2>2, <2>4 DEF Early, SameProject
        <3>2. p.ttl # NoTTL
            BY <3>1 DEF GaugesOf
        <3>3. startedAt > p.creationTimestamp + p.ttl
            BY <1>1, <3>1, <3>2, GaugesExpired
        <3>4. startedAt <= now /\ now' = now
            BY <1>7, <2>2 DEF InTime, Kind
        <3>5. Deadline' = p.creationTimestamp + p.ttl
            BY <2>2, <2>4 DEF Deadline, SameProject
        <3>6. p.creationTimestamp + p.ttl \in Int
            <4>1. p.creationTimestamp \in Nat /\ p.ttl \in Int
                BY <3>1, <3>2, MetricsAssumption DEF Projects
            <4> QED BY <4>1
        <3> QED BY <1>1, <2>2, <2>4, <3>2, <3>3, <3>4, <3>5, <3>6 DEF SameProject, Right
    <2> QED BY <1>7, <2>1, <2>3, <2>4, SeriesOf
<1>8. CASE Removed
    BY <1>8, Ended DEF Removed, RightOrCorrected, Early
<1>9. CASE Returned
    <2>1. Early' => Early /\ Deadline' = Deadline /\ project'.ttl = project.ttl
        BY <1>9 DEF Returned, Early, Exists, Deadline
    <2> QED BY <1>1, <1>9, <2>1
            DEF Returned, RightOrCorrected, Right, ToBeCorrected, Shortly, InTime
<1>10. CASE Restart
    BY <1>10 DEF Restart, RightOrCorrected, Early
<1>11. CASE Tick
    <2>1. Early' => Early /\ Deadline' = Deadline /\ project' = project
        BY <1>11 DEF Tick, storedVars, Early, Exists, Deadline
    <2>2. /\ pc = "idle" => due > now
          /\ now' = now + 1
          /\ UNCHANGED <<pc, due, changedAt, startedAt, missedAt>>
        BY <1>11 DEF Tick, storedVars, localVars
    <2>3. Early /\ project.ttl # NoTTL => Deadline \in Int
        <3> SUFFICES ASSUME Early, project.ttl # NoTTL PROVE Deadline \in Int
            OBVIOUS
        <3>1. project \in Projects /\ project.ttl \in TTLs
            BY DEF Early, MetricsTypes, TypeOK, Exists
        <3>2. project.creationTimestamp \in Nat /\ project.ttl \in Int
            BY <3>1, MetricsAssumption DEF Projects
        <3> QED BY <3>2 DEF Deadline
    <2>4. Right /\ Early' => Right'
        BY <1>1, <2>1, <2>2, <2>3 DEF Right
    <2>5. ToBeCorrected => ToBeCorrected'
        BY <1>1, <2>2 DEF ToBeCorrected, Shortly
    <2> QED BY <2>1, <2>4, <2>5 DEF RightOrCorrected
<1>12. CASE UNCHANGED vars
    BY <1>12 DEF vars, RightOrCorrected, Early, Right, ToBeCorrected, Shortly, Exists, Deadline,
                 storedVars, localVars
<1> QED BY <1>2, <1>3, <1>4, <1>5, <1>6, <1>7, <1>8, <1>9, <1>10, <1>11, <1>12, Cases

\* A step that leaves the TTL, the series and the reasons for another round.
LEMMA StaysDue ==
    ASSUME ReportedOrDue, Exists' => Exists, project'.ttl = project.ttl,
           project'.creationTimestamp = project.creationTimestamp, changedAt' = changedAt,
           Reported => Reported',
           \A t \in Nat : DueBy(t) => DueBy(t)'
    PROVE  ReportedOrDue'
<1>1. \A t \in Nat : LastMoment(t)' => LastMoment(t)
    BY DEF LastMoment, Deadline
<1> QED BY <1>1 DEF ReportedOrDue

LEMMA ReportedOrDueStep ==
    ASSUME MetricsTypes, InTime, FreshOrDue, ReportedOrDue, [Next]_vars
    PROVE  ReportedOrDue'
<1>1. /\ {now, changedAt, startedAt, due, Latency, Longest, MaxBackoff} \subseteq Nat
      /\ missedAt \in Int /\ MaxBackoff <= Longest
      /\ pc \in {"idle", "get", "reconcile", "status"}
    BY Times
<1>2. changedAt <= now /\ missedAt <= now
    BY DEF InTime
<1>3. CASE Changed
    <2>1. ASSUME NEW t \in Nat, t >= now PROVE DueBy(t)'
        BY <1>1, <1>3, <2>1 DEF Changed, DueBy, NextAfter, InTime
    <2>2. \A t \in Nat : LastMoment(t)' => t >= now
        BY <1>3 DEF LastMoment, Changed
    <2> QED BY <2>1, <2>2 DEF ReportedOrDue
<1>4. CASE Deleted
    <2> SUFFICES ASSUME Exists' PROVE ReportedOrDue'
        BY DEF ReportedOrDue
    <2>1. /\ Exists /\ project'.ttl = project.ttl /\ changedAt' = changedAt
          /\ project'.creationTimestamp = project.creationTimestamp
        BY <1>4 DEF Deleted, Exists
    <2>2. Reported => Reported'
        BY <1>4 DEF Deleted, Exists, Reported
    <2>3. ASSUME NEW t \in Nat, DueBy(t) PROVE DueBy(t)'
        BY <1>1, <1>4, <2>3 DEF Deleted, DueBy, NextAfter
    <2> QED BY <2>1, <2>2, <2>3, StaysDue
<1>5. CASE Begin
    <2>1. UNCHANGED <<project, changedAt, now, gauges, missedAt>>
        BY <1>5 DEF Begin, storedVars
    <2>2. pc = "idle" /\ pc' = "get" /\ startedAt' = now
        BY <1>5 DEF Begin
    <2>3. \A t \in Nat : DueBy(t) => DueBy(t)'
        BY <2>1, <2>2 DEF DueBy, NextAfter
    <2>4. Exists' = Exists /\ Reported' = Reported
        BY <2>1 DEF Exists, Reported
    <2> QED BY <2>1, <2>3, <2>4, StaysDue
<1>6. CASE Get
    <2>1. UNCHANGED <<project, changedAt, now, gauges, missedAt, startedAt>>
        BY <1>6 DEF Get, storedVars
    <2>2. pc = "get" /\ pc' = "reconcile"
        BY <1>6 DEF Get
    <2>3. \A t \in Nat : DueBy(t) => DueBy(t)'
        BY <2>1, <2>2 DEF DueBy, NextAfter
    <2>4. Exists' = Exists /\ Reported' = Reported
        BY <2>1 DEF Exists, Reported
    <2> QED BY <2>1, <2>3, <2>4, StaysDue
<1>7. CASE Unread
    <2>1. UNCHANGED <<project, changedAt, now, gauges>> /\ pc' = "idle"
        BY <1>7 DEF Unread
    <2>2. Exists' = Exists /\ Reported' = Reported
        BY <2>1 DEF Exists, Reported
    <2>3. CASE missedAt' = now /\ due' <= now + MaxBackoff
        <3>1. \A t \in Nat : DueBy(t)'
            BY <1>1, <2>1, <2>3 DEF DueBy, NextAfter
        <3> QED BY <2>1, <2>2, <3>1, StaysDue
    <2> QED BY <1>7, <2>2, <2>3 DEF Unread, ReportedOrDue
<1>8. CASE Kind
    <2> SUFFICES ASSUME Exists', project'.ttl \in TTLs
                 PROVE  Reported' \/ \A t \in Nat : LastMoment(t)' => DueBy(t)'
        BY DEF ReportedOrDue
    <2>1. Exists
        BY <1>8 DEF Kind, Exists
    <2>2. /\ pc' = "status" /\ project \in Projects
          /\ SameProject(project', project)
          /\ UNCHANGED <<now, changedAt, due, startedAt>>
        BY <1>8, <2>1, SeriesOf
    <2>3. ASSUME NEW t \in Nat, startedAt <= t PROVE DueBy(t)'
        BY <2>2, <2>3 DEF DueBy
    <2>4. CASE due <= changedAt /\ startedAt <= changedAt
        <3>1. ASSUME NEW t \in Nat, LastMoment(t)' PROVE startedAt <= t
            BY <1>1, <2>2, <2>4, <3>1 DEF LastMoment
        <3> QED BY <2>3, <3>1
    <2>5. ASSUME NEW p \in Projects, p.ttl = project.ttl,
                 p.creationTimestamp = project.creationTimestamp,
                 gauges' = IF Kept(p) THEN GaugesOf(p) ELSE Absent,
                 ~Kept(p) => project.deleting
          PROVE  Reported' \/ \A t \in Nat : LastMoment(t)' => startedAt <= t
        <3>1. CASE ~Kept(p)
            BY <2>2, <2>5, <3>1 DEF Reported, SameProject
        <3>2. CASE Kept(p)
            <4>1. p.ttl \in TTLs /\ Deadline' = p.creationTimestamp + p.ttl
                BY <2>2, <2>5 DEF SameProject, Deadline
            <4>2. GaugesOf(p) # Absent
                BY <1>1, GaugesType, ValuesAssumption
            <4>3. GaugesOf(p).expired = 1 => Reported'
                BY <2>5, <3>2, <4>2 DEF Reported
            <4>4. startedAt > Deadline' + Second \div 2 => GaugesOf(p).expired = 1
                BY <1>1, <4>1, GaugesExpired
            <4>5. Deadline' + Second \div 2 \in Int
                <5>1. p.creationTimestamp \in Nat /\ p.ttl \in Int
                    BY <4>1, MetricsAssumption DEF Projects
                <5>2. Second \div 2 \in Nat
                    BY Constants
                <5> QED BY <4>1, <5>1, <5>2
            <4>6. ASSUME ~(startedAt > Deadline' + Second \div 2), NEW t \in Nat, LastMoment(t)'
                  PROVE  startedAt <= t
                <5>1. t >= Deadline' + Second \div 2
                    BY <4>6 DEF LastMoment
                <5> QED BY <1>1, <4>5, <4>6, <5>1
            <4> QED BY <4>3, <4>4, <4>6
        <3> QED BY <3>1, <3>2
    <2> QED BY <1>8, <2>1, <2>3, <2>4, <2>5, SeriesOf
<1>9. CASE Removed
    BY <1>9, Ended DEF Removed, ReportedOrDue, Exists
<1>10. CASE Returned
    <2> SUFFICES ASSUME Exists' PROVE ReportedOrDue'
        BY DEF ReportedOrDue
    <2>1. /\ Exists /\ project'.ttl = project.ttl /\ changedAt' = changedAt
          /\ project'.creationTimestamp = project.creationTimestamp
        BY <1>10 DEF Returned, Exists
    <2>2. Reported => Reported'
        BY <1>10 DEF Returned, Reported
    <2>3. ASSUME NEW t \in Nat, DueBy(t) PROVE DueBy(t)'
        <3>1. startedAt <= t /\ now <= startedAt + Latency
            BY <1>10, <2>3 DEF Returned, DueBy, InTime
        <3>2. pc' = "idle" /\ due' \in Nat /\ due' <= now + Longest /\ now' = now
            BY <1>10 DEF Returned
        <3>3. due' <= t + Latency + Longest /\ now' <= t + Latency + Longest
            BY <1>1, <3>1, <3>2
        <3> QED BY <3>2, <3>3 DEF DueBy, NextAfter
    <2> QED BY <2>1, <2>2, <2>3, StaysDue
<1>11. CASE Restart
    <2> SUFFICES ASSUME Exists', NEW t \in Nat, LastMoment(t)'
                 PROVE  DueBy(t)'
        BY DEF ReportedOrDue
    <2>1. pc' = "idle" /\ due' = now /\ now' = now /\ changedAt' = now
        BY <1>11 DEF Restart, Exists
    <2>2. t >= now
        BY <2>1 DEF LastMoment
    <2> QED BY <1>1, <2>1, <2>2 DEF DueBy, NextAfter
<1>12. CASE Tick
    <2>1. /\ pc = "idle" => due > now
          /\ now' = now + 1
          /\ UNCHANGED <<pc, due, changedAt, startedAt, project, gauges, missedAt>>
        BY <1>12 DEF Tick, storedVars, localVars
    <2>2. Exists' = Exists /\ Reported' = Reported
        BY <2>1 DEF Exists, Reported
    <2>3. ASSUME NEW t \in Nat, DueBy(t) PROVE DueBy(t)'
        BY <1>1, <2>1, <2>3 DEF DueBy, NextAfter
    <2> QED BY <2>1, <2>2, <2>3, StaysDue
<1>13. CASE UNCHANGED vars
    BY <1>13 DEF vars, ReportedOrDue, Reported, LastMoment, DueBy, NextAfter, Exists, Deadline,
                 storedVars, localVars
<1> QED BY <1>3, <1>4, <1>5, <1>6, <1>7, <1>8, <1>9, <1>10, <1>11, <1>12, <1>13, Cases

LEMMA SeriesEndedStep ==
    ASSUME MetricsTypes, SeriesEnded, [Next]_vars
    PROVE  SeriesEnded'
<1>1. CASE Changed
    BY <1>1, ValuesAssumption DEF Changed, SeriesEnded, Exists
<1>2. CASE Deleted
    BY <1>2, ValuesAssumption DEF Deleted, SeriesEnded, Exists
<1>3. CASE Begin
    BY <1>3 DEF Begin, SeriesEnded, Exists, storedVars
<1>4. CASE Get
    BY <1>4 DEF Get, SeriesEnded, Exists, storedVars
<1>5. CASE Unread
    BY <1>5 DEF Unread, SeriesEnded, Exists
<1>6. CASE Kind
    <2>1. pc = "reconcile" /\ endedBy' = endedBy /\ (Exists => Exists')
        <3>1. Exists => project \in Projects
            BY DEF MetricsTypes, TypeOK, Exists
        <3>2. Exists => project' \in Projects
            BY <1>6, <3>1 DEF Kind, Projects
        <3> QED BY <1>6, <3>2, ValuesAssumption DEF Kind, Exists
    <2> QED BY <2>1 DEF SeriesEnded
<1>7. CASE Removed
    BY <1>7, Ended DEF Removed, SeriesEnded
<1>8. CASE Returned
    BY <1>8, ValuesAssumption DEF Returned, SeriesEnded, Exists
<1>9. CASE Restart
    BY <1>9 DEF Restart, SeriesEnded, Exists
<1>10. CASE Tick
    BY <1>10 DEF Tick, SeriesEnded, Exists, storedVars, localVars
<1>11. CASE UNCHANGED vars
    BY <1>11 DEF vars, SeriesEnded, Exists, storedVars, localVars
<1> QED BY <1>1, <1>2, <1>3, <1>4, <1>5, <1>6, <1>7, <1>8, <1>9, <1>10, <1>11, Cases
-----------------------------------------------------------------------------
(* The Ready condition.                                                    *)

\* The time at which a condition is set is one of this reconciliation.
LEMMA TimeOfNow ==
    ASSUME MetricsTypes, InTime, pc = "reconcile"
    PROVE  Timestamp(now) \in Nat /\ ThisTime(Timestamp(now))
<1>1. now \in Nat /\ startedAt \in Nat /\ startedAt <= now
    BY DEF MetricsTypes, TypeOK, InTime
<1>2. Timestamp(now) \in Nat /\ Timestamp(now) <= now /\ now - Second < Timestamp(now)
    BY <1>1, TimestampType
<1> QED BY <1>1, <1>2, Constants DEF ThisTime

\* A condition that is set once, now, follows the one that was there.
LEMMA ConditionFollows ==
    ASSUME NEW status \in Statuses, NEW stored \in Statuses,
           status.conditions = stored.conditions,
           NEW st \in ConditionStatuses, NEW state \in States,
           NEW t \in Nat, ThisTime(t)
    PROVE  LET new == SetReadyCondition(status, st, state, t)
           IN  /\ new \in Statuses
               /\ new.conditions # <<>>
               /\ Follows(new, stored)
               /\ [new EXCEPT !.observed = TRUE].conditions = new.conditions
<1> DEFINE new == SetReadyCondition(status, st, state, t)
<1>1. /\ new \in Statuses
      /\ new.conditions # <<>>
      /\ Since(new).status = st
      /\ Since(new).lastTransitionTime =
            IF status.conditions # <<>> /\ Since(status).status = st
            THEN Since(status).lastTransitionTime ELSE t
    BY ReadyConditionSet
<1> HIDE DEF new
<1>2. Since(status) = Since(stored)
    BY DEF Since
<1>3. Follows(new, stored)
    BY <1>1, <1>2 DEF Follows
<1>4. [new EXCEPT !.observed = TRUE].conditions = new.conditions
    BY <1>1 DEF Statuses
<1> QED BY <1>1, <1>3, <1>4 DEF new

LEMMA SameConditionsFollow ==
    ASSUME NEW status, NEW stored, NEW other, status.conditions = other.conditions
    PROVE  Follows(status, stored) <=> Follows(other, stored)
BY DEF Follows, Since

\* What is going to be written after an observation of p: the condition of p, or
\* one that was set to Error.
WillFollow(stored) ==
    /\ local'.status.conditions # <<>>
    /\ local'.ttl # Invalid => Follows(local'.status, stored)

LEMMA ObservedFollows ==
    ASSUME MetricsTypes, InTime, pc = "reconcile", NEW p \in Projects,
           NEW failed \in BOOLEAN, NEW delays, Delays(delays), Observe(p, failed, delays),
           NEW stored \in Statuses,
           failed => p.status = stored,
           ~failed => p.status.conditions # <<>> /\ Follows(p.status, stored)
    PROVE  WillFollow(stored)
<1> DEFINE status == [p.status EXCEPT !.observed = TRUE]
           bad == failed \/ (Kept(p) /\ p.ttl = Invalid)
           t == Timestamp(now)
<1>1. p.status \in Statuses
    BY DEF Projects, Statuses
<1>2. status \in Statuses /\ status.conditions = p.status.conditions
    BY <1>1 DEF Statuses
<1>3. local'.ttl = p.ttl
    BY Observed DEF MetricsTypes
<1>4. local'.status = IF bad THEN SetReadyCondition(status, "False", "Error", t) ELSE status
    BY DEF Observe, Projects
<1>5. t \in Nat /\ ThisTime(t) /\ "False" \in ConditionStatuses /\ "Error" \in States
    BY TimeOfNow DEF ConditionStatuses, States
<1> HIDE DEF status, t
<1>6. CASE bad
    <2>1. /\ SetReadyCondition(status, "False", "Error", t).conditions # <<>>
          /\ Follows(SetReadyCondition(status, "False", "Error", t), p.status)
        BY <1>1, <1>2, <1>5, ConditionFollows
    <2>2. local'.status.conditions # <<>> /\ Follows(local'.status, p.status)
        BY <1>4, <1>6, <2>1
    <2>3. p.ttl # Invalid => p.status = stored
        BY <1>6
    <2> QED BY <1>3, <2>2, <2>3 DEF WillFollow
<1>7. CASE ~bad
    <2>1. local'.status = status /\ ~failed
        BY <1>4, <1>7
    <2>2. Follows(status, stored)
        BY <1>2, <2>1, SameConditionsFollow
    <2> QED BY <1>2, <2>1, <2>2 DEF WillFollow
<1> QED BY <1>6, <1>7

LEMMA StoredFollows ==
    ASSUME NEW status, status.conditions # <<>>
    PROVE  Follows(status, status)
BY DEF Follows

LEMMA SinceType ==
    ASSUME NEW status \in Statuses, status.conditions # <<>>
    PROVE  Since(status).lastTransitionTime \in Nat
<1>1. status.conditions \in Seq(Conditions(Nat))
    BY DEF Statuses
<1>2. Len(status.conditions) \in Nat /\ Len(status.conditions) # 0
    BY <1>1
<1>3. status.conditions[1] \in Conditions(Nat)
    BY <1>1, <1>2, ElementOfSeq
<1> QED BY <1>3 DEF Since, Conditions

LEMMA WorksFollow ==
    ASSUME MetricsTypes, InTime, ConditionsFollow, Works, ~outdated'
    PROVE  WillFollow(project.status) /\ project'.status = project.status
<1>0. pc = "reconcile" /\ ~outdated
    BY WorksKind DEF Kind
<1>1. TypeOK /\ pc = "reconcile" /\ local \in Projects /\ ~outdated
    BY <1>0 DEF MetricsTypes, Working
<1>2. /\ project \in Projects /\ local.status = project.status /\ Seen(local.status)
    BY <1>1 DEF MetricsTypes, Working, TypeOK, Exists, ConditionsFollow
<1>3. local.status \in Statuses
    BY <1>1 DEF Projects, Statuses
<1>4. Timestamp(now) \in Nat /\ ThisTime(Timestamp(now))
    BY <1>1, TimeOfNow
<1>5. ASSUME NEW st \in ConditionStatuses, NEW state \in States, NEW delays, Delays(delays),
             Observe(Ready(local, st, state), FALSE, delays)
      PROVE  WillFollow(local.status)
    <2> DEFINE p == Ready(local, st, state)
               new == SetReadyCondition(local.status, st, state, Timestamp(now))
    <2>1. p \in Projects /\ p.status = new
        BY <1>1, ReadyType
    <2>2. new.conditions # <<>> /\ Follows(new, local.status)
        BY <1>3, <1>4, ConditionFollows
    <2>3. Observe(p, FALSE, delays)
        BY <1>5
    <2> HIDE DEF p, new
    <2> QED BY <1>1, <1>3, <1>5, <2>1, <2>2, <2>3, ObservedFollows
<1>6. ASSUME NEW p \in Projects, p.status = local.status, Observe(p, TRUE, {})
      PROVE  WillFollow(local.status)
    BY <1>1, <1>3, <1>6, ObservedFollows, RateLimitedDelays
<1>7. CASE FirstSeen
    BY <1>2, <1>5, <1>7, RateLimitedDelays DEF FirstSeen, ConditionStatuses, States
<1>8. CASE AddFinalizer
    <2>1. CASE /\ project' = [project EXCEPT !.guarded = TRUE]
               /\ Observe(project', FALSE, RateLimited)
        <3>1. project' \in Projects /\ project'.status = local.status
            BY <1>2, <2>1 DEF Projects
        <3>2. local.status.conditions # <<>>
            BY <1>2, <1>8 DEF AddFinalizer, Seen
        <3>3. project'.status.conditions # <<>> /\ Follows(project'.status, local.status)
            BY <3>1, <3>2, StoredFollows
        <3>4. WillFollow(local.status)
            BY <1>1, <1>3, <2>1, <3>1, <3>3, ObservedFollows, RateLimitedDelays
        <3> QED BY <1>2, <3>1, <3>4
    <2>2. CASE Observe([local EXCEPT !.guarded = TRUE], TRUE, {}) /\ project' = project
        <3>1. /\ [local EXCEPT !.guarded = TRUE] \in Projects
              /\ [local EXCEPT !.guarded = TRUE].status = local.status
            BY <1>1 DEF Projects
        <3> QED BY <1>2, <1>6, <2>2, <3>1
    <2> QED BY <1>8, <2>1, <2>2 DEF AddFinalizer
<1>9. CASE DependentsReconciled
    <2>1. project' = project
        BY <1>9 DEF DependentsReconciled
    <2>2. \A delay \in {RequeueReady, Second, RequeueBlocked} : Delays({delay})
        BY Constants DEF Delays, RequeueReady
    <2>3. CASE \E st \in ConditionStatuses, state \in States,
                  delay \in {RequeueReady, Second, RequeueBlocked} :
                    Outcome(st, state, delay)
        BY <1>2, <1>5, <2>1, <2>2, <2>3 DEF Outcome
    <2>4. CASE Observe(local, TRUE, {})
        BY <1>1, <1>2, <1>6, <2>1, <2>4
    <2> QED BY <1>9, <2>3, <2>4 DEF DependentsReconciled, ConditionStatuses, States
<1>10. CASE RemoveFinalizerFails
    <2>1. /\ [local EXCEPT !.guarded = FALSE] \in Projects
          /\ [local EXCEPT !.guarded = FALSE].status = local.status
        BY <1>1 DEF Projects
    <2> QED BY <1>2, <1>6, <1>10, <2>1 DEF RemoveFinalizerFails
<1> QED BY <1>7, <1>8, <1>9, <1>10 DEF Works

LEMMA ConditionsFollowStep ==
    ASSUME MetricsTypes, InTime, ConditionsFollow, [Next]_vars
    PROVE  ConditionsFollow'
<1>1. ASSUME project'.status = project.status, Exists' => Exists
      PROVE  Exists' => Seen(project'.status)
    BY <1>1 DEF ConditionsFollow
<1>2. CASE Changed
    BY <1>2 DEF Changed, ConditionsFollow, Seen
<1>3. CASE Deleted
    BY <1>3 DEF Deleted, ConditionsFollow, Exists, Seen
<1>4. CASE Begin
    BY <1>4 DEF Begin, ConditionsFollow, storedVars, Exists, Seen
<1>5. CASE Get
    BY <1>5 DEF Get, ConditionsFollow, storedVars, Exists, Seen
<1>6. CASE Unread
    BY <1>6 DEF Unread, ConditionsFollow, Exists, Seen
<1>7. CASE Works
    <2>1. Kind
        BY <1>7, WorksKind
    <2>2. pc' = "status"
        BY <2>1 DEF Kind, SomehowEnds, Ends, Observe
    <2>3. ~outdated' => WillFollow(project'.status)
        BY <1>7, WorksFollow
    <2>4. UNCHANGED <<startedAt, now>>
        BY <2>1 DEF Kind
    <2>5. ~outdated' => local'.status.conditions # <<>>
                        /\ (local'.ttl # Invalid => Follows(local.status, project.status)')
        BY <2>3, <2>4 DEF WillFollow, Follows, ThisTime, Since
    <2>6. Exists' => Exists /\ project'.status = project.status
        <3>1. Exists => project \in Projects
            BY DEF MetricsTypes, TypeOK, Exists
        <3> QED BY <2>1, <3>1 DEF Kind, Projects, Exists
    <2> QED BY <1>1, <2>2, <2>5, <2>6 DEF ConditionsFollow, Exists, Seen
<1>8. CASE Removed
    BY <1>8, Ended DEF Removed, ConditionsFollow, Exists
<1>9. CASE UpdateStatus
    BY <1>9, ReturnedFromStatus DEF Returned, ConditionsFollow, Exists, Seen
<1>10. CASE Restart
    BY <1>10 DEF Restart, ConditionsFollow, Exists, Seen
<1>11. CASE Tick
    <2>1. /\ now' = now + 1
          /\ UNCHANGED <<project, pc, local, startedAt, outdated>>
        BY <1>11 DEF Tick, storedVars, localVars
    <2>2. ASSUME pc = "status", local.status.conditions # <<>>,
                 Follows(local.status, project.status)
          PROVE  Follows(local.status, project.status)'
        <3>1. local \in Projects
            BY <2>2 DEF MetricsTypes, Working
        <3>2. local.status \in Statuses
            BY <3>1 DEF Projects, Statuses
        <3>3. Since(local.status).lastTransitionTime \in Nat
            BY <2>2, <3>2, SinceType
        <3>4. {now, startedAt} \subseteq Nat
            BY DEF MetricsTypes, TypeOK
        <3>5. ThisTime(Since(local.status).lastTransitionTime)
                  => ThisTime(Since(local.status).lastTransitionTime)'
            <4> DEFINE t == Since(local.status).lastTransitionTime
            <4>1. t' = t
                BY <2>1 DEF Since
            <4>2. ASSUME NEW u \in Nat, ThisTime(u) PROVE startedAt' - Second < u /\ u <= now'
                BY <2>1, <3>4, <4>2, Constants DEF ThisTime
            <4> QED BY <3>3, <4>1, <4>2 DEF ThisTime
        <3> QED BY <2>1, <2>2, <3>5 DEF Follows, Since
    <2> QED BY <2>1, <2>2 DEF ConditionsFollow, Exists, Seen
<1>12. CASE UNCHANGED vars
    BY <1>12 DEF vars, ConditionsFollow, Follows, ThisTime, Since, Exists, Seen, storedVars,
                 localVars
<1>13. CASE \E a \in Annotations : Create(a) \/ SetTTL(a)
    BY <1>2, <1>13, ChangedByUser
<1>14. CASE Delete
    BY <1>3, <1>14, DeletedByUser
<1>15. CASE NotFound \/ GetFails
    BY <1>6, <1>15, GetUnread
<1> QED BY <1>4, <1>5, <1>7, <1>8, <1>9, <1>10, <1>11, <1>12, <1>13, <1>14, <1>15
        DEF Next, Reconcile, Works, Removed

\* The stored status is written by the update at the end of Reconcile alone.
LEMMA StoredByUpdate ==
    ASSUME MetricsTypes, [Next]_vars, StatusStored
    PROVE  /\ pc = "status" /\ ~outdated
           /\ now' = now
           /\ project \in Projects /\ project' \in Projects
           /\ project'.status = local.status
<1>0. project \in Projects
    BY DEF MetricsTypes, TypeOK, Exists, StatusStored
<1>1. CASE Changed
    BY <1>1 DEF Changed, StatusStored
<1>2. CASE Deleted
    BY <1>2 DEF Deleted, StatusStored
<1>3. CASE Begin \/ Get
    BY <1>3 DEF Begin, Get, storedVars, StatusStored
<1>4. CASE Unread
    BY <1>4 DEF Unread, StatusStored
<1>5. CASE Kind
    <2>1. project'.status = project.status
        BY <1>0, <1>5 DEF Kind, Projects
    <2> QED BY <2>1 DEF StatusStored
<1>6. CASE Removed
    BY <1>6 DEF Removed, RemoveFinalizer, RemoveFinalizerAnswerLost, StatusStored
<1>7. CASE Returned
    BY <1>0, <1>7 DEF Returned, StatusStored
<1>8. CASE Restart
    BY <1>8 DEF Restart, StatusStored
<1>9. CASE Tick
    BY <1>9 DEF Tick, storedVars, StatusStored
<1>10. CASE UNCHANGED vars
    BY <1>10 DEF vars, storedVars, StatusStored
<1> QED BY <1>1, <1>2, <1>3, <1>4, <1>5, <1>6, <1>7, <1>8, <1>9, <1>10, Cases

\* The time of the transition that a written status tells.
TransitionKept ==
    StatusStored /\ local.ttl # Invalid =>
        IF ReadyStatus' = ReadyStatus THEN ReadySince' = ReadySince
        ELSE startedAt - Second < ReadySince' /\ ReadySince' <= now

LEMMA TransitionStep ==
    ASSUME MetricsTypes, ConditionsFollow, [Next]_vars
    PROVE  TransitionKept
<1> SUFFICES ASSUME StatusStored, local.ttl # Invalid
             PROVE  IF ReadyStatus' = ReadyStatus THEN ReadySince' = ReadySince
                    ELSE startedAt - Second < ReadySince' /\ ReadySince' <= now
    BY DEF TransitionKept
<1>1. /\ pc = "status" /\ ~outdated
      /\ project \in Projects
      /\ project'.status = local.status
    BY StoredByUpdate
<1>2. local.status.conditions # <<>> /\ Follows(local.status, project.status)
    BY <1>1 DEF ConditionsFollow
<1>3. ReadyStatus' = Since(local.status).status
      /\ ReadySince' = Since(local.status).lastTransitionTime
    BY <1>1, <1>2 DEF ReadyStatus, ReadySince, Since
<1>4. CASE project.status.conditions # <<>>
    <2>1. ReadyStatus = Since(project.status).status
          /\ ReadySince = Since(project.status).lastTransitionTime
        BY <1>4 DEF ReadyStatus, ReadySince, Since
    <2> QED BY <1>2, <1>3, <1>4, <2>1 DEF Follows, ThisTime
<1>5. CASE project.status.conditions = <<>>
    <2>1. ReadyStatus = ""
        BY <1>5 DEF ReadyStatus
    <2>2. Since(local.status).status # ""
        <3>1. local \in Projects
            BY <1>1 DEF MetricsTypes, Working
        <3>2. local.status.conditions \in Seq(Conditions(Nat))
            BY <3>1 DEF Projects
        <3>3. Len(local.status.conditions) \in Nat /\ Len(local.status.conditions) # 0
            BY <1>2, <3>2
        <3>4. local.status.conditions[1] \in Conditions(Nat)
            BY <3>2, <3>3, ElementOfSeq
        <3> QED BY <3>4 DEF Since, Conditions, ConditionStatuses
    <2> QED BY <1>2, <1>3, <1>5, <2>1, <2>2 DEF Follows, ThisTime
<1> QED BY <1>4, <1>5
-----------------------------------------------------------------------------
(* The theorems.                                                           *)

MetricsInv ==
    /\ MetricsTypes
    /\ InTime
    /\ FreshOrDue
    /\ RightOrCorrected
    /\ ReportedOrDue
    /\ SeriesEnded
    /\ ConditionsFollow

LEMMA MetricsInvariant == Spec => []MetricsInv
<1>1. Init => MetricsInv
    <2> SUFFICES ASSUME Init PROVE MetricsInv
        OBVIOUS
    <2>1. MetricsTypes
        BY InitTypes
    <2>2. InTime /\ FreshOrDue /\ RightOrCorrected /\ ReportedOrDue /\ SeriesEnded
          /\ ConditionsFollow
        BY DEF Init, InTime, FreshOrDue, RightOrCorrected, Early, ReportedOrDue, SeriesEnded,
               ConditionsFollow, Exists
    <2> QED BY <2>1, <2>2 DEF MetricsInv
<1>2. MetricsInv /\ [Next]_vars => MetricsInv'
    <2> SUFFICES ASSUME MetricsInv, [Next]_vars PROVE MetricsInv'
        OBVIOUS
    <2> USE DEF MetricsInv
    <2>1. MetricsTypes'
        BY TypesStep
    <2>2. InTime'
        BY InTimeStep
    <2>3. FreshOrDue'
        BY FreshOrDueStep
    <2>4. RightOrCorrected'
        BY RightOrCorrectedStep
    <2>5. ReportedOrDue'
        BY ReportedOrDueStep
    <2>6. SeriesEnded'
        BY SeriesEndedStep
    <2>7. ConditionsFollow'
        BY ConditionsFollowStep
    <2> QED BY <2>1, <2>2, <2>3, <2>4, <2>5, <2>6, <2>7
<1> QED BY <1>1, <1>2, PTL DEF Spec

(* The types of the clock, the project, the reconciliation and the series, *)
(* for TTLs of either sign: Reconcile works on a copy of a project, and    *)
(* writes one.                                                             *)
THEOREM MetricsTypeCorrect == Spec => []TypeOK
<1>1. MetricsInv => TypeOK
    BY DEF MetricsInv, MetricsTypes
<1> QED BY <1>1, MetricsInvariant, PTL

(* An expired project is reported expired at the latest Bound after its    *)
(* deadline, or after its TTL was set or the process was started, and      *)
(* after the backoff of a read that failed since, if neither is later;     *)
(* writes that failed and answers that got lost make no difference         *)
(* (project_controller.go:81-87, 99-114, 169-171).                         *)
THEOREM ExpiryIsReported == Spec => []ExpiryReported
<1>1. MetricsInv => ExpiryReported
    <2> SUFFICES ASSUME MetricsInv, Exists, project.ttl \in TTLs,
                        now > Deadline + Second \div 2 + Bound, now > changedAt + Bound,
                        Reread
                 PROVE  Reported
        BY DEF ExpiryReported, Reported
    <2>1. /\ {now, changedAt, startedAt} \subseteq Nat /\ missedAt \in Int
          /\ pc \in {"idle", "get", "reconcile", "status"}
        BY Times DEF MetricsInv
    <2> DEFINE half == Second \div 2
               t == IF Deadline + half >= changedAt THEN Deadline + half ELSE changedAt
    <2>2. half \in Int /\ {Latency, Longest, MaxBackoff} \subseteq Nat
        BY Constants
    <2>3. Deadline \in Int
        <3>1. project \in Projects
            BY DEF MetricsInv, MetricsTypes, TypeOK, Exists
        <3>2. project.creationTimestamp \in Nat /\ project.ttl \in Int
            BY <3>1, MetricsAssumption DEF Projects
        <3> QED BY <3>2 DEF Deadline
    <2>4. now > Deadline + half + Bound
        OBVIOUS
    <2>5. Bound = Longest + 2 * Latency
        BY DEF Bound
    <2> HIDE DEF half
    <2>6. t \in Nat /\ t >= Deadline + half /\ t >= changedAt
        <3>1. Deadline + half \in Int /\ changedAt \in Nat
            BY <2>1, <2>2, <2>3
        <3>2. CASE Deadline + half >= changedAt
            BY <3>1, <3>2
        <3>3. CASE ~(Deadline + half >= changedAt)
            BY <3>1, <3>3
        <3> QED BY <3>2, <3>3
    <2>7. now > t + Latency + Latency + Longest
        BY <2>1, <2>2, <2>3, <2>4, <2>5
    <2>8. now > missedAt + MaxBackoff + Latency
        BY DEF Reread
    <2> HIDE DEF t
    <2>9. LastMoment(t)
        BY <2>6 DEF LastMoment, half
    <2>10. ASSUME DueBy(t) PROVE FALSE
        <3>1. CASE pc = "idle"
            BY <2>1, <2>2, <2>6, <2>7, <2>8, <2>10, <3>1 DEF DueBy, NextAfter
        <3>2. CASE pc # "idle"
            <4>1. now <= startedAt + Latency
                BY <3>2 DEF MetricsInv, InTime
            <4>2. startedAt <= t + Latency + Longest \/ startedAt <= missedAt + MaxBackoff
                BY <2>1, <2>2, <2>6, <2>10, <3>2 DEF DueBy, NextAfter
            <4> QED BY <2>1, <2>2, <2>6, <2>7, <2>8, <4>1, <4>2
        <3> QED BY <3>1, <3>2
    <2> QED BY <2>6, <2>9, <2>10 DEF MetricsInv, ReportedOrDue
<1> QED BY <1>1, MetricsInvariant, PTL

(* No project is reported expired before its time, but for the duration of *)
(* two reconciliations after its TTL was set, and until the next one after *)
(* the backoff if a read failed since (project_controller.go:81-87,        *)
(* 105-113).                                                               *)
THEOREM ExpiryIsNotEarly == Spec => []ExpiryNotEarly
<1>1. MetricsInv => ExpiryNotEarly
    <2> SUFFICES ASSUME MetricsInv, Early, now > changedAt + 2 * Latency,
                        missedAt >= changedAt => Reread
                 PROVE  Right
        BY DEF ExpiryNotEarly, Early, Right
    <2>1. /\ {now, changedAt, startedAt} \subseteq Nat /\ missedAt \in Int
          /\ {Latency, MaxBackoff} \subseteq Nat
          /\ pc \in {"idle", "get", "reconcile", "status"}
        BY Times DEF MetricsInv
    <2>2. ASSUME ToBeCorrected PROVE FALSE
        <3>1. CASE pc = "idle"
            BY <2>1, <2>2, <3>1 DEF ToBeCorrected, Shortly, Reread
        <3>2. CASE pc # "idle"
            <4>1. now <= startedAt + Latency
                BY <3>2 DEF MetricsInv, InTime
            <4>2. startedAt <= changedAt \/ Shortly(startedAt)
                BY <2>1, <2>2, <3>2 DEF ToBeCorrected
            <4> QED BY <2>1, <4>1, <4>2 DEF Shortly, Reread
        <3> QED BY <3>1, <3>2
    <2> QED BY <2>2 DEF MetricsInv, RightOrCorrected
<1> QED BY <1>1, MetricsInvariant, PTL

(* No series outlives a project that the operator let go, also if the      *)
(* answer of the removal got lost; projects that their user ended before   *)
(* they were guarded are left out (project_controller.go:120-126, 198).    *)
THEOREM SeriesIsEnded == Spec => []SeriesEnd
<1>1. MetricsInv => SeriesEnd
    BY DEF MetricsInv, SeriesEnded, SeriesEnd
<1> QED BY <1>1, MetricsInvariant, PTL

(* A status computed for a TTL that can be parsed keeps the time of the    *)
(* last transition if it has the status of the condition stored before,    *)
(* and has a time of its own reconciliation otherwise                      *)
(* (project_types.go:127-147).                                             *)
THEOREM TransitionTimeIsKept == Spec => TransitionTime
<1>1. MetricsInv /\ [Next]_vars => [TransitionKept]_vars
    BY TransitionStep DEF MetricsInv
<1>2. Spec => [][TransitionKept]_vars
    BY <1>1, MetricsInvariant, PTL DEF Spec
<1> QED BY <1>2 DEF TransitionTime, TransitionKept
==============================================================================
