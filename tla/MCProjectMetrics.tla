-------------------------- MODULE MCProjectMetrics --------------------------
(* The metrics of a project for TLC.                                       *)
EXTENDS ProjectMetrics

MCTTLs == {-1, 3}

MCAnnotations == MCTTLs \cup {NoTTL, Invalid}

(* What a later step or a property can tell apart.  Of the gauges only one *)
(* is asked for, and none is read; what Reconcile would write is of no use *)
(* once the project was written since; the time of a change is set anew    *)
(* with the next project; a backoff that is over is as good as none.       *)
MCView ==
    <<now, project, created, IF Exists THEN changedAt ELSE 0, endedBy, due, pc,
      IF pc = "status" /\ outdated THEN NoProject ELSE local, startedAt, outdated,
      IF outdated THEN {} ELSE result, errors,
      IF gauges = Absent THEN Absent ELSE gauges.expired, faults,
      IF Reread THEN -1 ELSE missedAt>>
==============================================================================
