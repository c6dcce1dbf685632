-------------------------- MODULE InformerLifecycle --------------------------
(***************************************************************************)
(* What a SharedInformerFactory promises (the documentation of its         *)
(* interface in factory.go), without locks, callers and wait groups: one   *)
(* informer per type, which runs at most once and not any more once the    *)
(* factory shuts down; the factory is shut down when all of them have      *)
(* stopped.                                                                *)
(***************************************************************************)
CONSTANT Types

VARIABLES
    stage,      \* type -> the stage of its informer
    closing,    \* Shutdown was called
    closed      \* Shutdown is done

vars == <<stage, closing, closed>>

Stages == {"none", "requested", "running", "stopped"}

TypeOK ==
    /\ stage \in [Types -> Stages]
    /\ closing \in BOOLEAN
    /\ closed \in BOOLEAN

Init ==
    /\ stage = [t \in Types |-> "none"]
    /\ closing = FALSE
    /\ closed = FALSE

Moves(t, from, to) ==
    /\ stage[t] = from
    /\ stage' = [stage EXCEPT ![t] = to]
    /\ UNCHANGED <<closing, closed>>

Request(t) == Moves(t, "none", "requested")

Start(t) == ~closing /\ Moves(t, "requested", "running")

Stop(t) == Moves(t, "running", "stopped")

Close ==
    /\ closing' = TRUE
    /\ UNCHANGED <<stage, closed>>

Closed ==
    /\ closing
    /\ \A t \in Types : stage[t] # "running"
    /\ closed' = TRUE
    /\ UNCHANGED <<stage, closing>>

Next ==
    \/ \E t \in Types : Request(t) \/ Start(t) \/ Stop(t)
    \/ Close
    \/ Closed

Spec == Init /\ [][Next]_vars
==============================================================================
