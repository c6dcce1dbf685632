-------------------------- MODULE ProjectLifecycle --------------------------
(***************************************************************************)
(* What the operator promises about the life of a project, whatever order  *)
(* its API calls take: objects for a project come and go only while the    *)
(* project is guarded (held by the operator's finalizer), and a project    *)
(* ends, or loses its guard, only when none of them is left.  So no object *)
(* outlives its project, and a new project of the same name starts clean.  *)
(***************************************************************************)
CONSTANTS UIDs, Names, NoUID

VARIABLES
    alive,      \* UID of the project there is, or NoUID
    past,       \* UIDs in use so far
    guarded,    \* the project is held
    objects     \* names of the objects that exist for a project

lifecycleVars == <<alive, past, guarded, objects>>

LifecycleInit ==
    /\ alive = NoUID
    /\ past = {}
    /\ guarded = FALSE
    /\ objects = {}

Create ==
    /\ alive = NoUID
    /\ objects = {}
    /\ \E uid \in UIDs \ past :
        /\ alive' = uid
        /\ past' = past \cup {uid}
    /\ UNCHANGED <<guarded, objects>>

Guard ==
    /\ alive # NoUID
    /\ guarded' = TRUE
    /\ UNCHANGED <<alive, past, objects>>

Provide ==
    /\ guarded
    /\ objects' \in SUBSET Names
    /\ UNCHANGED <<alive, past, guarded>>

End ==
    /\ alive # NoUID
    /\ objects = {}
    /\ alive' = NoUID
    /\ guarded' = FALSE
    /\ UNCHANGED <<past, objects>>

LifecycleNext == Create \/ Guard \/ Provide \/ End

LifecycleSpec == LifecycleInit /\ [][LifecycleNext]_lifecycleVars
=============================================================================
