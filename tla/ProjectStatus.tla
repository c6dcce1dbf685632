---------------------------- MODULE ProjectStatus ----------------------------
(***************************************************************************)
(* api/v1alpha1/project_types.go: the status of a project and how its      *)
(* conditions are set.  Times are those of the callers; messages are left  *)
(* out.                                                                    *)
(***************************************************************************)
EXTENDS Naturals, Sequences

ConditionTypes == {"Ready"}

ConditionStatuses == {"True", "False", "Unknown"}

States == {"", "Ready", "Processing", "Error", "DeletionBlocked", "Deleting"}

Conditions(Times) ==
    [type : ConditionTypes, status : ConditionStatuses,
     lastTransitionTime : Times, reason : States]

\* The position of the first condition of a type, or the one after the last.
Position(conditions, condType) ==
    CHOOSE i \in 1..(Len(conditions) + 1) :
        /\ i <= Len(conditions) => conditions[i].type = condType
        /\ \A j \in 1..(i - 1) : conditions[j].type # condType

\* Variant: every call counts as a transition.
SetConditionAnew(conditions, condType, condStatus, condReason, now) ==
    LET i == Position(conditions, condType)
        cond == [type |-> condType, status |-> condStatus,
                 lastTransitionTime |-> now, reason |-> condReason]
    IN  SubSeq(conditions, 1, i - 1) \o <<cond>> \o SubSeq(conditions, i + 1, Len(conditions))

SetCondition(conditions, condType, condStatus, condReason, now) ==
    LET i == Position(conditions, condType)
        unchanged == i <= Len(conditions) /\ conditions[i].status = condStatus
        cond == [type |-> condType, status |-> condStatus, reason |-> condReason,
                 lastTransitionTime |-> IF unchanged THEN conditions[i].lastTransitionTime
                                        ELSE now]
    IN  SubSeq(conditions, 1, i - 1) \o <<cond>> \o SubSeq(conditions, i + 1, Len(conditions))

\* Variant: the two strings are swapped.
SetReadyConditionSwapped(status, condStatus, newState, now) ==
    [status EXCEPT !.conditions = SetCondition(@, "Ready", newState, condStatus, now),
                   !.state = newState]

SetReadyCondition(status, condStatus, newState, now) ==
    [status EXCEPT !.conditions = SetCondition(@, "Ready", condStatus, newState, now),
                   !.state = newState]
==============================================================================
