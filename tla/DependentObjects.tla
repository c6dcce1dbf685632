-------------------------- MODULE DependentObjects --------------------------
(***************************************************************************)
(* buildDependentObjects of controllers/project_controller.go: the objects *)
(* a project of a given spec should have, each by the content the deployer *)
(* computes its digest from, and Absent where there should be none.        *)
(***************************************************************************)
EXTENDS ObjectKeys, SequencesExt

CONSTANTS
    AdminClusterRole, ViewerClusterRole,    \* the operator's options
    EnableClusterView

ASSUME OptionsAssumption == EnableClusterView \in BOOLEAN

\* No object is not an object: a binding is never taken for none.
Subject == [kind : {"User", "Group"}, name : STRING]

ASSUME AbsentAssumption ==
    Absent \notin [roleRef  : {AdminClusterRole, ViewerClusterRole, "view"},
                  subjects : Seq(Subject)]

\* Users first, then groups.
Subjects(users, groups) ==
    [i \in DOMAIN users |-> [kind |-> "User", name |-> users[i]]]
      \o [i \in DOMAIN groups |-> [kind |-> "Group", name |-> groups[i]]]

AdminSubjects(spec) == Subjects(spec.adminUsers, spec.adminGroups)

ViewerSubjects(spec) == Subjects(spec.viewerUsers, spec.viewerGroups)

\* slices.Uniq of github.com/sap/go-generics: keeps first occurrences.
Uniq(s) ==
    LET kept[n \in 0..Len(s)] ==
            IF n = 0 THEN <<>>
            ELSE LET before == kept[n - 1]
                 IN  IF Contains(before, s[n]) THEN before ELSE Append(before, s[n])
    IN  kept[Len(s)]

\* Variant (a bug to be caught): the loop over the subjects keeps the last one.
BindingOfLast(role, subjects) ==
    IF subjects = <<>> THEN Absent
    ELSE [roleRef |-> role, subjects |-> <<Last(subjects)>>]

\* A binding nobody would be bound by is not created.
Binding(role, subjects) ==
    IF subjects = <<>> THEN Absent ELSE [roleRef |-> role, subjects |-> subjects]

\* Variant: the viewers come first.
ClusterViewViewersFirst(spec) ==
    IF EnableClusterView
    THEN Binding("view", Uniq(ViewerSubjects(spec) \o AdminSubjects(spec)))
    ELSE Absent

\* Variant: subjects that occur more than once are kept.
ClusterViewRepeating(spec) ==
    IF EnableClusterView
    THEN Binding("view", AdminSubjects(spec) \o ViewerSubjects(spec))
    ELSE Absent

ClusterViewBinding(spec) ==
    IF EnableClusterView
    THEN Binding("view", Uniq(AdminSubjects(spec) \o ViewerSubjects(spec)))
    ELSE Absent

BuildDependentObjects(spec) ==
    [k \in Keys |->
        CASE k = "namespace"      -> [labels |-> spec.labels]
          [] k = "project:admin"  -> Binding(AdminClusterRole, AdminSubjects(spec))
          [] k = "project:viewer" -> Binding(ViewerClusterRole, ViewerSubjects(spec))
          [] k = "project:view"   -> ClusterViewBinding(spec)]
=============================================================================
