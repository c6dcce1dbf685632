----------------------------- MODULE ObjectKeys -----------------------------
(***************************************************************************)
(* Names of the objects that depend on a project.  The namespace prefix    *)
(* and the project's name are constant, so a key needs neither.            *)
(***************************************************************************)

CONSTANT Absent     \* no object / no value

Keys == {"namespace", "project:admin", "project:viewer", "project:view"}

KindOf ==
    [k \in Keys |->
        CASE k = "namespace"    -> "Namespace"
          [] k = "project:view" -> "ClusterRoleBinding"
          [] OTHER              -> "RoleBinding"]

Nothing == [k \in Keys |-> Absent]
=============================================================================
