------------------------- MODULE MCDependentObjects -------------------------
(***************************************************************************)
(* The objects of a project while its spec is edited, one list at a time.  *)
(***************************************************************************)
EXTENDS DependentObjects

CONSTANTS Users, Groups, MaxLength      \* names; length of the lists

ASSUME EditAssumption == Users \cup Groups \subseteq STRING /\ MaxLength \in Nat

VARIABLES
    spec,       \* the spec of the project
    objects     \* what buildDependentObjects returns for it

editVars == <<spec, objects>>

Lists(names) == SeqOf(names, MaxLength)

EmptySpec == [labels |-> "l1", adminUsers |-> <<>>, adminGroups |-> <<>>,
              viewerUsers |-> <<>>, viewerGroups |-> <<>>]

Init == spec = EmptySpec /\ objects = BuildDependentObjects(EmptySpec)

Edit(new) == spec' = new /\ objects' = BuildDependentObjects(new)

EditLabels == \E l \in {"l1", "l2"} : Edit([spec EXCEPT !.labels = l])

EditUsers == \E s \in Lists(Users) : \/ Edit([spec EXCEPT !.adminUsers = s])
                                     \/ Edit([spec EXCEPT !.viewerUsers = s])

EditGroups == \E s \in Lists(Groups) : \/ Edit([spec EXCEPT !.adminGroups = s])
                                       \/ Edit([spec EXCEPT !.viewerGroups = s])

Next == EditLabels \/ EditUsers \/ EditGroups

EditSpec == Init /\ [][Next]_editVars
-----------------------------------------------------------------------------
Bound(k) == IF objects[k] = Absent THEN <<>> ELSE objects[k].subjects

\* With the cluster view, everybody whom one of the project's two role
\* bindings binds may see the project, and nobody else; nobody is listed twice,
\* be they admin and viewer, or listed several times (lines 305-318).
ClusterViewCoversBindings ==
    EnableClusterView =>
        /\ ToSet(Bound("project:view")) =
              ToSet(Bound("project:admin")) \cup ToSet(Bound("project:viewer"))
        /\ IsInjective(Bound("project:view"))

\* The cluster view's subjects are in the order in which the spec lists them
\* first, so that equal specs have equal digests (line 306).
ClusterViewInOrder ==
    LET all  == AdminSubjects(spec) \o ViewerSubjects(spec)
        view == Bound("project:view")
        first == [i \in DOMAIN view |->
                    CHOOSE n \in DOMAIN all :
                        all[n] = view[i] /\ \A m \in 1..(n-1) : all[m] # view[i]]
    IN  \A i, j \in DOMAIN view : i < j => first[i] < first[j]

\* An edit replaces a binding, for which it is deleted first, only if the edit
\* concerns it: the viewers keep their binding while admins are edited, nobody
\* loses one for a new label; and each edit of a binding's identities is seen
\* (lines 232-303).
EditsReachTheirObjects ==
    [][LET changed == {k \in Keys : objects'[k] # objects[k]}
       IN  /\ spec'.labels # spec.labels <=> "namespace" \in changed
           /\ AdminSubjects(spec') # AdminSubjects(spec) <=> "project:admin" \in changed
           /\ ViewerSubjects(spec') # ViewerSubjects(spec) <=> "project:viewer" \in changed
           /\ "project:view" \in changed =>
                changed \cap {"project:admin", "project:viewer"} # {}]_editVars
=============================================================================
