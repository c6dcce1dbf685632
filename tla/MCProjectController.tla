------------------------ MODULE MCProjectController ------------------------
(* Instances of ProjectController for TLC.                                  *)
EXTENDS ProjectController

\* From one spec to the other the namespace is to be updated, the binding of
\* the admins to be replaced, the one of the viewers to be created or deleted.
MCSpecs ==
    {[labels |-> "l1", adminUsers |-> <<"alice">>, adminGroups |-> <<>>,
      viewerUsers |-> <<>>, viewerGroups |-> <<>>],
     [labels |-> "l2", adminUsers |-> <<"bob">>, adminGroups |-> <<>>,
      viewerUsers |-> <<>>, viewerGroups |-> <<"team">>]}

\* For the larger state spaces: the viewers come, the admins go.
MCSmallSpecs ==
    {[labels |-> "l1", adminUsers |-> <<"alice">>, adminGroups |-> <<>>,
      viewerUsers |-> <<>>, viewerGroups |-> <<>>],
     [labels |-> "l1", adminUsers |-> <<>>, adminGroups |-> <<>>,
      viewerUsers |-> <<"alice">>, viewerGroups |-> <<>>]}

WantsOf(specs) == {BuildDependentObjects(s) : s \in specs} \cup {Nothing}

DigestsOf(specs) == UNION {{w[k] : k \in Keys} : w \in WantsOf(specs)} \ {Absent}

MCWants == WantsOf(MCSpecs)
MCDigests == DigestsOf(MCSpecs)

MCSmallWants == WantsOf(MCSmallSpecs)
MCSmallDigests == DigestsOf(MCSmallSpecs)

\* Only one: the project is created and deleted.
MCOneSpec == {CHOOSE s \in MCSmallSpecs : s.adminUsers # <<>>}

MCSymmetry == Permutations(Replicas)
=============================================================================
