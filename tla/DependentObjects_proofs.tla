----------------------- MODULE DependentObjects_proofs -----------------------
(***************************************************************************)
(* The objects of a project, for all specs: what Uniq makes of a list, and *)
(* from it what the cluster view is worth.                                 *)
(*                                                                         *)
(* Uniq is a recursive function, so the proofs need induction.  The least  *)
(* element of a set of numbers (WFMin) gives it for sets.                  *)
(***************************************************************************)
EXTENDS MCDependentObjects, WellFoundedInduction, TLAPS

LEMMA SetInduction ==
    ASSUME NEW S, 0 \in S, \A n \in Nat : n \in S => n + 1 \in S
    PROVE  \A n \in Nat : n \in S
<1> DEFINE Missing == Nat \ S
           Below == {pair \in Nat \X Nat : pair[1] < pair[2]}
<1> SUFFICES ASSUME Missing # {} PROVE FALSE
    OBVIOUS
<1>1. \A m \in Nat, n \in Nat : m < n => <<m, n>> \in Below
    OBVIOUS
<1>2. IsWellFoundedOn(Below, Nat)
    BY NatLessThanWellFounded DEF OpToRel
<1> HIDE DEF Below
<1>3. PICK x \in Missing : \A y \in Missing : ~(<<y, x>> \in Below)
    BY <1>2, WFMin
<1>4. x \in Nat /\ x # 0
    BY <1>3
<1>5. x - 1 \in Nat /\ x - 1 < x /\ (x - 1) + 1 = x
    BY <1>4
<1>6. x - 1 \in S
    BY <1>1, <1>3, <1>4, <1>5
<1> QED BY <1>3, <1>4, <1>5, <1>6
-----------------------------------------------------------------------------
(* The loop of Uniq.  f[n] is what it has kept of the first n elements.    *)
Keep(before, x) == IF Contains(before, x) THEN before ELSE Append(before, x)

Turn(f, s, n) == IF n = 0 THEN <<>> ELSE Keep(f[n - 1], s[n])

Loop(f, s, m) == f = [n \in 0..m |-> Turn(f, s, n)]

LEMMA UniqIsLoop == ASSUME NEW s PROVE Uniq(s) = (CHOOSE f : Loop(f, s, Len(s)))[Len(s)]
BY DEF Uniq, Loop, Turn, Keep

LEMMA LoopTurns ==
    ASSUME NEW f, NEW s, NEW m \in Nat, Loop(f, s, m)
    PROVE  /\ f[0] = <<>>
           /\ \A n \in 1..m : f[n] = Keep(f[n - 1], s[n])
<1>1. \A n \in 0..m : f[n] = Turn(f, s, n)
    BY DEF Loop
<1> QED BY <1>1 DEF Turn

\* The loop is defined: it can take another turn.
LEMMA LoopGoesOn ==
    ASSUME NEW s, NEW m \in Nat, NEW f, Loop(f, s, m)
    PROVE  \E g : Loop(g, s, m + 1)
<1> DEFINE g == [n \in 0 .. m + 1 |-> IF n <= m THEN f[n] ELSE Keep(f[m], s[m + 1])]
<1>1. \A n \in 0 .. m + 1 : g[n] = Turn(g, s, n)
    <2> TAKE n \in 0 .. m + 1
    <2>1. CASE n = 0
        BY <2>1, LoopTurns DEF Turn
    <2>2. CASE n \in 1..m
        <3>1. g[n] = f[n] /\ g[n - 1] = f[n - 1]
            BY <2>2
        <3> QED BY <2>2, <3>1, LoopTurns DEF Turn
    <2>3. CASE n = m + 1
        <3>1. g[n] = Keep(f[m], s[m + 1]) /\ g[n - 1] = f[m]
            BY <2>3
        <3> QED BY <2>3, <3>1 DEF Turn
    <2> QED BY <2>1, <2>2, <2>3
<1>2. g = [n \in 0 .. m + 1 |-> g[n]]
    OBVIOUS
<1> HIDE DEF g
<1>3. g = [n \in 0 .. m + 1 |-> Turn(g, s, n)]
    BY <1>1, <1>2
<1> QED BY <1>3 DEF Loop

LEMMA LoopEnds == ASSUME NEW s, NEW m \in Nat PROVE \E f : Loop(f, s, m)
<1> DEFINE Ending == {n \in Nat : \E f : Loop(f, s, n)}
<1>1. 0 \in Ending
    <2> DEFINE f == [n \in 0..0 |-> <<>>]
    <2>1. f = [n \in 0..0 |-> Turn(f, s, n)]
        BY DEF Turn
    <2> HIDE DEF f
    <2> QED BY <2>1 DEF Loop
<1>2. ASSUME NEW n \in Nat, n \in Ending PROVE n + 1 \in Ending
    BY <1>2, LoopGoesOn
<1> HIDE DEF Ending
<1>3. m \in Ending
    BY <1>1, <1>2, SetInduction
<1> QED BY <1>3 DEF Ending
-----------------------------------------------------------------------------
(* What is kept.                                                           *)
IsFirst(s, i) == \A k \in 1 .. i - 1 : s[k] # s[i]

\* t has what occurs among the first n elements of s, in the order of the first
\* occurrences.
Covers(t, s, n) == \A i \in 1..n : \E j \in 1..Len(t) : t[j] = s[i]

Firsts(t, s, n) == \A j \in 1..Len(t) : \E i \in 1..n : IsFirst(s, i) /\ t[j] = s[i]

InOrder(t, s, n) ==
    \A j, k \in 1..Len(t), i, l \in 1..n :
        /\ j < k
        /\ t[j] = s[i] /\ IsFirst(s, i)
        /\ t[k] = s[l] /\ IsFirst(s, l)
        => i < l

FirstsOf(t, s, n, S) ==
    t \in Seq(S) /\ Covers(t, s, n) /\ Firsts(t, s, n) /\ InOrder(t, s, n)

LEMMA Repeated ==
    ASSUME NEW S, NEW s \in Seq(S), NEW n \in Nat, n + 1 <= Len(s), NEW t,
           FirstsOf(t, s, n, S), Contains(t, s[n + 1])
    PROVE  FirstsOf(t, s, n + 1, S)
<1>1. PICK c \in 1..Len(t) : t[c] = s[n + 1]
    BY DEF Contains
<1>2. PICK d \in 1..n : t[c] = s[d]
    BY DEF FirstsOf, Firsts
<1>3. ~IsFirst(s, n + 1)
    <2>1. d \in 1 .. (n + 1) - 1 /\ s[d] = s[n + 1]
        BY <1>1, <1>2
    <2> QED BY <2>1 DEF IsFirst
<1>4. \A i \in 1 .. n + 1 : i \in 1..n \/ i = n + 1
    OBVIOUS
<1>5. 1..n \subseteq 1 .. n + 1
    OBVIOUS
<1>6. Covers(t, s, n + 1)
    BY <1>1, <1>4 DEF Covers, FirstsOf
<1>7. Firsts(t, s, n + 1)
    BY <1>5 DEF Firsts, FirstsOf
<1>8. InOrder(t, s, n + 1)
    BY <1>3, <1>4 DEF InOrder, FirstsOf
<1> QED BY <1>6, <1>7, <1>8 DEF FirstsOf

LEMMA New ==
    ASSUME NEW S, NEW s \in Seq(S), NEW n \in Nat, n + 1 <= Len(s), NEW t,
           FirstsOf(t, s, n, S), ~Contains(t, s[n + 1])
    PROVE  FirstsOf(Append(t, s[n + 1]), s, n + 1, S)
<1> DEFINE u == Append(t, s[n + 1])
           h == Len(t) + 1
<1>1. t \in Seq(S) /\ s[n + 1] \in S
    BY DEF FirstsOf
<1>2. /\ u \in Seq(S) /\ Len(u) = h /\ u[h] = s[n + 1]
      /\ \A j \in 1..Len(t) : u[j] = t[j]
    BY <1>1
<1>3. /\ Len(t) \in Nat
      /\ \A j \in 1..h : j \in 1..Len(t) \/ j = h
      /\ \A j \in 1..Len(t) : j \in 1..h /\ j < h
      /\ h \in 1..h
    BY <1>1
<1>4. /\ \A i \in 1 .. n + 1 : i \in 1..n \/ i = n + 1
      /\ \A i \in 1..n : i \in 1 .. n + 1 /\ i < n + 1
      /\ n + 1 \in 1 .. n + 1
    OBVIOUS
<1> HIDE DEF u, h
<1>5. \A i \in 1..n : s[i] # s[n + 1]
    BY DEF FirstsOf, Covers, Contains
<1>6. IsFirst(s, n + 1)
    BY <1>5 DEF IsFirst
<1>7. \A i \in 1 .. n + 1 : s[i] = s[n + 1] => i = n + 1
    BY <1>4, <1>5
<1>8. Covers(u, s, n + 1)
    <2> SUFFICES ASSUME NEW i \in 1 .. n + 1 PROVE \E j \in 1..h : u[j] = s[i]
        BY <1>2 DEF Covers
    <2>1. CASE i \in 1..n
        BY <1>2, <1>3, <2>1 DEF FirstsOf, Covers
    <2>2. CASE i = n + 1
        BY <1>2, <1>3, <2>2
    <2> QED BY <1>4, <2>1, <2>2
<1>9. Firsts(u, s, n + 1)
    <2> SUFFICES ASSUME NEW j \in 1..h
                 PROVE  \E i \in 1 .. n + 1 : IsFirst(s, i) /\ u[j] = s[i]
        BY <1>2 DEF Firsts
    <2>1. CASE j \in 1..Len(t)
        <3>1. PICK i \in 1..n : IsFirst(s, i) /\ t[j] = s[i]
            BY <2>1 DEF FirstsOf, Firsts
        <3> QED BY <1>2, <1>4, <2>1, <3>1
    <2>2. CASE j = h
        BY <1>2, <1>4, <1>6, <2>2
    <2> QED BY <1>3, <2>1, <2>2
<1>10. InOrder(u, s, n + 1)
    <2> SUFFICES ASSUME NEW j \in 1..h, NEW k \in 1..h,
                        NEW i \in 1 .. n + 1, NEW l \in 1 .. n + 1, j < k,
                        u[j] = s[i], IsFirst(s, i), u[k] = s[l], IsFirst(s, l)
                 PROVE  i < l
        BY <1>2 DEF InOrder
    <2>1. j \in 1..Len(t)
        BY <1>1, <1>3 DEF h
    <2>2. PICK b \in 1..n : t[j] = s[b]
        BY <2>1 DEF FirstsOf, Firsts
    <2>3. i \in 1..n
        BY <1>2, <1>4, <1>5, <2>1, <2>2
    <2>4. CASE k = h
        BY <1>2, <1>4, <1>7, <2>3, <2>4
    <2>5. CASE k \in 1..Len(t)
        <3>1. PICK d \in 1..n : t[k] = s[d]
            BY <2>5 DEF FirstsOf, Firsts
        <3>2. l \in 1..n
            BY <1>2, <1>4, <1>5, <2>5, <3>1
        <3> QED BY <1>2, <2>1, <2>3, <2>5, <3>2 DEF FirstsOf, InOrder
    <2> QED BY <1>3, <2>4, <2>5
<1> QED BY <1>2, <1>8, <1>9, <1>10 DEF FirstsOf, u

(* Uniq returns every element of a list once, in the order of the first    *)
(* occurrences (as project_controller.go:306-310 relies on for equal specs *)
(* to have equal digests).                                                 *)
THEOREM UniqKeepsFirsts ==
    ASSUME NEW S, NEW s \in Seq(S)
    PROVE  FirstsOf(Uniq(s), s, Len(s), S)
<1> DEFINE f == CHOOSE f : Loop(f, s, Len(s))
           Kept == {n \in Nat : n <= Len(s) => FirstsOf(f[n], s, n, S)}
<1>1. Len(s) \in Nat
    OBVIOUS
<1>2. Loop(f, s, Len(s))
    BY <1>1, LoopEnds
<1>3. Uniq(s) = f[Len(s)]
    BY UniqIsLoop
<1> HIDE DEF f
<1>4. f[0] = <<>> /\ \A n \in 1..Len(s) : f[n] = Keep(f[n - 1], s[n])
    BY <1>1, <1>2, LoopTurns
<1>5. 0 \in Kept
    <2>1. <<>> \in Seq(S) /\ Len(<<>>) = 0
        OBVIOUS
    <2>2. FirstsOf(<<>>, s, 0, S)
        BY <2>1 DEF FirstsOf, Covers, Firsts, InOrder
    <2> QED BY <1>4, <2>2
<1>6. ASSUME NEW n \in Nat, n \in Kept PROVE n + 1 \in Kept
    <2> SUFFICES ASSUME n + 1 <= Len(s) PROVE FirstsOf(f[n + 1], s, n + 1, S)
        OBVIOUS
    <2>1. n + 1 \in 1..Len(s) /\ (n + 1) - 1 = n /\ n <= Len(s)
        BY <1>1
    <2>2. FirstsOf(f[n], s, n, S)
        BY <1>6, <2>1
    <2>3. f[n + 1] = Keep(f[n], s[n + 1])
        BY <1>4, <2>1
    <2> QED BY <2>2, <2>3, Repeated, New DEF Keep
<1> HIDE DEF Kept
<1>7. Len(s) \in Kept
    BY <1>1, <1>5, <1>6, SetInduction
<1> QED BY <1>1, <1>3, <1>7 DEF Kept
-----------------------------------------------------------------------------
(* The invariant of the edits.                                             *)
SpecType == [labels : {"l1", "l2"}, adminUsers : Lists(Users), adminGroups : Lists(Groups),
         viewerUsers : Lists(Users), viewerGroups : Lists(Groups)]

EditInv == spec \in SpecType /\ objects = BuildDependentObjects(spec)

LEMMA EditInvariant == EditSpec => []EditInv
<1>1. \A names : <<>> \in Lists(names)
    <2> TAKE names
    <2>1. <<>> \in [1..0 -> names]
        OBVIOUS
    <2> QED BY <2>1, EditAssumption DEF Lists, SeqOf
<1>2. Init => EditInv
    BY <1>1 DEF Init, EmptySpec, EditInv, SpecType
<1>3. EditInv /\ [Next]_editVars => EditInv'
    <2> SUFFICES ASSUME EditInv, [Next]_editVars PROVE EditInv'
        OBVIOUS
    <2>1. CASE EditLabels
        BY <2>1 DEF EditLabels, Edit, EditInv, SpecType
    <2>2. CASE EditUsers
        BY <2>2 DEF EditUsers, Edit, EditInv, SpecType
    <2>3. CASE EditGroups
        BY <2>3 DEF EditGroups, Edit, EditInv, SpecType
    <2>4. CASE UNCHANGED editVars
        BY <2>4 DEF editVars, EditInv
    <2> QED BY <2>1, <2>2, <2>3, <2>4 DEF Next
<1> QED BY <1>2, <1>3, PTL DEF EditSpec

LEMMA ListMade ==
    ASSUME NEW S, NEW n \in Nat, NEW f \in [1..n -> S]
    PROVE  f \in Seq(S)
OBVIOUS

LEMMA ListsAreLists ==
    ASSUME NEW names \in SUBSET STRING, NEW l \in Lists(names)
    PROVE  l \in Seq(STRING)
<1>1. PICK n \in 0..MaxLength : l \in [1..n -> names]
    BY DEF Lists, SeqOf
<1>2. n \in Nat
    BY <1>1, EditAssumption
<1>3. l \in [1..n -> STRING]
    BY <1>1
<1> QED BY <1>2, <1>3, ListMade

LEMMA SubjectLists ==
    ASSUME NEW users \in Seq(STRING), NEW groups \in Seq(STRING)
    PROVE  Subjects(users, groups) \in Seq(Subject)
<1> DEFINE u == [i \in DOMAIN users |-> [kind |-> "User", name |-> users[i]]]
           g == [i \in DOMAIN groups |-> [kind |-> "Group", name |-> groups[i]]]
<1>1. /\ DOMAIN users = 1..Len(users) /\ Len(users) \in Nat
      /\ DOMAIN groups = 1..Len(groups) /\ Len(groups) \in Nat
    OBVIOUS
<1>2. /\ \A i \in 1..Len(users) : [kind |-> "User", name |-> users[i]] \in Subject
      /\ \A i \in 1..Len(groups) : [kind |-> "Group", name |-> groups[i]] \in Subject
    BY DEF Subject
<1>3. u \in [1..Len(users) -> Subject] /\ g \in [1..Len(groups) -> Subject]
    BY <1>1, <1>2
<1> HIDE DEF u, g
<1>4. u \in Seq(Subject) /\ g \in Seq(Subject)
    BY <1>1, <1>3, ListMade
<1>5. u \o g \in Seq(Subject)
    BY <1>4
<1> QED BY <1>5 DEF Subjects, u, g

LEMMA SpecSubjects ==
    ASSUME NEW s \in SpecType
    PROVE  AdminSubjects(s) \in Seq(Subject) /\ ViewerSubjects(s) \in Seq(Subject)
<1>1. /\ s.adminUsers \in Lists(Users) /\ s.adminGroups \in Lists(Groups)
      /\ s.viewerUsers \in Lists(Users) /\ s.viewerGroups \in Lists(Groups)
    BY DEF SpecType
<1>2. /\ s.adminUsers \in Seq(STRING) /\ s.adminGroups \in Seq(STRING)
      /\ s.viewerUsers \in Seq(STRING) /\ s.viewerGroups \in Seq(STRING)
    BY <1>1, ListsAreLists, EditAssumption
<1> QED BY <1>2, SubjectLists DEF AdminSubjects, ViewerSubjects

\* A binding shows whom it was made for.
Roles == {AdminClusterRole, ViewerClusterRole, "view"}

LEMMA BindingShows ==
    ASSUME NEW role \in Roles, NEW l \in Seq(Subject)
    PROVE  (IF Binding(role, l) = Absent THEN <<>> ELSE Binding(role, l).subjects) = l
<1>1. [roleRef |-> role, subjects |-> l] # Absent
    BY AbsentAssumption DEF Roles
<1>2. CASE l = <<>>
    BY <1>2 DEF Binding
<1>3. CASE l # <<>>
    BY <1>1, <1>3 DEF Binding
<1> QED BY <1>2, <1>3

AllSubjects(s) == AdminSubjects(s) \o ViewerSubjects(s)

LEMMA BuiltObjects ==
    ASSUME NEW s
    PROVE  /\ BuildDependentObjects(s)["namespace"] = [labels |-> s.labels]
           /\ BuildDependentObjects(s)["project:admin"] =
                  Binding(AdminClusterRole, AdminSubjects(s))
           /\ BuildDependentObjects(s)["project:viewer"] =
                  Binding(ViewerClusterRole, ViewerSubjects(s))
           /\ BuildDependentObjects(s)["project:view"] = ClusterViewBinding(s)
BY DEF BuildDependentObjects, Keys

LEMMA WhoIsBound ==
    ASSUME EditInv
    PROVE  /\ Bound("project:admin") = AdminSubjects(spec)
           /\ Bound("project:viewer") = ViewerSubjects(spec)
           /\ AllSubjects(spec) \in Seq(Subject)
           /\ Bound("project:view") =
                  IF EnableClusterView THEN Uniq(AllSubjects(spec)) ELSE <<>>
<1>1. AdminSubjects(spec) \in Seq(Subject) /\ ViewerSubjects(spec) \in Seq(Subject)
    BY SpecSubjects DEF EditInv
<1>2. AllSubjects(spec) \in Seq(Subject)
    BY <1>1 DEF AllSubjects
<1>3. Uniq(AllSubjects(spec)) \in Seq(Subject)
    BY <1>2, UniqKeepsFirsts DEF FirstsOf
<1>4. /\ objects["project:admin"] = Binding(AdminClusterRole, AdminSubjects(spec))
      /\ objects["project:viewer"] = Binding(ViewerClusterRole, ViewerSubjects(spec))
      /\ objects["project:view"] = ClusterViewBinding(spec)
    BY BuiltObjects DEF EditInv
<1>5. /\ Bound("project:admin") = AdminSubjects(spec)
      /\ Bound("project:viewer") = ViewerSubjects(spec)
    BY <1>1, <1>4, BindingShows DEF Bound, Roles
<1>6. CASE EnableClusterView
    <2>1. objects["project:view"] = Binding("view", Uniq(AllSubjects(spec)))
        BY <1>4, <1>6 DEF ClusterViewBinding, AllSubjects
    <2>2. Bound("project:view") = Uniq(AllSubjects(spec))
        BY <1>3, <2>1, BindingShows DEF Bound, Roles
    <2> QED BY <1>2, <1>5, <1>6, <2>2
<1>7. CASE ~EnableClusterView
    BY <1>2, <1>4, <1>5, <1>7 DEF ClusterViewBinding, Bound
<1> QED BY <1>6, <1>7
-----------------------------------------------------------------------------
(* The theorems.                                                           *)

LEMMA InBoth ==
    ASSUME NEW S, NEW a \in Seq(S), NEW b \in Seq(S)
    PROVE  ToSet(a \o b) = ToSet(a) \cup ToSet(b)
<1>1. /\ DOMAIN a = 1..Len(a) /\ Len(a) \in Nat
      /\ DOMAIN b = 1..Len(b) /\ Len(b) \in Nat
      /\ DOMAIN (a \o b) = 1 .. Len(a) + Len(b)
      /\ \A i \in 1..Len(a) : (a \o b)[i] = a[i]
      /\ \A i \in 1..Len(b) : (a \o b)[Len(a) + i] = b[i]
    OBVIOUS
<1>2. /\ \A i \in 1..Len(a) : i \in 1 .. Len(a) + Len(b)
      /\ \A i \in 1..Len(b) : Len(a) + i \in 1 .. Len(a) + Len(b)
      /\ \A i \in 1 .. Len(a) + Len(b) :
            i \in 1..Len(a) \/ \E j \in 1..Len(b) : i = Len(a) + j
    <2>1. ASSUME NEW i \in 1 .. Len(a) + Len(b), i \notin 1..Len(a)
          PROVE  \E j \in 1..Len(b) : i = Len(a) + j
        <3>1. i - Len(a) \in 1..Len(b) /\ i = Len(a) + (i - Len(a))
            BY <1>1, <2>1
        <3> QED BY <3>1
    <2> QED BY <1>1, <2>1
<1>3. ASSUME NEW x \in ToSet(a \o b) PROVE x \in ToSet(a) \cup ToSet(b)
    <2>1. PICK i \in 1 .. Len(a) + Len(b) : x = (a \o b)[i]
        BY <1>1, <1>3 DEF ToSet
    <2> QED BY <1>1, <1>2, <2>1 DEF ToSet
<1>4. ASSUME NEW x \in ToSet(a) \cup ToSet(b) PROVE x \in ToSet(a \o b)
    BY <1>1, <1>2, <1>4 DEF ToSet
<1> QED BY <1>3, <1>4

(* Whoever one of the two role bindings binds may see the project, nobody  *)
(* else may, and nobody is listed twice (project_controller.go:305-318).   *)
THEOREM ViewCoversBindings == EditSpec => []ClusterViewCoversBindings
<1>1. EditInv => ClusterViewCoversBindings
    <2> SUFFICES ASSUME EditInv, EnableClusterView PROVE ClusterViewCoversBindings
        BY DEF ClusterViewCoversBindings
    <2> DEFINE all == AllSubjects(spec)
               view == Uniq(all)
    <2>1. all \in Seq(Subject) /\ Bound("project:view") = view
        BY WhoIsBound
    <2>2. FirstsOf(view, all, Len(all), Subject)
        BY <2>1, UniqKeepsFirsts
    <2> HIDE DEF all, view
    <2>3. /\ DOMAIN all = 1..Len(all) /\ Len(all) \in Nat
          /\ DOMAIN view = 1..Len(view) /\ Len(view) \in Nat
        BY <2>1, <2>2 DEF FirstsOf
    <2>4. ToSet(view) = ToSet(all)
        <3>1. \A j \in 1..Len(view) : \E i \in 1..Len(all) : view[j] = all[i]
            BY <2>2 DEF FirstsOf, Firsts
        <3>2. \A i \in 1..Len(all) : \E j \in 1..Len(view) : view[j] = all[i]
            BY <2>2 DEF FirstsOf, Covers
        <3>3. ASSUME NEW x \in ToSet(view) PROVE x \in ToSet(all)
            BY <2>3, <3>1, <3>3 DEF ToSet
        <3>4. ASSUME NEW x \in ToSet(all) PROVE x \in ToSet(view)
            <4>1. PICK i \in 1..Len(all) : x = all[i]
                BY <2>3, <3>4 DEF ToSet
            <4>2. PICK j \in 1..Len(view) : view[j] = x
                BY <3>2, <4>1
            <4> QED BY <2>3, <4>2 DEF ToSet
        <3> QED BY <3>3, <3>4
    <2>5. ToSet(all) = ToSet(Bound("project:admin")) \cup ToSet(Bound("project:viewer"))
        BY WhoIsBound, InBoth, SpecSubjects DEF all, AllSubjects, EditInv
    <2>6. \A j, k \in DOMAIN view : j < k => view[j] # view[k]
        <3> SUFFICES ASSUME NEW j \in DOMAIN view, NEW k \in DOMAIN view,
                            j < k, view[j] = view[k]
                     PROVE  FALSE
            OBVIOUS
        <3>1. PICK i \in 1..Len(all) : IsFirst(all, i) /\ view[j] = all[i]
            BY <2>2, <2>3 DEF FirstsOf, Firsts
        <3>2. i < i
            BY <2>2, <2>3, <3>1 DEF FirstsOf, InOrder
        <3> QED BY <3>2
    <2>7. IsInjective(view)
        <3>1. \A j, k \in DOMAIN view : j < k \/ k < j \/ j = k
            BY <2>3
        <3> QED BY <2>6, <3>1 DEF IsInjective
    <2> QED BY <2>1, <2>4, <2>5, <2>7 DEF ClusterViewCoversBindings
<1> QED BY <1>1, EditInvariant, PTL

(* The subjects of the cluster view are in the order in which the spec     *)
(* lists them first (project_controller.go:306).                           *)
THEOREM ViewIsInOrder == EditSpec => []ClusterViewInOrder
<1>1. EditInv => ClusterViewInOrder
    <2> SUFFICES ASSUME EditInv PROVE ClusterViewInOrder
        OBVIOUS
    <2> DEFINE all == AllSubjects(spec)
               view == Bound("project:view")
               At(i) == CHOOSE n \in DOMAIN all :
                            all[n] = view[i] /\ \A m \in 1..(n-1) : all[m] # view[i]
               first == [i \in DOMAIN view |-> At(i)]
    <2>1. all \in Seq(Subject) /\ view = IF EnableClusterView THEN Uniq(all) ELSE <<>>
        BY WhoIsBound
    <2>2. FirstsOf(Uniq(all), all, Len(all), Subject)
        BY <2>1, UniqKeepsFirsts
    <2>3. ASSUME NEW i \in DOMAIN view, NEW j \in DOMAIN view, i < j
          PROVE  first[i] < first[j]
        <3> HIDE DEF all
        <3>1. EnableClusterView
            BY <2>1, <2>3
        <3>2. view = Uniq(all)
            BY <2>1, <3>1
        <3> HIDE DEF view
        <3>3. /\ DOMAIN all = 1..Len(all) /\ Len(all) \in Nat
              /\ DOMAIN view = 1..Len(view) /\ Len(view) \in Nat
            BY <2>1, <2>2, <3>2 DEF FirstsOf
        <3>4. ASSUME NEW k \in DOMAIN view
              PROVE  /\ At(k) \in 1..Len(all)
                     /\ IsFirst(all, At(k)) /\ view[k] = all[At(k)]
            <4>1. PICK n \in DOMAIN all : IsFirst(all, n) /\ view[k] = all[n]
                BY <2>2, <3>2, <3>3 DEF FirstsOf, Firsts
            <4>2. \E m \in DOMAIN all :
                    all[m] = view[k] /\ \A q \in 1..(m-1) : all[q] # view[k]
                BY <4>1 DEF IsFirst
            <4> QED BY <3>3, <4>2 DEF IsFirst
        <3> HIDE DEF At
        <3>5. At(i) < At(j)
            BY <2>2, <2>3, <3>2, <3>3, <3>4 DEF FirstsOf, InOrder
        <3> QED BY <3>5
    <2> HIDE DEF first
    <2> QED BY <2>3 DEF ClusterViewInOrder, AllSubjects, first
<1> QED BY <1>1, EditInvariant, PTL

(* An edit changes, and so replaces, only the objects it concerns, and all *)
(* of them (project_controller.go:232-303).                                *)
THEOREM EditsAreSeen == EditSpec => EditsReachTheirObjects
<1> DEFINE Reached ==
        LET changed == {k \in Keys : objects'[k] # objects[k]}
        IN  /\ spec'.labels # spec.labels <=> "namespace" \in changed
            /\ AdminSubjects(spec') # AdminSubjects(spec) <=> "project:admin" \in changed
            /\ ViewerSubjects(spec') # ViewerSubjects(spec) <=> "project:viewer" \in changed
            /\ "project:view" \in changed =>
                 changed \cap {"project:admin", "project:viewer"} # {}
<1>1. ASSUME EditInv, EditInv' PROVE Reached
    <2>1. /\ objects["namespace"] = [labels |-> spec.labels]
          /\ objects'["namespace"] = [labels |-> spec'.labels]
        BY <1>1, BuiltObjects DEF EditInv
    <2>2. /\ objects["project:admin"] = Binding(AdminClusterRole, AdminSubjects(spec))
          /\ objects'["project:admin"] = Binding(AdminClusterRole, AdminSubjects(spec'))
        BY <1>1, BuiltObjects DEF EditInv
    <2>3. /\ objects["project:viewer"] = Binding(ViewerClusterRole, ViewerSubjects(spec))
          /\ objects'["project:viewer"] = Binding(ViewerClusterRole, ViewerSubjects(spec'))
        BY <1>1, BuiltObjects DEF EditInv
    <2>4. /\ objects["project:view"] = ClusterViewBinding(spec)
          /\ objects'["project:view"] = ClusterViewBinding(spec')
        BY <1>1, BuiltObjects DEF EditInv
    <2>5. /\ AdminSubjects(spec) \in Seq(Subject) /\ AdminSubjects(spec') \in Seq(Subject)
          /\ ViewerSubjects(spec) \in Seq(Subject) /\ ViewerSubjects(spec') \in Seq(Subject)
        BY <1>1, SpecSubjects DEF EditInv
    <2>6. \A role \in Roles, l, k \in Seq(Subject) :
            l # k => Binding(role, l) # Binding(role, k)
        BY BindingShows
    <2>7. spec'.labels # spec.labels <=> objects'["namespace"] # objects["namespace"]
        <3>1. [labels |-> spec.labels].labels = spec.labels
              /\ [labels |-> spec'.labels].labels = spec'.labels
            OBVIOUS
        <3> QED BY <2>1, <3>1
    <2>8. AdminSubjects(spec') # AdminSubjects(spec)
            <=> objects'["project:admin"] # objects["project:admin"]
        BY <2>2, <2>5, <2>6 DEF Roles
    <2>9. ViewerSubjects(spec') # ViewerSubjects(spec)
            <=> objects'["project:viewer"] # objects["project:viewer"]
        BY <2>3, <2>5, <2>6 DEF Roles
    <2>10. objects'["project:view"] # objects["project:view"] =>
                \/ AdminSubjects(spec') # AdminSubjects(spec)
                \/ ViewerSubjects(spec') # ViewerSubjects(spec)
        BY <2>4 DEF ClusterViewBinding
    <2> QED BY <2>7, <2>8, <2>9, <2>10 DEF Keys
<1>2. EditInv /\ EditInv' => [Reached]_editVars
    BY <1>1
<1> HIDE DEF Reached
<1>3. EditSpec => [][Reached]_editVars
    BY <1>2, EditInvariant, PTL
<1>4. EditsReachTheirObjects <=> [][Reached]_editVars
    BY DEF EditsReachTheirObjects, Reached
<1> QED BY <1>3, <1>4, PTL
==============================================================================
