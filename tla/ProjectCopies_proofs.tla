------------------------- MODULE ProjectCopies_proofs -------------------------
(***************************************************************************)
(* Deep copies of projects, for any objects, goroutines, fields, data and  *)
(* lengths of lists: no two projects share memory, and whoever uses copies *)
(* may take projects for values.                                           *)
(*                                                                         *)
(* The invariant is stronger than that nothing is shared: what a project   *)
(* refers to was allocated for it.                                         *)
(***************************************************************************)
EXTENDS ProjectCopies, SequenceTheorems, TLAPS

\* What a reader sees of project p in memory m, and what it refers to there.
ValueIn(m, p) ==
    [f \in Fields |->
        IF p[f] = Nil THEN Nil
        ELSE IF f = "conditions"
        THEN [k \in DOMAIN m[p[f]] |->
                [status |-> m[p[f]][k].status,
                 lastTransitionTime |->
                    IF m[p[f]][k].lastTransitionTime = Nil THEN Nil
                    ELSE m[m[p[f]][k].lastTransitionTime]]]
        ELSE m[p[f]]]

Times(m, p) ==
    IF p["conditions"] = Nil THEN {}
    ELSE {m[p["conditions"]][k].lastTransitionTime : k \in DOMAIN m[p["conditions"]]}

ReachIn(m, p) == ({p[f] : f \in Fields} \cup Times(m, p)) \ {Nil}

\* Project p refers to what was allocated for it, at its place.
OwnIn(m, p, at) ==
    /\ p \in Project
    /\ \A f \in Fields : p[f] \in {Nil, <<at, f>>}
    /\ Times(m, p) \subseteq {Nil, <<at, "lastTransitionTime">>}
    /\ \A ref \in ReachIn(m, p) : m[ref] # Nil

Cell(ref) == {Nil} \cup (IF ref[2] = "conditions" THEN ConditionLists ELSE Data)

MemoryType(m) ==
    /\ m = [ref \in References |-> m[ref]]
    /\ \A ref \in References : m[ref] \in Cell(ref)

Capacity(o) == IF o \in Cached THEN 1 ELSE MaxItems

CopiesTypes ==
    /\ held \in [Holders -> Seq(Project)]
    /\ \A o \in Holders : Len(held[o]) <= Capacity(o)
    /\ MemoryType(memory)
    /\ store \in Cached \cup {Nil}
    /\ got \in [Users -> Cached \cup {Nil}]
    /\ \A u \in Users : got[u] # Nil => Len(held[u]) < MaxItems

OwnMemory ==
    \A o \in Holders : \A i \in 1..Len(held[o]) : OwnIn(memory, held[o][i], <<o, i>>)

CopiesInv == CopiesTypes /\ OwnMemory
-----------------------------------------------------------------------------
(* Places and what is there.                                               *)

LEMMA FieldNames ==
    /\ "conditions" \in Fields /\ "lastObservedAt" \in Fields
    /\ "conditions" \notin SpecFields /\ "lastObservedAt" \notin SpecFields
    /\ "lastTransitionTime" \notin Fields
BY CopiesAssumption DEF Fields

LEMMA PlaceRefs ==
    ASSUME NEW at \in Places
    PROVE  /\ \A f \in Fields : <<at, f>> \in References
           /\ <<at, "lastTransitionTime">> \in References
           /\ \A ref \in References : ref = <<ref[1], ref[2]>>
BY DEF References

LEMMA NilApart ==
    /\ \A ref \in References : ref # Nil
    /\ \A cs \in ConditionLists : cs # Nil
    /\ \A d \in Data : d # Nil
    /\ \A v \in Cached : v # Nil
BY NilAssumption, CopiesAssumption

\* There is at most one condition.
LEMMA ListOfConditions ==
    ASSUME NEW cs \in ConditionLists
    PROVE  \/ cs = <<>> /\ DOMAIN cs = {}
           \/ cs = <<cs[1]>> /\ DOMAIN cs = {1} /\ cs[1] \in Condition
<1>1. CASE cs = <<>>
    BY <1>1
<1>2. CASE \E c \in Condition : cs = <<c>>
    BY <1>2
<1> QED BY <1>1, <1>2 DEF ConditionLists

\* A list of conditions that is made by copying one by one.
LEMMA ListMade ==
    ASSUME NEW cs \in ConditionLists, NEW g, g = [k \in DOMAIN cs |-> g[k]],
           \A k \in DOMAIN cs : g[k] \in Condition
    PROVE  g \in ConditionLists /\ DOMAIN g = DOMAIN cs
<1>1. CASE cs = <<>> /\ DOMAIN cs = {}
    <2>1. g = <<>>
        BY <1>1
    <2> QED BY <1>1, <2>1 DEF ConditionLists
<1>2. CASE DOMAIN cs = {1}
    <2>1. g = <<g[1]>>
        BY <1>2
    <2> QED BY <1>2, <2>1 DEF ConditionLists
<1> QED BY <1>1, <1>2, ListOfConditions

\* Conditions are allocated as a list of conditions.
LEMMA ConditionsThere ==
    ASSUME NEW m, MemoryType(m), NEW at \in Places, NEW p, OwnIn(m, p, at),
           p["conditions"] # Nil
    PROVE  /\ p["conditions"] = <<at, "conditions">>
           /\ m[p["conditions"]] \in ConditionLists
<1>1. p["conditions"] = <<at, "conditions">>
    BY FieldNames DEF OwnIn
<1>2. p["conditions"] \in ReachIn(m, p)
    BY FieldNames DEF ReachIn
<1>3. m[p["conditions"]] # Nil
    BY <1>2 DEF OwnIn
<1>4. <<at, "conditions">> \in References
    BY FieldNames, PlaceRefs
<1> QED BY <1>1, <1>3, <1>4 DEF MemoryType, Cell

LEMMA ReachPlace ==
    ASSUME NEW m, NEW at \in Places, NEW p, OwnIn(m, p, at)
    PROVE  \A ref \in ReachIn(m, p) : ref \in References /\ ref[1] = at
<1>1. \A ref \in ReachIn(m, p) :
        \/ \E f \in Fields : ref = <<at, f>>
        \/ ref = <<at, "lastTransitionTime">>
    BY DEF OwnIn, ReachIn
<1> QED BY <1>1, PlaceRefs

\* Projects stay what they are if what they refer to does.
LEMMA Unchanged ==
    ASSUME NEW m, NEW n, NEW at \in Places, NEW p, OwnIn(m, p, at),
           \A ref \in ReachIn(m, p) : n[ref] = m[ref]
    PROVE  /\ OwnIn(n, p, at)
           /\ ReachIn(n, p) = ReachIn(m, p)
           /\ ValueIn(n, p) = ValueIn(m, p)
<1>1. \A f \in Fields : p[f] # Nil => n[p[f]] = m[p[f]]
    BY DEF ReachIn
<1>2. Times(n, p) = Times(m, p)
    <2>1. CASE p["conditions"] = Nil
        BY <2>1 DEF Times
    <2>2. CASE p["conditions"] # Nil
        <3>1. n[p["conditions"]] = m[p["conditions"]]
            BY <1>1, <2>2, FieldNames
        <3> QED BY <2>2, <3>1 DEF Times
    <2> QED BY <2>1, <2>2
<1>3. ReachIn(n, p) = ReachIn(m, p)
    BY <1>2 DEF ReachIn
<1>4. OwnIn(n, p, at)
    BY <1>2, <1>3 DEF OwnIn
<1>5. ASSUME p["conditions"] # Nil, NEW k \in DOMAIN m[p["conditions"]]
      PROVE  LET t == m[p["conditions"]][k].lastTransitionTime
             IN  t # Nil => n[t] = m[t]
    BY <1>5 DEF ReachIn, Times
<1>6. ASSUME NEW f \in Fields PROVE ValueIn(n, p)[f] = ValueIn(m, p)[f]
    <2>1. CASE p[f] = Nil
        BY <2>1 DEF ValueIn
    <2>2. CASE p[f] # Nil /\ f # "conditions"
        BY <1>1, <2>2 DEF ValueIn
    <2>3. CASE p[f] # Nil /\ f = "conditions"
        BY <1>1, <1>5, <2>3 DEF ValueIn
    <2> QED BY <2>1, <2>2, <2>3
<1>7. ValueIn(n, p) = ValueIn(m, p)
    BY <1>6 DEF ValueIn
<1> QED BY <1>3, <1>4, <1>7
-----------------------------------------------------------------------------
(* Copies.                                                                 *)

\* What a memory m has at a place, as a copy of what is in memory n.
CopiedTo(m, n, p, at) ==
    /\ \A f \in Fields \ {"conditions"} : p[f] # Nil => m[<<at, f>>] = n[p[f]]
    /\ p["conditions"] # Nil =>
        /\ m[<<at, "conditions">>] =
            [k \in DOMAIN n[p["conditions"]] |-> ConditionCopy(n[p["conditions"]][k], at)]
        /\ \A k \in DOMAIN n[p["conditions"]] :
            LET t == n[p["conditions"]][k].lastTransitionTime
            IN  t # Nil => m[<<at, "lastTransitionTime">>] = n[t]

LEMMA CopyFields ==
    ASSUME NEW p, NEW at \in Places
    PROVE  /\ ProjectCopy(p, at) \in Project
           /\ \A f \in Fields : ProjectCopy(p, at)[f] = IF p[f] = Nil THEN Nil ELSE <<at, f>>
<1> DEFINE q == ProjectCopy(p, at)
<1>1. DOMAIN SpecCopy(p, at) = SpecFields
      /\ DOMAIN StatusCopy(p, at) = {"lastObservedAt", "conditions"}
    BY DEF SpecCopy, StatusCopy
<1>2. q = [f \in Fields |-> IF f \in SpecFields THEN SpecCopy(p, at)[f] ELSE StatusCopy(p, at)[f]]
    BY <1>1 DEF ProjectCopy, Fields, Joined
<1>3. \A f \in Fields : q[f] = IF p[f] = Nil THEN Nil ELSE <<at, f>>
    BY <1>2 DEF SpecCopy, StatusCopy, NewUnlessNil, Fields
<1>4. q = [f \in Fields |-> q[f]]
    BY <1>2
<1> HIDE DEF q
<1>5. q \in Project
    BY <1>3, <1>4, PlaceRefs DEF Project
<1> QED BY <1>3, <1>5 DEF q

LEMMA ConditionCopied ==
    ASSUME NEW c \in Condition, NEW at \in Places
    PROVE  /\ ConditionCopy(c, at) \in Condition
           /\ ConditionCopy(c, at).status = c.status
           /\ ConditionCopy(c, at).lastTransitionTime =
                IF c.lastTransitionTime = Nil THEN Nil ELSE <<at, "lastTransitionTime">>
BY PlaceRefs DEF Condition, ConditionCopy, NewUnlessNil

\* The conditions of the copy.
ListCopied(old, new, at) ==
    /\ new \in ConditionLists
    /\ DOMAIN new = DOMAIN old
    /\ \A k \in DOMAIN old :
        /\ old[k] \in Condition
        /\ new[k] = ConditionCopy(old[k], at)

LEMMA ConditionsCopied ==
    ASSUME NEW m, NEW n, MemoryType(n), NEW from \in Places, NEW at \in Places,
           NEW p, OwnIn(n, p, from), CopiedTo(m, n, p, at), p["conditions"] # Nil
    PROVE  ListCopied(n[p["conditions"]], m[ProjectCopy(p, at)["conditions"]], at)
<1> DEFINE q == ProjectCopy(p, at)
           old == n[p["conditions"]]
           new == m[q["conditions"]]
<1>1. old \in ConditionLists
    BY ConditionsThere
<1>2. q["conditions"] = <<at, "conditions">>
    BY CopyFields, FieldNames
<1>3. new = [k \in DOMAIN old |-> ConditionCopy(old[k], at)]
    BY <1>2 DEF CopiedTo
<1> HIDE DEF q, old, new
<1>4. \A k \in DOMAIN old : old[k] \in Condition
    BY <1>1, ListOfConditions
<1>5. \A k \in DOMAIN old : new[k] = ConditionCopy(old[k], at) /\ new[k] \in Condition
    BY <1>3, <1>4, ConditionCopied
<1>6. new = [k \in DOMAIN old |-> new[k]]
    BY <1>3
<1>7. new \in ConditionLists /\ DOMAIN new = DOMAIN old
    BY <1>1, <1>5, <1>6, ListMade
<1>8. ListCopied(old, new, at)
    BY <1>4, <1>5, <1>7 DEF ListCopied
<1> QED BY <1>8 DEF q, old, new

\* A copy is a project of its own and has the value of the original.
LEMMA CopyIsEqual ==
    ASSUME NEW m, NEW n, MemoryType(n), NEW from \in Places, NEW at \in Places,
           NEW p, OwnIn(n, p, from), CopiedTo(m, n, p, at)
    PROVE  /\ OwnIn(m, ProjectCopy(p, at), at)
           /\ ValueIn(m, ProjectCopy(p, at)) = ValueIn(n, p)
<1> DEFINE q == ProjectCopy(p, at)
           old == n[p["conditions"]]
           new == m[q["conditions"]]
<1>1. q \in Project /\ \A f \in Fields : q[f] = IF p[f] = Nil THEN Nil ELSE <<at, f>>
    BY CopyFields
<1>2. \A f \in Fields : q[f] = Nil <=> p[f] = Nil
    <2>1. \A f \in Fields : <<at, f>> # Nil
        BY PlaceRefs, NilApart
    <2> QED BY <1>1, <2>1
<1>3. ASSUME p["conditions"] # Nil
      PROVE  /\ new \in ConditionLists
             /\ DOMAIN new = DOMAIN old
             /\ \A k \in DOMAIN old : old[k] \in Condition /\ new[k] = ConditionCopy(old[k], at)
    <2>1. ListCopied(old, new, at)
        BY <1>3, ConditionsCopied
    <2> HIDE DEF old, new
    <2> QED BY <2>1 DEF ListCopied
<1> HIDE DEF q
<1>4. ASSUME p["conditions"] # Nil, NEW k \in DOMAIN old
      PROVE  /\ new[k].status = old[k].status
             /\ old[k].lastTransitionTime = Nil => new[k].lastTransitionTime = Nil
             /\ old[k].lastTransitionTime # Nil =>
                    /\ new[k].lastTransitionTime = <<at, "lastTransitionTime">>
                    /\ m[new[k].lastTransitionTime] = n[old[k].lastTransitionTime]
                    /\ n[old[k].lastTransitionTime] # Nil
    <2>1. /\ old[k] \in Condition
          /\ new[k] = ConditionCopy(old[k], at)
        BY <1>3, <1>4
    <2>2. /\ new[k].status = old[k].status
          /\ new[k].lastTransitionTime =
                IF old[k].lastTransitionTime = Nil THEN Nil ELSE <<at, "lastTransitionTime">>
        BY <2>1, ConditionCopied
    <2>3. ASSUME old[k].lastTransitionTime # Nil
          PROVE  n[old[k].lastTransitionTime] # Nil
        BY <1>4, <2>3 DEF OwnIn, ReachIn, Times
    <2>4. ASSUME old[k].lastTransitionTime # Nil
          PROVE  m[<<at, "lastTransitionTime">>] = n[old[k].lastTransitionTime]
        BY <1>4, <2>4 DEF CopiedTo
    <2> QED BY <2>2, <2>3, <2>4
<1> HIDE DEF old, new
<1>5. \A f \in Fields \ {"conditions"} : p[f] # Nil => m[q[f]] = n[p[f]] /\ n[p[f]] # Nil
    <2> TAKE f \in Fields \ {"conditions"}
    <2> HAVE p[f] # Nil
    <2>1. n[p[f]] # Nil
        BY DEF OwnIn, ReachIn
    <2> QED BY <1>1, <2>1 DEF CopiedTo
<1>6. Times(m, q) \subseteq {Nil, <<at, "lastTransitionTime">>}
    <2>1. CASE p["conditions"] = Nil
        BY <1>2, <2>1, FieldNames DEF Times
    <2>2. CASE p["conditions"] # Nil
        <3>1. \A k \in DOMAIN new : new[k].lastTransitionTime \in {Nil, <<at, "lastTransitionTime">>}
            BY <1>3, <1>4, <2>2 DEF new, old
        <3> QED BY <1>2, <2>2, <3>1, FieldNames DEF Times, new
    <2> QED BY <2>1, <2>2
<1>7. ASSUME NEW ref \in ReachIn(m, q) PROVE m[ref] # Nil
    <2>1. CASE \E f \in Fields \ {"conditions"} : ref = q[f] /\ q[f] # Nil
        BY <1>2, <1>5, <2>1
    <2>2. CASE ref = q["conditions"] /\ q["conditions"] # Nil
        BY <1>2, <1>3, <2>2, FieldNames, NilApart DEF new
    <2>3. CASE ref \in Times(m, q) /\ ref # Nil
        <3>1. p["conditions"] # Nil
            BY <1>2, <2>3, FieldNames DEF Times
        <3>2. PICK k \in DOMAIN new : ref = new[k].lastTransitionTime
            BY <1>2, <2>3, <3>1, FieldNames DEF Times, new
        <3>3. k \in DOMAIN old
            BY <1>3, <3>1, <3>2 DEF new, old
        <3>4. old[k].lastTransitionTime # Nil
            BY <1>4, <2>3, <3>1, <3>2, <3>3 DEF new, old
        <3> QED BY <1>4, <3>1, <3>2, <3>3, <3>4 DEF new, old
    <2> QED BY <2>1, <2>2, <2>3 DEF ReachIn
<1>8. OwnIn(m, q, at)
    BY <1>1, <1>6, <1>7 DEF OwnIn
<1>9. ASSUME NEW f \in Fields PROVE ValueIn(m, q)[f] = ValueIn(n, p)[f]
    <2>1. CASE p[f] = Nil
        BY <1>2, <2>1 DEF ValueIn
    <2>2. CASE p[f] # Nil /\ f # "conditions"
        BY <1>2, <1>5, <2>2 DEF ValueIn
    <2>3. CASE p[f] # Nil /\ f = "conditions"
        <3>1. DOMAIN new = DOMAIN old
            BY <1>3, <2>3 DEF new, old
        <3>2. \A k \in DOMAIN old :
                /\ new[k].status = old[k].status
                /\ (IF new[k].lastTransitionTime = Nil THEN Nil ELSE m[new[k].lastTransitionTime])
                   = IF old[k].lastTransitionTime = Nil THEN Nil ELSE n[old[k].lastTransitionTime]
            <4>1. <<at, "lastTransitionTime">> # Nil
                BY PlaceRefs, NilApart
            <4> QED BY <1>4, <2>3, <4>1 DEF new, old
        <3>3. ValueIn(m, q)[f] =
                [k \in DOMAIN new |->
                    [status |-> new[k].status,
                     lastTransitionTime |-> IF new[k].lastTransitionTime = Nil THEN Nil
                                            ELSE m[new[k].lastTransitionTime]]]
            BY <1>2, <2>3 DEF ValueIn, new
        <3>4. ValueIn(n, p)[f] =
                [k \in DOMAIN old |->
                    [status |-> old[k].status,
                     lastTransitionTime |-> IF old[k].lastTransitionTime = Nil THEN Nil
                                            ELSE n[old[k].lastTransitionTime]]]
            BY <2>3 DEF ValueIn, old
        <3> QED BY <3>1, <3>2, <3>3, <3>4
    <2> QED BY <2>1, <2>2, <2>3
<1>10. ValueIn(m, q) = ValueIn(n, p)
    BY <1>9 DEF ValueIn
<1> QED BY <1>8, <1>10 DEF q

\* The cells of a copy.
LEMMA CellsOfCopy ==
    ASSUME MemoryType(memory), NEW from \in Places, NEW at \in Places,
           NEW p, OwnIn(memory, p, from)
    PROVE  /\ \A ref \in DOMAIN ProjectCells(p, at) :
                /\ ref \in References /\ ref[1] = at
                /\ ProjectCells(p, at)[ref] \in Cell(ref)
           /\ \A m :
                (\A ref \in DOMAIN ProjectCells(p, at) : m[ref] = ProjectCells(p, at)[ref])
                    => CopiedTo(m, memory, p, at)
<1> DEFINE plain == SpecFields \cup {"lastObservedAt"}
           c1 == Cells(p, plain, at)
           c2 == ConditionsCells(p, at)
           in == memory[p["conditions"]]
           time == <<at, "lastTransitionTime">>
<1>1. plain = Fields \ {"conditions"}
    BY FieldNames DEF Fields
<1>2. /\ DOMAIN c1 = {<<at, f>> : f \in {g \in plain : p[g] # Nil}}
      /\ \A f \in plain : p[f] # Nil => c1[<<at, f>>] = memory[p[f]]
    BY DEF Cells
<1>3. \A ref \in DOMAIN c1 : ref \in References /\ ref[1] = at /\ c1[ref] \in Cell(ref)
    <2> SUFFICES ASSUME NEW f \in plain, p[f] # Nil
                 PROVE  LET ref == <<at, f>>
                        IN  ref \in References /\ ref[1] = at /\ c1[ref] \in Cell(ref)
        BY <1>2
    <2>1. f \in Fields /\ f # "conditions"
        BY <1>1
    <2>2. p[f] = <<from, f>>
        BY <2>1 DEF OwnIn
    <2>3. <<from, f>> \in References /\ <<at, f>> \in References
        BY <2>1, PlaceRefs
    <2>4. memory[p[f]] \in Cell(<<from, f>>)
        BY <2>2, <2>3 DEF MemoryType
    <2> QED BY <1>2, <2>1, <2>3, <2>4 DEF Cell
<1>4. CASE p["conditions"] = Nil
    <2>1. c2 = <<>> /\ DOMAIN c2 = {}
        BY <1>4 DEF ConditionsCells
    <2>2. ProjectCells(p, at) = Joined(c1, c2)
        BY DEF ProjectCells
    <2> HIDE DEF c1, c2, plain
    <2>3. /\ DOMAIN ProjectCells(p, at) = DOMAIN c1
          /\ \A ref \in DOMAIN c1 : ProjectCells(p, at)[ref] = c1[ref]
        BY <2>1, <2>2 DEF Joined
    <2>4. ASSUME NEW m, \A ref \in DOMAIN c1 : m[ref] = c1[ref]
          PROVE  CopiedTo(m, memory, p, at)
        BY <1>1, <1>2, <1>4, <2>4 DEF CopiedTo
    <2> QED BY <1>3, <2>3, <2>4
<1>5. CASE p["conditions"] # Nil
    <2>1. in \in ConditionLists
        BY <1>5, ConditionsThere
    <2> DEFINE new == [i \in DOMAIN in |-> ConditionCopy(in[i], at)]
               c3 == [ref \in {<<at, "conditions">>} |-> new]
               c4 == IF in = <<>> THEN <<>> ELSE ConditionCells(in[1], at)
    <2>2. c2 = Joined(c3, c4)
        BY <1>5 DEF ConditionsCells
    <2>3. new \in ConditionLists
        <3>1. \A k \in DOMAIN in : new[k] \in Condition
            <4>1. \A k \in DOMAIN in : in[k] \in Condition
                BY <2>1, ListOfConditions
            <4> HIDE DEF in
            <4> QED BY <4>1, ConditionCopied
        <3>2. new = [k \in DOMAIN in |-> new[k]]
            OBVIOUS
        <3> HIDE DEF new, in
        <3> QED BY <2>1, <3>1, <3>2, ListMade
    <2>4. DOMAIN c3 = {<<at, "conditions">>} /\ c3[<<at, "conditions">>] = new
        OBVIOUS
    <2>5. /\ DOMAIN c4 \subseteq {time}
          /\ \A k \in DOMAIN in : in[k].lastTransitionTime # Nil =>
                time \in DOMAIN c4 /\ c4[time] = memory[in[k].lastTransitionTime]
          /\ time \in DOMAIN c4 => c4[time] \in Data \cup {Nil}
        <3>1. CASE in = <<>> /\ DOMAIN in = {}
            <4>1. DOMAIN c4 = {}
                BY <3>1
            <4> QED BY <3>1, <4>1
        <3>2. CASE DOMAIN in = {1} /\ in[1] \in Condition
            <4>0. in # <<>>
                <5>1. DOMAIN <<>> = {}
                    OBVIOUS
                <5> QED BY <3>2, <5>1
            <4>1. CASE in[1].lastTransitionTime = Nil
                <5>1. c4 = <<>> /\ DOMAIN c4 = {}
                    BY <4>0, <4>1 DEF ConditionCells
                <5> QED BY <3>2, <4>1, <5>1
            <4>2. CASE in[1].lastTransitionTime # Nil
                <5>1. c4 = [ref \in {time} |-> memory[in[1].lastTransitionTime]]
                    BY <4>0, <4>2 DEF ConditionCells
                <5>2. in[1].lastTransitionTime = <<from, "lastTransitionTime">>
                    BY <1>5, <3>2, <4>2 DEF OwnIn, Times
                <5>3. <<from, "lastTransitionTime">> \in References
                    BY PlaceRefs
                <5>4. memory[in[1].lastTransitionTime] \in Data \cup {Nil}
                    BY <5>2, <5>3 DEF MemoryType, Cell
                <5> HIDE DEF c4, in
                <5> QED BY <3>2, <5>1, <5>4
            <4> QED BY <4>1, <4>2
        <3> HIDE DEF c4
        <3> QED BY <2>1, <3>1, <3>2, ListOfConditions
    <2>6. ProjectCells(p, at) = Joined(c1, c2)
        BY DEF ProjectCells
    <2>7. <<at, "conditions">> # time
        OBVIOUS
    <2>8. \A ref \in DOMAIN c1 : ref # <<at, "conditions">> /\ ref # time
        BY <1>1, <1>2, FieldNames
    <2> HIDE DEF c1, c2, c3, c4, new, plain, in, time
    <2>9. /\ DOMAIN ProjectCells(p, at) = DOMAIN c1 \cup {<<at, "conditions">>} \cup DOMAIN c4
          /\ \A ref \in DOMAIN c1 : ProjectCells(p, at)[ref] = c1[ref]
          /\ ProjectCells(p, at)[<<at, "conditions">>] = new
          /\ time \in DOMAIN c4 => ProjectCells(p, at)[time] = c4[time]
        BY <2>2, <2>4, <2>5, <2>6, <2>7, <2>8 DEF Joined
    <2>10. ASSUME NEW ref \in DOMAIN ProjectCells(p, at)
           PROVE  ref \in References /\ ref[1] = at /\ ProjectCells(p, at)[ref] \in Cell(ref)
        <3>1. CASE ref \in DOMAIN c1
            BY <1>3, <2>9, <3>1
        <3>2. CASE ref = <<at, "conditions">>
            BY <2>3, <2>9, <3>2, PlaceRefs, FieldNames DEF Cell
        <3>3. CASE ref = time /\ time \in DOMAIN c4
            BY <2>5, <2>9, <3>3, PlaceRefs DEF Cell, time
        <3> QED BY <2>5, <2>9, <2>10, <3>1, <3>2, <3>3
    <2>11. ASSUME NEW m, \A ref \in DOMAIN ProjectCells(p, at) : m[ref] = ProjectCells(p, at)[ref]
           PROVE  CopiedTo(m, memory, p, at)
        <3>1. \A f \in Fields \ {"conditions"} : p[f] # Nil => m[<<at, f>>] = memory[p[f]]
            BY <1>1, <1>2, <2>9, <2>11
        <3>2. m[<<at, "conditions">>] = new
            BY <2>9, <2>11
        <3>3. \A k \in DOMAIN in : in[k].lastTransitionTime # Nil =>
                    m[time] = memory[in[k].lastTransitionTime]
            BY <2>5, <2>9, <2>11
        <3> QED BY <1>5, <3>1, <3>2, <3>3 DEF CopiedTo, new, in, time
    <2> QED BY <2>10, <2>11
<1> QED BY <1>4, <1>5
-----------------------------------------------------------------------------
(* Deep copies of lists.                                                   *)

LEMMA ListsType ==
    ASSUME CopiesTypes, NEW o \in Holders
    PROVE  /\ held[o] \in Seq(Project) /\ Len(held[o]) \in Nat
           /\ DOMAIN held[o] = 1..Len(held[o])
           /\ Len(held[o]) <= MaxItems
           /\ \A i \in 1..Len(held[o]) : <<o, i>> \in Places
<1>1. held[o] \in Seq(Project) /\ Len(held[o]) <= Capacity(o)
    BY DEF CopiesTypes
<1>2. Len(held[o]) \in Nat /\ DOMAIN held[o] = 1..Len(held[o])
    BY <1>1, LenProperties
<1>3. Len(held[o]) <= MaxItems /\ MaxItems \in Nat
    BY <1>1, <1>2, CopiesAssumption DEF Capacity
<1> QED BY <1>1, <1>2, <1>3 DEF Places

\* After a deep copy, h has projects that are copied, behind those it had, and
\* the rest of the memory is what it was.
Copied(list, h, last) ==
    /\ held'[h] \in Seq(Project)
    /\ Len(held'[h]) = last + Len(list)
    /\ \A j \in 1..last : held'[h][j] = held[h][j]
    /\ \A i \in 1..Len(list) :
        /\ held'[h][last + i] = ProjectCopy(list[i], <<h, last + i>>)
        /\ CopiedTo(memory', memory, list[i], <<h, last + i>>)
    /\ \A o \in Holders \ {h} : held'[o] = held[o]
    /\ held' \in [Holders -> Seq(Project)]
    /\ MemoryType(memory')
    /\ \A ref \in References :
        (\A i \in 1..Len(list) : ref[1] # <<h, last + i>>) => memory'[ref] = memory[ref]

LEMMA DeepCopied ==
    ASSUME CopiesTypes, OwnMemory, NEW o \in Holders, NEW h \in Holders,
           Len(held[h]) + Len(held[o]) <= MaxItems, DeepCopy(held[o], h)
    PROVE  Copied(held[o], h, Len(held[h]))
<1> DEFINE list == held[o]
           last == Len(held[h])
           at(i) == <<h, last + i>>
           cells == [i \in DOMAIN list |-> ProjectCells(list[i], at(i))]
           new == UNION {DOMAIN cells[i] : i \in DOMAIN list}
           copies == ListCopy(list, h, last)
<1>1. /\ list \in Seq(Project) /\ Len(list) \in Nat /\ DOMAIN list = 1..Len(list)
      /\ held[h] \in Seq(Project) /\ last \in Nat /\ last + Len(list) <= MaxItems
      /\ \A i \in 1..Len(list) : <<o, i>> \in Places /\ OwnIn(memory, list[i], <<o, i>>)
    BY ListsType DEF OwnMemory
<1>2. \A i \in 1..Len(list) : at(i) \in Places
    <2> TAKE i \in 1..Len(list)
    <2> HIDE DEF list, last
    <2>1. last + i \in 1..MaxItems
        BY <1>1, CopiesAssumption
    <2> QED BY <2>1 DEF Places
<1>3. MemoryType(memory)
    BY DEF CopiesTypes
<1>4. held' = [held EXCEPT ![h] = held[h] \o copies]
    BY DEF DeepCopy
<1>5. memory' = [ref \in References |->
            IF ref \in new THEN cells[ref[1][2] - last][ref] ELSE memory[ref]]
    BY DEF DeepCopy
<1> HIDE DEF list, last
<1>6. ASSUME NEW i \in 1..Len(list)
      PROVE  /\ cells[i] = ProjectCells(list[i], at(i))
             /\ \A ref \in DOMAIN cells[i] :
                    ref \in References /\ ref[1] = at(i) /\ cells[i][ref] \in Cell(ref)
             /\ \A m : (\A ref \in DOMAIN cells[i] : m[ref] = cells[i][ref])
                    => CopiedTo(m, memory, list[i], at(i))
    <2>1. cells[i] = ProjectCells(list[i], at(i))
        BY <1>1
    <2>2. <<o, i>> \in Places /\ at(i) \in Places /\ OwnIn(memory, list[i], <<o, i>>)
        BY <1>1, <1>2
    <2> HIDE DEF cells, at
    <2> QED BY <1>3, <2>1, <2>2, CellsOfCopy
<1>7. ASSUME NEW i \in 1..Len(list), NEW ref \in DOMAIN cells[i]
      PROVE  memory'[ref] = cells[i][ref]
    <2>1. ref \in References /\ ref[1] = at(i)
        BY <1>6
    <2>2. ref \in new
        BY <1>1
    <2>3. ref[1][2] - last = i
        BY <1>1, <2>1
    <2> HIDE DEF cells, new
    <2> QED BY <1>5, <2>1, <2>2, <2>3
<1>8. ASSUME NEW i \in 1..Len(list) PROVE CopiedTo(memory', memory, list[i], at(i))
    <2> HIDE DEF cells, at
    <2> QED BY <1>6, <1>7
<1>9. ASSUME NEW ref \in References
      PROVE  /\ (\A i \in 1..Len(list) : ref[1] # at(i)) => memory'[ref] = memory[ref]
             /\ memory'[ref] \in Cell(ref)
    <2>1. CASE ref \notin new
        <3>1. memory'[ref] = memory[ref]
            BY <1>5, <2>1
        <3> QED BY <1>3, <3>1 DEF MemoryType
    <2>2. CASE ref \in new
        <3>1. PICK i \in 1..Len(list) : ref \in DOMAIN cells[i]
            BY <1>1, <2>2
        <3> HIDE DEF cells, at
        <3> QED BY <1>6, <1>7, <3>1
    <2> QED BY <2>1, <2>2
<1>10. MemoryType(memory')
    <2> HIDE DEF cells, new, at
    <2>1. memory' = [ref \in References |-> memory'[ref]]
        BY <1>5
    <2> QED BY <1>9, <2>1 DEF MemoryType
<1>11. /\ copies \in Seq(Project) /\ Len(copies) = Len(list)
       /\ \A i \in 1..Len(list) : copies[i] = ProjectCopy(list[i], at(i))
    <2>1. copies = [i \in 1..Len(list) |-> ProjectCopy(list[i], at(i))]
        BY <1>1 DEF ListCopy
    <2>2. \A i \in 1..Len(list) : ProjectCopy(list[i], at(i)) \in Project
        BY <1>2, CopyFields
    <2> HIDE DEF copies, at
    <2>3. copies \in [1..Len(list) -> Project]
        BY <2>1, <2>2
    <2>4. copies \in Seq(Project) /\ Len(copies) = Len(list)
        BY <1>1, <2>3
    <2> QED BY <2>1, <2>4
<1> HIDE DEF cells, new, copies
<1>12. /\ held'[h] = held[h] \o copies
       /\ \A q \in Holders \ {h} : held'[q] = held[q]
    BY <1>4 DEF CopiesTypes
<1>13. /\ held'[h] \in Seq(Project)
       /\ Len(held'[h]) = last + Len(list)
       /\ \A i \in 1 .. last + Len(list) :
            held'[h][i] = IF i <= last THEN held[h][i] ELSE copies[i - last]
    <2> DEFINE old == held[h]
    <2>1. old \in Seq(Project) /\ Len(old) = last
        BY <1>1 DEF last
    <2>2. held'[h] = old \o copies
        BY <1>12
    <2> HIDE DEF old
    <2>3. /\ old \o copies \in Seq(Project)
          /\ Len(old \o copies) = last + Len(list)
          /\ \A i \in 1 .. last + Len(list) :
                (old \o copies)[i] = IF i <= last THEN old[i] ELSE copies[i - last]
        <3>1. /\ old \o copies \in Seq(Project)
              /\ Len(old \o copies) = Len(old) + Len(copies)
              /\ \A i \in 1 .. Len(old) + Len(copies) :
                    (old \o copies)[i] = IF i <= Len(old) THEN old[i] ELSE copies[i - Len(old)]
            BY <1>11, <2>1, ConcatProperties
        <3> QED BY <1>11, <2>1, <3>1
    <2>4. \A i \in 1 .. last + Len(list) :
                held'[h][i] = IF i <= last THEN old[i] ELSE copies[i - last]
        BY <2>2, <2>3
    <2> QED BY <2>2, <2>3, <2>4 DEF old
<1>14. \A j \in 1..last : held'[h][j] = held[h][j]
    BY <1>1, <1>13
<1>15. \A i \in 1..Len(list) : held'[h][last + i] = ProjectCopy(list[i], at(i))
    <2> TAKE i \in 1..Len(list)
    <2>1. last + i \in 1 .. last + Len(list) /\ ~(last + i <= last) /\ last + i - last = i
        BY <1>1
    <2> DEFINE k == last + i
    <2>2. held'[h][k] = IF k <= last THEN held[h][k] ELSE copies[k - last]
        BY <1>13, <2>1
    <2>3. k - last = i /\ ~(k <= last)
        BY <1>1
    <2>4. held'[h][k] = copies[i]
        BY <2>2, <2>3
    <2> QED BY <1>11, <2>4
<1>16. held' \in [Holders -> Seq(Project)]
    BY <1>4, <1>12, <1>13 DEF CopiesTypes
<1> QED BY <1>8, <1>9, <1>10, <1>12, <1>13, <1>14, <1>15, <1>16 DEF Copied, list, last
-----------------------------------------------------------------------------
(* What a step does to the projects of a holder: it is used by every       *)
(* action.                                                                 *)

\* The projects of o are left alone.
LEMMA Spared ==
    ASSUME CopiesTypes, OwnMemory, NEW o \in Holders, held'[o] = held[o],
           \A i \in 1..Len(held[o]) :
                \A ref \in ReachIn(memory, held[o][i]) : memory'[ref] = memory[ref]
    PROVE  /\ \A i \in 1..Len(held'[o]) : OwnIn(memory', held'[o][i], <<o, i>>)
           /\ \A i \in 1..Len(held[o]) :
                ValueIn(memory', held'[o][i]) = ValueIn(memory, held[o][i])
<1>1. ASSUME NEW i \in 1..Len(held[o])
      PROVE  /\ OwnIn(memory', held[o][i], <<o, i>>)
             /\ ValueIn(memory', held[o][i]) = ValueIn(memory, held[o][i])
    <2>1. OwnIn(memory, held[o][i], <<o, i>>) /\ <<o, i>> \in Places
        BY ListsType DEF OwnMemory
    <2>2. \A ref \in ReachIn(memory, held[o][i]) : memory'[ref] = memory[ref]
        OBVIOUS
    <2> QED BY <2>1, <2>2, Unchanged
<1> QED BY <1>1

\* Memory that is changed for a holder is not of the others.
LEMMA OthersSpared ==
    ASSUME CopiesTypes, OwnMemory, NEW h \in Holders, NEW o \in Holders \ {h},
           held'[o] = held[o],
           \A ref \in References : ref[1][1] # h => memory'[ref] = memory[ref]
    PROVE  /\ \A i \in 1..Len(held'[o]) : OwnIn(memory', held'[o][i], <<o, i>>)
           /\ \A i \in 1..Len(held[o]) :
                ValueIn(memory', held'[o][i]) = ValueIn(memory, held[o][i])
<1>1. ASSUME NEW i \in 1..Len(held[o]), NEW ref \in ReachIn(memory, held[o][i])
      PROVE  memory'[ref] = memory[ref]
    <2>1. OwnIn(memory, held[o][i], <<o, i>>) /\ <<o, i>> \in Places
        BY ListsType DEF OwnMemory
    <2>2. ref \in References /\ ref[1] = <<o, i>>
        BY <1>1, <2>1, ReachPlace
    <2>3. ref[1][1] # h
        BY <2>2
    <2> QED BY <2>2, <2>3
<1> QED BY <1>1, Spared

\* What a holder has after a copy.
LEMMA CopiesOwn ==
    ASSUME CopiesTypes, OwnMemory, NEW h \in Holders, NEW o \in Holders,
           Len(held[h]) + Len(held[o]) <= MaxItems,
           Copied(held[o], h, Len(held[h]))
    PROVE  /\ \A i \in 1..Len(held'[h]) : OwnIn(memory', held'[h][i], <<h, i>>)
           /\ \A i \in 1..Len(held[h]) :
                ValueIn(memory', held'[h][i]) = ValueIn(memory, held[h][i])
           /\ \A i \in 1..Len(held[o]) :
                ValueIn(memory', held'[h][Len(held[h]) + i]) = ValueIn(memory, held[o][i])
<1> DEFINE last == Len(held[h])
           n == Len(held[o])
<1>1. last \in Nat /\ n \in Nat /\ last + n <= MaxItems /\ MaxItems \in Nat
    BY ListsType, CopiesAssumption
<1>2. ASSUME NEW i \in 1..last
      PROVE  /\ OwnIn(memory', held'[h][i], <<h, i>>)
             /\ ValueIn(memory', held'[h][i]) = ValueIn(memory, held[h][i])
    <2>1. held'[h][i] = held[h][i]
        BY DEF Copied
    <2>2. OwnIn(memory, held[h][i], <<h, i>>) /\ <<h, i>> \in Places
        BY ListsType DEF OwnMemory
    <2>3. ASSUME NEW ref \in ReachIn(memory, held[h][i]) PROVE memory'[ref] = memory[ref]
        <3>1. ref \in References /\ ref[1] = <<h, i>>
            BY <2>2, <2>3, ReachPlace
        <3>2. \A j \in 1..n : i # last + j
            BY <1>1
        <3>3. \A j \in 1..n : ref[1] # <<h, last + j>>
            BY <3>1, <3>2
        <3> QED BY <3>1, <3>3 DEF Copied
    <2>4. /\ OwnIn(memory', held[h][i], <<h, i>>)
          /\ ValueIn(memory', held[h][i]) = ValueIn(memory, held[h][i])
        BY <2>2, <2>3, Unchanged
    <2> QED BY <2>1, <2>4
<1>3. ASSUME NEW i \in 1..n
      PROVE  /\ OwnIn(memory', held'[h][last + i], <<h, last + i>>)
             /\ ValueIn(memory', held'[h][last + i]) = ValueIn(memory, held[o][i])
    <2>1. OwnIn(memory, held[o][i], <<o, i>>) /\ <<o, i>> \in Places
        BY ListsType DEF OwnMemory
    <2> HIDE DEF last, n
    <2>2. last + i \in 1..MaxItems
        BY <1>1
    <2> USE DEF last, n
    <2>3. <<h, last + i>> \in Places
        BY <2>2 DEF Places
    <2>4. /\ held'[h][last + i] = ProjectCopy(held[o][i], <<h, last + i>>)
          /\ CopiedTo(memory', memory, held[o][i], <<h, last + i>>)
        BY DEF Copied
    <2>5. MemoryType(memory)
        BY DEF CopiesTypes
    <2> HIDE DEF last
    <2> QED BY <2>1, <2>3, <2>4, <2>5, CopyIsEqual
<1>4. Len(held'[h]) = last + n
    BY DEF Copied
<1>5. ASSUME NEW i \in 1..Len(held'[h]) PROVE OwnIn(memory', held'[h][i], <<h, i>>)
    <2>1. CASE i \in 1..last
        BY <1>2, <2>1
    <2>2. CASE i \notin 1..last
        <3> HIDE DEF last, n
        <3>1. i - last \in 1..n /\ last + (i - last) = i
            BY <1>1, <1>4, <2>2
        <3>2. PICK j \in 1..n : i = last + j
            BY <3>1
        <3> QED BY <1>3, <3>2
    <2> QED BY <2>1, <2>2
<1> QED BY <1>2, <1>3, <1>5
-----------------------------------------------------------------------------
(* The actions.                                                            *)

\* Project i of u is edited, and nothing else.
Edited(u, i) ==
    /\ held' \in [Holders -> Seq(Project)]
    /\ \A o \in Holders \ {u} : held'[o] = held[o]
    /\ i \in 1..Len(held[u])
    /\ Len(held'[u]) = Len(held[u])
    /\ \A j \in 1..Len(held[u]) : j # i => held'[u][j] = held[u][j]
    /\ MemoryType(memory')
    /\ \A ref \in References : ref[1] # <<u, i>> => memory'[ref] = memory[ref]
    /\ OwnIn(memory', held'[u][i], <<u, i>>)
    /\ UNCHANGED <<store, got>>

\* A project of u is replaced, or kept.
Replaced(u, i, p) ==
    \/ held' = [held EXCEPT ![u] = [held[u] EXCEPT ![i] = p]]
    \/ held' = held /\ p = held[u][i]

LEMMA ProjectReplaced ==
    ASSUME CopiesTypes, NEW u \in Users, NEW i, i \in DOMAIN held[u], NEW p \in Project,
           Replaced(u, i, p)
    PROVE  /\ held' \in [Holders -> Seq(Project)]
           /\ \A o \in Holders \ {u} : held'[o] = held[o]
           /\ Len(held'[u]) = Len(held[u])
           /\ held'[u][i] = p
           /\ \A j \in 1..Len(held[u]) : j # i => held'[u][j] = held[u][j]
<1> DEFINE list == held[u]
           new == [list EXCEPT ![i] = p]
<1>1. u \in Holders /\ held \in [Holders -> Seq(Project)]
    BY DEF Holders, CopiesTypes
<1>2. list \in Seq(Project) /\ i \in 1..Len(list)
    BY <1>1, ListsType
<1> HIDE DEF list
<1>3. /\ new \in Seq(Project)
      /\ Len(new) = Len(list)
      /\ \A j \in 1..Len(list) : new[j] = IF j = i THEN p ELSE list[j]
    BY <1>2, ExceptSeq
<1> HIDE DEF new
<1>4. CASE held' = [held EXCEPT ![u] = new]
    <2>1. held'[u] = new /\ \A o \in Holders \ {u} : held'[o] = held[o]
        BY <1>1, <1>4
    <2>2. held' \in [Holders -> Seq(Project)]
        BY <1>1, <1>3, <1>4
    <2> QED BY <1>2, <1>3, <2>1, <2>2 DEF list
<1>5. CASE held' = held /\ p = held[u][i]
    BY <1>1, <1>5
<1> QED BY <1>4, <1>5 DEF Replaced, new, list

LEMMA EditSpecEdits ==
    ASSUME CopiesTypes, OwnMemory, NEW u \in Users, NEW i, NEW f \in SpecFields, NEW d \in Data,
           EditSpec(u, i, f, d)
    PROVE  Edited(u, i)
<1> DEFINE p == held[u][i]
           at == <<u, i>>
<1>1. i \in DOMAIN held[u] /\ p[f] # Nil /\ memory' = [memory EXCEPT ![p[f]] = d]
      /\ UNCHANGED <<held, store, got>>
    BY DEF EditSpec, Editing
<1>2. u \in Holders /\ i \in 1..Len(held[u]) /\ at \in Places
    BY <1>1, ListsType DEF Holders
<1>3. OwnIn(memory, p, at) /\ MemoryType(memory)
    BY <1>2 DEF OwnMemory, CopiesTypes
<1>4. f \in Fields /\ f # "conditions"
    BY FieldNames DEF Fields
<1>5. p[f] = <<at, f>> /\ <<at, f>> \in References
    BY <1>1, <1>2, <1>3, <1>4, PlaceRefs DEF OwnIn
<1> HIDE DEF p, at
<1>6. memory' = [memory EXCEPT ![<<at, f>>] = d]
    BY <1>1, <1>5
<1>7. /\ memory'[<<at, f>>] = d
      /\ \A ref \in References : ref # <<at, f>> => memory'[ref] = memory[ref]
    BY <1>3, <1>5, <1>6 DEF MemoryType
<1>8. MemoryType(memory')
    <2>1. memory' = [ref \in References |-> memory'[ref]]
        BY <1>3, <1>6 DEF MemoryType
    <2>2. ASSUME NEW ref \in References PROVE memory'[ref] \in Cell(ref)
        <3>1. CASE ref = <<at, f>>
            BY <1>4, <1>7, <3>1 DEF Cell
        <3>2. CASE ref # <<at, f>>
            BY <1>3, <1>7, <3>2 DEF MemoryType
        <3> QED BY <3>1, <3>2
    <2> QED BY <2>1, <2>2 DEF MemoryType
<1>9. OwnIn(memory', p, at)
    <2>1. Times(memory', p) = Times(memory, p)
        <3>1. CASE p["conditions"] = Nil
            BY <3>1 DEF Times
        <3>2. CASE p["conditions"] # Nil
            <4>1. p["conditions"] = <<at, "conditions">> /\ <<at, "conditions">> \in References
                BY <1>2, <1>3, <3>2, ConditionsThere, PlaceRefs, FieldNames
            <4>2. memory'[p["conditions"]] = memory[p["conditions"]]
                BY <1>4, <1>7, <4>1
            <4> QED BY <3>2, <4>2 DEF Times
        <3> QED BY <3>1, <3>2
    <2>2. ReachIn(memory', p) = ReachIn(memory, p)
        BY <2>1 DEF ReachIn
    <2>3. ASSUME NEW ref \in ReachIn(memory, p) PROVE memory'[ref] # Nil
        <3>1. ref \in References
            BY <1>2, <1>3, <2>3, ReachPlace
        <3>2. memory[ref] # Nil
            BY <1>3 DEF OwnIn
        <3> QED BY <1>7, <3>1, <3>2, NilApart
    <2> QED BY <1>3, <2>1, <2>2, <2>3 DEF OwnIn
<1>10. \A ref \in References : ref[1] # at => memory'[ref] = memory[ref]
    BY <1>7
<1>11. held \in [Holders -> Seq(Project)]
    BY DEF CopiesTypes
<1> QED BY <1>1, <1>2, <1>8, <1>9, <1>10, <1>11 DEF Edited, p, at

LEMMA SetLastObservedAtEdits ==
    ASSUME CopiesTypes, OwnMemory, NEW u \in Users, NEW i, NEW d \in Data,
           SetLastObservedAt(u, i, d)
    PROVE  Edited(u, i)
<1> DEFINE p == held[u][i]
           at == <<u, i>>
           new == <<at, "lastObservedAt">>
           q == [p EXCEPT !["lastObservedAt"] = new]
<1>1. i \in DOMAIN held[u] /\ memory' = [memory EXCEPT ![new] = d] /\ UNCHANGED <<store, got>>
      /\ held' = [held EXCEPT ![u] = [held[u] EXCEPT ![i] = q]]
    BY DEF SetLastObservedAt, Editing
<1>2. u \in Holders /\ i \in 1..Len(held[u]) /\ at \in Places
    BY <1>1, ListsType DEF Holders
<1>3. OwnIn(memory, p, at) /\ MemoryType(memory)
    BY <1>2 DEF OwnMemory, CopiesTypes
<1>4. new \in References
    BY <1>2, PlaceRefs, FieldNames
<1>5. q \in Project /\ q["lastObservedAt"] = new
      /\ \A f \in Fields : f # "lastObservedAt" => q[f] = p[f]
    BY <1>3, <1>4, FieldNames DEF OwnIn, Project
<1>6. /\ held' \in [Holders -> Seq(Project)]
      /\ \A o \in Holders \ {u} : held'[o] = held[o]
      /\ Len(held'[u]) = Len(held[u])
      /\ held'[u][i] = q
      /\ \A j \in 1..Len(held[u]) : j # i => held'[u][j] = held[u][j]
    <2>1. Replaced(u, i, q)
        BY <1>1 DEF Replaced
    <2> HIDE DEF q
    <2> QED BY <1>1, <1>5, <2>1, ProjectReplaced
<1> HIDE DEF p, q
<1>7. /\ memory'[new] = d
      /\ \A ref \in References : ref # new => memory'[ref] = memory[ref]
    BY <1>1, <1>3, <1>4 DEF MemoryType
<1>8. MemoryType(memory')
    <2>1. memory' = [ref \in References |-> memory'[ref]]
        BY <1>1, <1>3 DEF MemoryType
    <2>2. ASSUME NEW ref \in References PROVE memory'[ref] \in Cell(ref)
        <3>1. CASE ref = new
            BY <1>7, <3>1 DEF Cell
        <3>2. CASE ref # new
            BY <1>3, <1>7, <3>2 DEF MemoryType
        <3> QED BY <3>1, <3>2
    <2> QED BY <2>1, <2>2 DEF MemoryType
<1>9. OwnIn(memory', q, at)
    <2>1. Times(memory', q) = Times(memory, p)
        <3>0. q["conditions"] = p["conditions"]
            BY <1>5, FieldNames
        <3>1. CASE p["conditions"] = Nil
            BY <3>0, <3>1 DEF Times
        <3>2. CASE p["conditions"] # Nil
            <4>1. p["conditions"] = <<at, "conditions">> /\ <<at, "conditions">> \in References
                BY <1>2, <1>3, <3>2, ConditionsThere, PlaceRefs, FieldNames
            <4>2. memory'[q["conditions"]] = memory[p["conditions"]]
                BY <1>7, <3>0, <4>1
            <4> QED BY <3>0, <3>2, <4>2 DEF Times
        <3> QED BY <3>1, <3>2
    <2>2. \A ref \in ReachIn(memory', q) : ref = new \/ ref \in ReachIn(memory, p)
        BY <1>5, <2>1 DEF ReachIn
    <2>3. ASSUME NEW ref \in ReachIn(memory, p) PROVE memory'[ref] # Nil
        <3>1. ref \in References
            BY <1>2, <1>3, <2>3, ReachPlace
        <3>2. memory[ref] # Nil
            BY <1>3 DEF OwnIn
        <3> QED BY <1>7, <3>1, <3>2, NilApart
    <2>4. \A f \in Fields : q[f] \in {Nil, <<at, f>>}
        BY <1>3, <1>5 DEF OwnIn
    <2>5. memory'[new] # Nil
        BY <1>7, NilApart
    <2>6. Times(memory', q) \subseteq {Nil, <<at, "lastTransitionTime">>}
        BY <1>3, <2>1 DEF OwnIn
    <2> QED BY <1>5, <2>2, <2>3, <2>4, <2>5, <2>6 DEF OwnIn
<1>10. \A ref \in References : ref[1] # at => memory'[ref] = memory[ref]
    BY <1>7
<1> QED BY <1>1, <1>2, <1>6, <1>8, <1>9, <1>10 DEF Edited

LEMMA SetConditionEdits ==
    ASSUME CopiesTypes, OwnMemory, NEW u \in Users, NEW i, NEW status \in Statuses,
           NEW d \in Data, SetCondition(u, i, status, d)
    PROVE  Edited(u, i)
<1> DEFINE p == held[u][i]
           at == <<u, i>>
           time == <<at, "lastTransitionTime">>
           slice == <<at, "conditions">>
           q == [p EXCEPT !["conditions"] = slice]
           transition == [status |-> status, lastTransitionTime |-> time]
           same == memory' = memory /\ p["conditions"] # Nil
           other == memory' = [memory EXCEPT ![slice] = <<transition>>, ![time] = d]
<1>1. i \in DOMAIN held[u] /\ UNCHANGED <<store, got>>
    BY DEF SetCondition, Editing
<1>2. u \in Holders /\ i \in 1..Len(held[u]) /\ at \in Places
    BY <1>1, ListsType DEF Holders
<1>3. OwnIn(memory, p, at) /\ MemoryType(memory)
    BY <1>2 DEF OwnMemory, CopiesTypes
<1>4. slice \in References /\ time \in References /\ slice # time
    BY <1>2, PlaceRefs, FieldNames
<1>5. p["conditions"] \in {Nil, slice}
    BY <1>3, FieldNames DEF OwnIn
<1>6. /\ held' = [held EXCEPT ![u] = [held[u] EXCEPT ![i] = q]]
      /\ same \/ other
    <2> DEFINE none == p["conditions"] = Nil \/ Seen(p["conditions"]) = <<>>
               s == IF none THEN slice ELSE p["conditions"]
    <2>1. /\ held' = [held EXCEPT ![u] = [held[u] EXCEPT ![i] = [p EXCEPT !["conditions"] = s]]]
          /\ memory' = IF ~none /\ memory[p["conditions"]][1].status = status THEN memory
                       ELSE [memory EXCEPT ![s] = <<transition>>, ![time] = d]
        BY DEF SetCondition
    <2>2. s = slice
        BY <1>5
    <2> HIDE DEF s, slice, time, transition, p
    <2> QED BY <2>1, <2>2
<1>7. q \in Project /\ q["conditions"] = slice
      /\ \A f \in Fields : f # "conditions" => q[f] = p[f]
    BY <1>3, <1>4, FieldNames DEF OwnIn, Project
<1>8. /\ held' \in [Holders -> Seq(Project)]
      /\ \A o \in Holders \ {u} : held'[o] = held[o]
      /\ Len(held'[u]) = Len(held[u])
      /\ held'[u][i] = q
      /\ \A j \in 1..Len(held[u]) : j # i => held'[u][j] = held[u][j]
    <2>1. Replaced(u, i, q)
        BY <1>6 DEF Replaced
    <2> HIDE DEF q
    <2> QED BY <1>1, <1>7, <2>1, ProjectReplaced
<1>9. ASSUME same
      PROVE  /\ MemoryType(memory') /\ OwnIn(memory', q, at)
             /\ \A ref \in References : ref[1] # at => memory'[ref] = memory[ref]
    <2>1. q = p
        BY <1>3, <1>5, <1>9 DEF OwnIn, Project
    <2>2. memory' = memory
        BY <1>9
    <2> HIDE DEF p, q
    <2> QED BY <1>3, <2>1, <2>2
<1>10. ASSUME other
       PROVE  /\ MemoryType(memory') /\ OwnIn(memory', q, at)
              /\ \A ref \in References : ref[1] # at => memory'[ref] = memory[ref]
    <2>1. transition \in Condition /\ <<transition>> \in ConditionLists
        BY <1>4 DEF Condition, ConditionLists
    <2> HIDE DEF q, p
    <2>2. /\ memory'[slice] = <<transition>> /\ memory'[time] = d
          /\ \A ref \in References : ref # slice /\ ref # time => memory'[ref] = memory[ref]
          /\ memory' = [ref \in References |-> memory'[ref]]
        <3>1. memory = [ref \in References |-> memory[ref]]
            BY <1>3 DEF MemoryType
        <3>2. memory' = [memory EXCEPT ![slice] = <<transition>>, ![time] = d]
            BY <1>10
        <3> HIDE DEF slice, time, transition
        <3> QED BY <1>4, <3>1, <3>2
    <2>3. ASSUME NEW ref \in References PROVE memory'[ref] \in Cell(ref)
        <3>1. CASE ref = slice
            BY <2>1, <2>2, <3>1 DEF Cell
        <3>2. CASE ref = time
            BY <2>2, <3>2 DEF Cell
        <3>3. CASE ref # slice /\ ref # time
            BY <1>3, <2>2, <3>3 DEF MemoryType
        <3> QED BY <3>1, <3>2, <3>3
    <2>4. MemoryType(memory')
        BY <2>2, <2>3 DEF MemoryType
    <2>5. Times(memory', q) \subseteq {time}
        <3>1. q["conditions"] = slice
            BY <1>7
        <3>2. Times(memory', q) \subseteq {<<transition>>[k].lastTransitionTime : k \in {1}}
            BY <2>2, <3>1 DEF Times
        <3> QED BY <3>2
    <2>6. \A f \in Fields : q[f] \in {Nil, <<at, f>>}
        BY <1>3, <1>7 DEF OwnIn
    <2>7. ASSUME NEW ref \in ReachIn(memory', q) PROVE memory'[ref] # Nil
        <3>1. CASE ref = slice
            BY <2>1, <2>2, <3>1, NilApart
        <3>2. CASE ref = time
            BY <2>2, <3>2, NilApart
        <3>3. CASE ref # slice /\ ref # time
            <4>1. \E f \in Fields : f # "conditions" /\ ref = p[f] /\ ref # Nil
                BY <1>7, <2>5, <2>7, <3>3 DEF ReachIn
            <4>2. ref \in ReachIn(memory, p)
                BY <4>1 DEF ReachIn
            <4>3. ref \in References /\ memory[ref] # Nil
                BY <1>2, <1>3, <4>2, ReachPlace DEF OwnIn
            <4> QED BY <2>2, <3>3, <4>3
        <3> QED BY <3>1, <3>2, <3>3
    <2>8. OwnIn(memory', q, at)
        BY <1>7, <2>5, <2>6, <2>7 DEF OwnIn
    <2>9. \A ref \in References : ref[1] # at => memory'[ref] = memory[ref]
        BY <2>2
    <2> QED BY <2>4, <2>8, <2>9
<1> HIDE DEF same, other, q
<1> QED BY <1>1, <1>2, <1>6, <1>8, <1>9, <1>10 DEF Edited

\* What an edit leaves.
LEMMA EditOwns ==
    ASSUME CopiesInv, NEW u \in Users, NEW i, Edited(u, i)
    PROVE  /\ CopiesInv'
           /\ \A o \in Holders : Len(held'[o]) = Len(held[o])
           /\ \A o \in Holders : \A j \in 1..Len(held[o]) :
                (<<o, j>> # <<u, i>>) =>
                    ValueIn(memory', held'[o][j]) = ValueIn(memory, held[o][j])
<1>1. CopiesTypes /\ OwnMemory /\ u \in Holders
    BY DEF CopiesInv, Holders
<1>2. \A o \in Holders : Len(held'[o]) = Len(held[o])
    BY DEF Edited
<1>3. CopiesTypes'
    BY <1>1, <1>2 DEF Edited, CopiesTypes, Holders
<1>4. ASSUME NEW o \in Holders, NEW j \in 1..Len(held[o]), <<o, j>> # <<u, i>>
      PROVE  /\ OwnIn(memory', held'[o][j], <<o, j>>)
             /\ ValueIn(memory', held'[o][j]) = ValueIn(memory, held[o][j])
    <2>1. held'[o][j] = held[o][j]
        BY <1>4 DEF Edited
    <2>2. OwnIn(memory, held[o][j], <<o, j>>) /\ <<o, j>> \in Places
        BY <1>1, ListsType DEF OwnMemory
    <2>3. \A ref \in ReachIn(memory, held[o][j]) : ref \in References /\ ref[1] = <<o, j>>
        BY <2>2, ReachPlace
    <2>4. \A ref \in ReachIn(memory, held[o][j]) : memory'[ref] = memory[ref]
        BY <1>4, <2>3 DEF Edited
    <2>5. /\ OwnIn(memory', held[o][j], <<o, j>>)
          /\ ValueIn(memory', held[o][j]) = ValueIn(memory, held[o][j])
        BY <2>2, <2>4, Unchanged
    <2> QED BY <2>1, <2>5
<1>5. OwnIn(memory', held'[u][i], <<u, i>>)
    BY DEF Edited
<1>6. OwnMemory'
    BY <1>2, <1>4, <1>5 DEF OwnMemory
<1> QED BY <1>2, <1>3, <1>4, <1>6 DEF CopiesInv

\* An informer stores a new object.
LEMMA DeliverOwns ==
    ASSUME CopiesInv, NEW v \in Cached, Deliver(v)
    PROVE  /\ CopiesInv'
           /\ held[v] = <<>> /\ Len(held'[v]) = 1
           /\ \A o \in Holders \ {v} : held'[o] = held[o]
           /\ \A ref \in References : ref[1][1] # v => memory'[ref] = memory[ref]
<1> DEFINE at == <<v, 1>>
           time == <<at, "lastTransitionTime">>
<1>1. CopiesTypes /\ OwnMemory /\ v \in Holders /\ held \in [Holders -> Seq(Project)]
      /\ MemoryType(memory)
    BY DEF CopiesInv, CopiesTypes, Holders
<1>2. PICK present \in Present, d \in Data :
        LET allocated == present \cup IF "conditions" \in present THEN {"lastTransitionTime"} ELSE {}
        IN  /\ held' = [held EXCEPT ![v] =
                    <<[f \in Fields |-> IF f \in present THEN <<at, f>> ELSE Nil]>>]
            /\ memory' = [ref \in References |->
                    IF ref[1] # at THEN memory[ref]
                    ELSE IF ref[2] \notin allocated THEN Nil
                    ELSE IF ref[2] # "conditions" THEN d
                    ELSE <<[status |-> "False", lastTransitionTime |-> time]>>]
    BY DEF Deliver
<1> DEFINE p == [f \in Fields |-> IF f \in present THEN <<at, f>> ELSE Nil]
           transition == [status |-> "False", lastTransitionTime |-> time]
           allocated == present \cup IF "conditions" \in present THEN {"lastTransitionTime"} ELSE {}
<1>3. present \subseteq Fields
    BY CopiesAssumption DEF Fields
<1>4. at \in Places
    BY <1>1, CopiesAssumption DEF Places
<1>5. p \in Project /\ (\A f \in Fields : p[f] = IF f \in present THEN <<at, f>> ELSE Nil)
    <2>1. \A f \in Fields : <<at, f>> \in References
        BY <1>4, PlaceRefs
    <2> HIDE DEF at
    <2> QED BY <2>1 DEF Project
<1>6. held' = [held EXCEPT ![v] = <<p>>]
    BY <1>2
<1>7. memory' = [ref \in References |->
            IF ref[1] # at THEN memory[ref]
            ELSE IF ref[2] \notin allocated THEN Nil
            ELSE IF ref[2] # "conditions" THEN d
            ELSE <<transition>>]
    BY <1>2
<1>8. transition \in Condition /\ <<transition>> \in ConditionLists
    BY <1>4, PlaceRefs DEF Condition, ConditionLists, Statuses
<1> HIDE DEF p, transition, allocated, at, time
<1>9. MemoryType(memory')
    <2>1. memory' = [ref \in References |-> memory'[ref]]
        BY <1>7
    <2>2. ASSUME NEW ref \in References PROVE memory'[ref] \in Cell(ref)
        <3>1. memory[ref] \in Cell(ref)
            BY <1>1 DEF MemoryType
        <3> QED BY <1>7, <1>8, <3>1 DEF Cell
    <2> QED BY <2>1, <2>2 DEF MemoryType
<1>10. \A ref \in References : ref[1][1] # v => memory'[ref] = memory[ref]
    BY <1>7 DEF at
<1>11. ASSUME NEW f \in present
       PROVE  memory'[<<at, f>>] = IF f = "conditions" THEN <<transition>> ELSE d
    <2>1. <<at, f>> \in References
        BY <1>3, <1>4, PlaceRefs
    <2> QED BY <1>7, <2>1 DEF allocated
<1>12. "conditions" \in present => memory'[time] = d
    <2>1. time \in References /\ time[1] = at /\ time[2] = "lastTransitionTime"
        BY <1>4, PlaceRefs DEF time
    <2> QED BY <1>7, <2>1 DEF allocated
<1>13. "conditions" \in present =>
            p["conditions"] = <<at, "conditions">> /\ memory'[p["conditions"]] = <<transition>>
    BY <1>5, <1>11, FieldNames
<1>14. Times(memory', p) \subseteq {time} /\ (Times(memory', p) # {} => "conditions" \in present)
    <2>1. CASE "conditions" \in present
        <3>1. Times(memory', p) \subseteq {<<transition>>[k].lastTransitionTime : k \in {1}}
            BY <1>13, <2>1 DEF Times
        <3>2. transition.lastTransitionTime = time
            BY DEF transition
        <3> QED BY <2>1, <3>1, <3>2
    <2>2. CASE "conditions" \notin present
        BY <1>5, <2>2, FieldNames DEF Times
    <2> QED BY <2>1, <2>2
<1>15. OwnIn(memory', p, at)
    <2>1. ASSUME NEW ref \in ReachIn(memory', p) PROVE memory'[ref] # Nil
        <3>1. CASE \E f \in Fields : ref = p[f] /\ ref # Nil
            <4>1. PICK f \in present : ref = <<at, f>>
                BY <1>5, <3>1
            <4> QED BY <1>8, <1>11, <4>1, NilApart
        <3>2. CASE ref \in Times(memory', p)
            BY <1>12, <1>14, <3>2, NilApart
        <3> QED BY <2>1, <3>1, <3>2 DEF ReachIn
    <2>2. Times(memory', p) \subseteq {Nil, <<at, "lastTransitionTime">>}
        BY <1>14 DEF time
    <2> QED BY <1>5, <2>1, <2>2 DEF OwnIn
<1>16. /\ held'[v] = <<p>>
       /\ \A o \in Holders \ {v} : held'[o] = held[o]
    BY <1>1, <1>6
<1>17. <<p>> \in Seq(Project) /\ Len(<<p>>) = 1 /\ <<p>>[1] = p
    BY <1>5
<1>18. CopiesTypes'
    <2>1. held' \in [Holders -> Seq(Project)]
        BY <1>1, <1>6, <1>17
    <2>2. \A u \in Users : u # v /\ u \in Holders
        BY CopiesAssumption DEF Holders
    <2>3. store' \in Cached \cup {Nil} /\ got' = got
        BY DEF Deliver
    <2>4. Len(held'[v]) <= Capacity(v)
        BY <1>16, <1>17 DEF Capacity
    <2> QED BY <1>1, <1>9, <1>16, <2>1, <2>2, <2>3, <2>4 DEF CopiesTypes
<1>19. OwnMemory'
    <2>1. ASSUME NEW o \in Holders, NEW i \in 1..Len(held'[o])
          PROVE  OwnIn(memory', held'[o][i], <<o, i>>)
        <3>1. CASE o = v
            <4>1. i = 1 /\ held'[o][i] = p
                BY <1>16, <1>17, <3>1
            <4> QED BY <1>15, <3>1, <4>1 DEF at
        <3>2. CASE o # v
            BY <1>1, <1>10, <1>16, <3>2, OthersSpared
        <3> QED BY <3>1, <3>2
    <2> QED BY <2>1 DEF OwnMemory
<1>20. held[v] = <<>>
    BY DEF Deliver
<1> QED BY <1>10, <1>16, <1>17, <1>18, <1>19, <1>20 DEF CopiesInv

LEMMA ReachIs ==
    ASSUME NEW p
    PROVE  Reach(p) = ReachIn(memory, p)
BY DEF Reach, ReachIn, Times, Range

\* A holder drops its projects.
LEMMA DropOwns ==
    ASSUME CopiesInv, NEW o \in Holders, Drop(o)
    PROVE  /\ CopiesInv'
           /\ held'[o] = <<>>
           /\ \A h \in Holders \ {o} :
                /\ held'[h] = held[h]
                /\ \A i \in 1..Len(held[h]) :
                    ValueIn(memory', held'[h][i]) = ValueIn(memory, held[h][i])
<1> DEFINE kept == UNION {UNION {Reach(held[h][i]) : i \in DOMAIN held[h]} : h \in Holders \ {o}}
<1>1. CopiesTypes /\ OwnMemory /\ held \in [Holders -> Seq(Project)] /\ MemoryType(memory)
    BY DEF CopiesInv, CopiesTypes
<1>2. /\ held' = [held EXCEPT ![o] = <<>>]
      /\ memory' = [ref \in References |-> IF ref \in kept THEN memory[ref] ELSE Nil]
    BY DEF Drop
<1>3. held'[o] = <<>> /\ \A h \in Holders \ {o} : held'[h] = held[h]
    BY <1>1, <1>2
<1>4. \A h \in Holders \ {o} : \A i \in 1..Len(held[h]) : Reach(held[h][i]) \subseteq kept
    <2>1. \A h \in Holders : DOMAIN held[h] = 1..Len(held[h])
        BY <1>1, ListsType
    <2> QED BY <2>1
<1> HIDE DEF kept
<1>5. ASSUME NEW h \in Holders \ {o}
      PROVE  /\ \A i \in 1..Len(held'[h]) : OwnIn(memory', held'[h][i], <<h, i>>)
             /\ \A i \in 1..Len(held[h]) :
                    ValueIn(memory', held'[h][i]) = ValueIn(memory, held[h][i])
    <2>1. ASSUME NEW i \in 1..Len(held[h]), NEW ref \in ReachIn(memory, held[h][i])
          PROVE  memory'[ref] = memory[ref]
        <3>1. ref \in kept
            BY <1>4, <2>1, ReachIs
        <3>2. OwnIn(memory, held[h][i], <<h, i>>) /\ <<h, i>> \in Places
            BY <1>1, ListsType DEF OwnMemory
        <3>3. ref \in References
            BY <2>1, <3>2, ReachPlace
        <3> QED BY <1>2, <3>1, <3>3
    <2> QED BY <1>1, <1>3, <2>1, Spared
<1>6. MemoryType(memory')
    <2>1. memory' = [ref \in References |-> memory'[ref]]
        BY <1>2
    <2>2. ASSUME NEW ref \in References PROVE memory'[ref] \in Cell(ref)
        BY <1>1, <1>2 DEF MemoryType, Cell
    <2> QED BY <2>1, <2>2 DEF MemoryType
<1>7. <<>> \in Seq(Project) /\ Len(<<>>) = 0 /\ \A q \in Seq(Project) : Len(q) \in Nat
    BY EmptySeq, LenProperties
<1>8. CopiesTypes'
    <2>1. held' \in [Holders -> Seq(Project)]
        BY <1>1, <1>2, <1>7
    <2>2. UNCHANGED <<store, got>>
        BY DEF Drop
    <2>3. \A h \in Holders : Len(held'[h]) <= Capacity(h)
        <3>1. 0 <= Capacity(o)
            BY CopiesAssumption DEF Capacity
        <3> QED BY <1>1, <1>3, <1>7, <3>1 DEF CopiesTypes
    <2>4. \A u \in Users : got[u] # Nil => Len(held'[u]) < MaxItems
        <3>1. 0 < MaxItems /\ \A u \in Users : u \in Holders
            BY CopiesAssumption DEF Holders
        <3> QED BY <1>1, <1>3, <1>7, <3>1 DEF CopiesTypes
    <2> QED BY <1>1, <1>6, <2>1, <2>2, <2>3, <2>4 DEF CopiesTypes
<1>9. OwnMemory'
    <2>1. Len(held'[o]) = 0
        BY <1>3, <1>7
    <2>2. ASSUME NEW h \in Holders, NEW i \in 1..Len(held'[h])
          PROVE  OwnIn(memory', held'[h][i], <<h, i>>)
        <3>1. h # o
            BY <2>1, <2>2
        <3> QED BY <1>5, <2>2, <3>1
    <2> QED BY <2>2 DEF OwnMemory
<1> QED BY <1>3, <1>5, <1>8, <1>9 DEF CopiesInv

\* A holder h copies the projects of o.
Copies(o, h) ==
    /\ Len(held[h]) + Len(held[o]) <= MaxItems
    /\ DeepCopy(held[o], h)
    /\ UNCHANGED store
    /\ got' = got \/ got' = [got EXCEPT ![h] = Nil]
    /\ got'[h] = Nil

LEMMA CopyProjectCopies ==
    ASSUME CopiesInv, NEW u \in Users, CopyProject(u)
    PROVE  got[u] \in Holders /\ Copies(got[u], u)
<1>1. CopiesTypes /\ u \in Holders
    BY DEF CopiesInv, Holders
<1>2. got[u] \in Cached /\ Len(held[u]) < MaxItems
    BY <1>1 DEF CopiesTypes, CopyProject
<1>3. got[u] \in Holders /\ Len(held[got[u]]) <= 1
    BY <1>1, <1>2 DEF CopiesTypes, Holders, Capacity
<1>4. Len(held[u]) \in Nat /\ Len(held[got[u]]) \in Nat /\ MaxItems \in Nat
    BY <1>1, <1>3, ListsType, CopiesAssumption
<1>5. Len(held[u]) + Len(held[got[u]]) <= MaxItems
    <2> DEFINE a == Len(held[u])
               b == Len(held[got[u]])
    <2>1. a \in Nat /\ b \in Nat /\ MaxItems \in Nat /\ a < MaxItems /\ b <= 1
        BY <1>2, <1>3, <1>4
    <2> HIDE DEF a, b
    <2>2. a + b <= MaxItems
        BY <2>1
    <2> QED BY <2>2 DEF a, b
<1>6. got' = [got EXCEPT ![u] = Nil] /\ got'[u] = Nil
    BY <1>1 DEF CopyProject, CopiesTypes
<1> QED BY <1>3, <1>5, <1>6 DEF Copies, CopyProject

LEMMA CopyListCopies ==
    ASSUME CopiesInv, NEW u \in Users, NEW w \in Users, CopyList(u, w)
    PROVE  u \in Holders /\ Copies(u, w)
<1>1. CopiesTypes /\ u \in Holders
    BY DEF CopiesInv, Holders
<1>2. Len(held[w]) = 0
    BY EmptySeq DEF CopyList
<1>3. Len(held[w]) + Len(held[u]) <= MaxItems
    BY <1>1, <1>2, ListsType
<1> QED BY <1>1, <1>3 DEF Copies, CopyList

LEMMA CopiesKeep ==
    ASSUME CopiesInv, NEW o \in Holders, NEW h \in Users, Copies(o, h)
    PROVE  /\ CopiesInv'
           /\ Copied(held[o], h, Len(held[h]))
           /\ \A q \in Holders \ {h} :
                /\ held'[q] = held[q]
                /\ \A i \in 1..Len(held[q]) :
                    ValueIn(memory', held'[q][i]) = ValueIn(memory, held[q][i])
<1>1. CopiesTypes /\ OwnMemory /\ h \in Holders
    BY DEF CopiesInv, Holders
<1>2. Copied(held[o], h, Len(held[h]))
    BY <1>1, DeepCopied DEF Copies
<1>3. ASSUME NEW q \in Holders \ {h}
      PROVE  /\ held'[q] = held[q]
             /\ \A i \in 1..Len(held'[q]) : OwnIn(memory', held'[q][i], <<q, i>>)
             /\ \A i \in 1..Len(held[q]) :
                    ValueIn(memory', held'[q][i]) = ValueIn(memory, held[q][i])
    <2>1. held'[q] = held[q]
        BY <1>2 DEF Copied
    <2>2. \A ref \in References : ref[1][1] # h => memory'[ref] = memory[ref]
        <3>1. \A ref \in References : ref[1][1] # h =>
                    \A i \in 1..Len(held[o]) : ref[1] # <<h, Len(held[h]) + i>>
            OBVIOUS
        <3> QED BY <1>2, <3>1 DEF Copied
    <2> QED BY <1>1, <2>1, <2>2, OthersSpared
<1>4. \A i \in 1..Len(held'[h]) : OwnIn(memory', held'[h][i], <<h, i>>)
    BY <1>1, <1>2, CopiesOwn DEF Copies
<1>5. OwnMemory'
    BY <1>3, <1>4 DEF OwnMemory
<1>6. CopiesTypes'
    <2>1. held' \in [Holders -> Seq(Project)] /\ MemoryType(memory')
          /\ \A q \in Holders \ {h} : held'[q] = held[q]
        BY <1>2 DEF Copied
    <2>2. Len(held'[h]) = Len(held[h]) + Len(held[o])
        BY <1>2 DEF Copied
    <2>3. Capacity(h) = MaxItems
        BY CopiesAssumption DEF Capacity
    <2>4. \A q \in Holders : Len(held'[q]) <= Capacity(q)
        BY <1>1, <2>1, <2>2, <2>3 DEF Copies, CopiesTypes
    <2>5. /\ store' = store
          /\ got' \in [Users -> Cached \cup {Nil}]
          /\ got'[h] = Nil
          /\ \A u \in Users \ {h} : got'[u] = got[u]
        BY <1>1 DEF Copies, CopiesTypes
    <2>6. \A u \in Users : got'[u] # Nil => Len(held'[u]) < MaxItems
        BY <1>1, <2>1, <2>5 DEF CopiesTypes, Holders
    <2> QED BY <1>1, <2>1, <2>4, <2>5, <2>6 DEF CopiesTypes
<1> QED BY <1>2, <1>3, <1>5, <1>6 DEF CopiesInv
-----------------------------------------------------------------------------
(* Values.                                                                 *)

LEMMA ValueIs ==
    ASSUME NEW p
    PROVE  ValueOf(p) = ValueIn(memory, p)
<1>1. ASSUME NEW f \in Fields PROVE ValueOf(p)[f] = ValueIn(memory, p)[f]
    <2>1. CASE p[f] = Nil
        BY <2>1 DEF ValueOf, ValueIn, Seen
    <2>2. CASE p[f] # Nil /\ f # "conditions"
        BY <2>2 DEF ValueOf, ValueIn, Seen
    <2>3. CASE p[f] # Nil /\ f = "conditions"
        BY <2>3 DEF ValueOf, ValueIn, Seen
    <2> QED BY <2>1, <2>2, <2>3
<1> QED BY <1>1 DEF ValueOf, ValueIn

\* The variable of ProjectValues.
Value == [o \in Holders |-> Values(held[o])]

ValueList(m, list) == [i \in 1..Len(list) |-> ValueIn(m, list[i])]

LEMMA ValueIsList == CopiesTypes => Value = [o \in Holders |-> ValueList(memory, held[o])]
<1> SUFFICES ASSUME CopiesTypes PROVE Value = [o \in Holders |-> ValueList(memory, held[o])]
    OBVIOUS
<1>1. ASSUME NEW o \in Holders PROVE Values(held[o]) = ValueList(memory, held[o])
    <2>1. DOMAIN held[o] = 1..Len(held[o])
        BY ListsType
    <2>2. \A i \in 1..Len(held[o]) : ValueOf(held[o][i]) = ValueIn(memory, held[o][i])
        BY ValueIs
    <2> QED BY <2>1, <2>2 DEF Values, ValueList
<1> QED BY <1>1 DEF Value

LEMMA NextValueIsList ==
    CopiesTypes' => Value' = [o \in Holders |-> ValueList(memory', held'[o])]
<1>1. (CopiesTypes => Value = [o \in Holders |-> ValueList(memory, held[o])])'
    BY ValueIsList, PTL
<1> QED BY <1>1
-----------------------------------------------------------------------------
(* Steps.                                                                  *)

\* c is a followed by b, index by index.
Joins(c, a, b, n, m, S) ==
    /\ n \in Nat /\ m \in Nat
    /\ a \in [1..n -> S] /\ b \in [1..m -> S] /\ c \in [1 .. n + m -> S]
    /\ \A i \in 1..n : c[i] = a[i]
    /\ \A i \in 1..m : c[n + i] = b[i]

LEMMA Concatenated ==
    ASSUME NEW S, NEW n, NEW m, NEW a, NEW b, NEW c, Joins(c, a, b, n, m, S)
    PROVE  c = a \o b
<1> USE DEF Joins
<1>1. \A i \in 1 .. n + m : c[i] = IF i <= n THEN a[i] ELSE b[i - n]
    <2> TAKE i \in 1 .. n + m
    <2>1. CASE i <= n
        <3>1. i \in 1..n
            BY <2>1
        <3> QED BY <2>1, <3>1
    <2>2. CASE ~(i <= n)
        <3>1. i - n \in 1..m /\ n + (i - n) = i
            BY <2>2
        <3>2. PICK j \in 1..m : i = n + j /\ j = i - n
            BY <3>1
        <3> QED BY <2>2, <3>2
    <2> QED BY <2>1, <2>2
<1>2. a \in Seq(S) /\ Len(a) = n /\ b \in Seq(S) /\ Len(b) = m
    OBVIOUS
<1>3. c \in Seq(S) /\ Len(c) = n + m
    <2>1. n + m \in Nat
        OBVIOUS
    <2> QED BY <2>1
<1>4. /\ a \o b \in Seq(S) /\ Len(a \o b) = n + m
      /\ \A i \in 1 .. n + m : (a \o b)[i] = IF i <= n THEN a[i] ELSE b[i - n]
    <2>1. /\ a \o b \in Seq(S) /\ Len(a \o b) = Len(a) + Len(b)
          /\ \A i \in 1 .. Len(a) + Len(b) :
                (a \o b)[i] = IF i <= Len(a) THEN a[i] ELSE b[i - Len(a)]
        BY <1>2, ConcatProperties
    <2> QED BY <1>2, <2>1
<1> QED BY <1>1, <1>3, <1>4, SeqEqual

\* Which action of ProjectValues a step is.
LEMMA DeliverPasses ==
    ASSUME CopiesInv, NEW v \in Cached, Deliver(v)
    PROVE  CopiesInv' /\ Passed!Next
<1>1. /\ CopiesInv' /\ held[v] = <<>> /\ Len(held'[v]) = 1
      /\ \A o \in Holders \ {v} : held'[o] = held[o]
      /\ \A ref \in References : ref[1][1] # v => memory'[ref] = memory[ref]
    BY DeliverOwns
<1>2. /\ CopiesTypes /\ OwnMemory /\ CopiesTypes' /\ v \in Holders
    BY <1>1 DEF CopiesInv, Holders
<1>3. /\ Value = [o \in Holders |-> ValueList(memory, held[o])]
      /\ Value' = [o \in Holders |-> ValueList(memory', held'[o])]
    BY <1>2, ValueIsList, NextValueIsList
<1>4. ASSUME NEW o \in Holders \ {v} PROVE Value'[o] = Value[o]
    <2>1. held'[o] = held[o] /\ \A i \in 1..Len(held[o]) :
                ValueIn(memory', held'[o][i]) = ValueIn(memory, held[o][i])
        BY <1>1, <1>2, OthersSpared
    <2> QED BY <1>3, <2>1 DEF ValueList
<1>5. Value[v] = <<>>
    <2>1. Len(held[v]) = 0
        BY <1>1, EmptySeq
    <2> QED BY <1>2, <1>3, <2>1 DEF ValueList
<1>6. Len(Value'[v]) = 1
    BY <1>1, <1>2, <1>3 DEF ValueList
<1> QED BY <1>1, <1>2, <1>4, <1>5, <1>6
        DEF Passed!Next, Passed!OnlyOf, Passed!Deliver, Passed!Holders, Value, Holders

LEMMA DropPasses ==
    ASSUME CopiesInv, NEW o \in Holders, Drop(o)
    PROVE  CopiesInv' /\ Passed!Next
<1>1. /\ CopiesInv' /\ held'[o] = <<>>
      /\ \A h \in Holders \ {o} :
            /\ held'[h] = held[h]
            /\ \A i \in 1..Len(held[h]) :
                ValueIn(memory', held'[h][i]) = ValueIn(memory, held[h][i])
    BY DropOwns
<1>2. CopiesTypes /\ CopiesTypes'
    BY <1>1 DEF CopiesInv
<1>3. /\ Value = [h \in Holders |-> ValueList(memory, held[h])]
      /\ Value' = [h \in Holders |-> ValueList(memory', held'[h])]
    BY <1>2, ValueIsList, NextValueIsList
<1>4. \A h \in Holders \ {o} : Value'[h] = Value[h]
    BY <1>1, <1>3 DEF ValueList
<1>5. Value'[o] = <<>>
    <2>1. Len(held'[o]) = 0
        BY <1>1, EmptySeq
    <2> QED BY <1>3, <2>1 DEF ValueList
<1> QED BY <1>1, <1>4, <1>5
        DEF Passed!Next, Passed!OnlyOf, Passed!Drop, Passed!Holders, Value, Holders

LEMMA CopiesPass ==
    ASSUME CopiesInv, NEW o \in Holders, NEW h \in Users, Copies(o, h)
    PROVE  CopiesInv' /\ Passed!Next
<1>1. /\ CopiesInv'
      /\ Copied(held[o], h, Len(held[h]))
      /\ \A q \in Holders \ {h} :
            /\ held'[q] = held[q]
            /\ \A i \in 1..Len(held[q]) :
                ValueIn(memory', held'[q][i]) = ValueIn(memory, held[q][i])
    BY CopiesKeep
<1>2. CopiesTypes /\ OwnMemory /\ CopiesTypes' /\ h \in Holders
    BY <1>1 DEF CopiesInv, Holders
<1>3. /\ Value = [q \in Holders |-> ValueList(memory, held[q])]
      /\ Value' = [q \in Holders |-> ValueList(memory', held'[q])]
    BY <1>2, ValueIsList, NextValueIsList
<1>4. \A q \in Holders \ {h} : Value'[q] = Value[q]
    BY <1>1, <1>3 DEF ValueList
<1>5. Value'[h] = Value[h] \o Value[o]
    <2> DEFINE n == Len(held[h])
               m == Len(held[o])
               a == Value[h]
               b == Value[o]
               c == Value'[h]
    <2>1. n \in Nat /\ m \in Nat
        BY <1>2, ListsType
    <2>2. Len(held'[h]) = n + m
        BY <1>1 DEF Copied
    <2>3. a = [i \in 1..n |-> ValueIn(memory, held[h][i])]
        BY <1>2, <1>3 DEF ValueList
    <2>4. b = [i \in 1..m |-> ValueIn(memory, held[o][i])]
        BY <1>3 DEF ValueList
    <2>5. c = [i \in 1 .. n + m |-> ValueIn(memory', held'[h][i])]
        BY <1>2, <1>3, <2>2 DEF ValueList
    <2>6. /\ \A i \in 1..n : ValueIn(memory', held'[h][i]) = ValueIn(memory, held[h][i])
          /\ \A i \in 1..m : ValueIn(memory', held'[h][n + i]) = ValueIn(memory, held[o][i])
        BY <1>1, <1>2, CopiesOwn DEF Copies
    <2> HIDE DEF n, m, a, b, c
    <2>7. \A i \in 1..n : c[i] = a[i]
        <3>1. \A i \in 1..n : i \in 1 .. n + m
            BY <2>1
        <3> QED BY <2>3, <2>5, <2>6, <3>1
    <2>8. \A i \in 1..m : c[n + i] = b[i]
        <3>1. \A i \in 1..m : n + i \in 1 .. n + m
            BY <2>1
        <3> QED BY <2>4, <2>5, <2>6, <3>1
    <2> DEFINE S == {a[i] : i \in 1..n} \cup {b[i] : i \in 1..m} \cup {c[i] : i \in 1 .. n + m}
    <2>9. a \in [1..n -> S] /\ b \in [1..m -> S] /\ c \in [1 .. n + m -> S]
        BY <2>3, <2>4, <2>5
    <2> HIDE DEF S
    <2>10. Joins(c, a, b, n, m, S)
        BY <2>1, <2>7, <2>8, <2>9 DEF Joins
    <2>11. c = a \o b
        BY <2>10, Concatenated
    <2> QED BY <2>11 DEF a, b, c
<1> QED BY <1>1, <1>2, <1>4, <1>5
        DEF Passed!Next, Passed!OnlyOf, Passed!Copy, Passed!Holders, Value, Holders

LEMMA EditPasses ==
    ASSUME CopiesInv, NEW u \in Users, NEW i, Edited(u, i)
    PROVE  CopiesInv' /\ Passed!Next
<1>1. /\ CopiesInv'
      /\ \A o \in Holders : Len(held'[o]) = Len(held[o])
      /\ \A o \in Holders : \A j \in 1..Len(held[o]) :
            (<<o, j>> # <<u, i>>) =>
                ValueIn(memory', held'[o][j]) = ValueIn(memory, held[o][j])
    BY EditOwns
<1>2. CopiesTypes /\ CopiesTypes' /\ u \in Holders /\ i \in 1..Len(held[u])
    BY <1>1 DEF CopiesInv, Holders, Edited
<1>3. /\ Value = [o \in Holders |-> ValueList(memory, held[o])]
      /\ Value' = [o \in Holders |-> ValueList(memory', held'[o])]
    BY <1>2, ValueIsList, NextValueIsList
<1>4. \A o \in Holders \ {u} : Value'[o] = Value[o]
    BY <1>1, <1>3 DEF ValueList
<1>5. /\ DOMAIN Value'[u] = 1..Len(held[u]) /\ DOMAIN Value[u] = 1..Len(held[u])
      /\ \A j \in 1..Len(held[u]) \ {i} : Value'[u][j] = Value[u][j]
    BY <1>1, <1>2, <1>3 DEF ValueList
<1>6. Passed!Edit(u)
    BY <1>2, <1>5 DEF Passed!Edit, Value
<1>7. Passed!OnlyOf(u)
    BY <1>4 DEF Passed!OnlyOf, Passed!Holders, Value, Holders
<1> QED BY <1>1, <1>2, <1>6, <1>7 DEF Passed!Next, Passed!Holders, Holders

LEMMA StepPasses ==
    ASSUME CopiesInv, [Next]_vars
    PROVE  CopiesInv' /\ (Passed!Next \/ Value' = Value)
<1>1. ASSUME NEW v \in Cached, Deliver(v) PROVE CopiesInv' /\ Passed!Next
    BY <1>1, DeliverPasses
<1>2. ASSUME NEW o \in Holders, Drop(o) PROVE CopiesInv' /\ Passed!Next
    BY <1>2, DropPasses
<1>3. ASSUME NEW u \in Users, CopyProject(u) PROVE CopiesInv' /\ Passed!Next
    BY <1>3, CopyProjectCopies, CopiesPass
<1>4. ASSUME NEW u \in Users, NEW w \in Users, CopyList(u, w) PROVE CopiesInv' /\ Passed!Next
    BY <1>4, CopyListCopies, CopiesPass
<1>5. ASSUME NEW u \in Users, NEW i, Edited(u, i) PROVE CopiesInv' /\ Passed!Next
    BY <1>5, EditPasses
<1>6. ASSUME NEW u \in Users, Get(u) PROVE CopiesInv' /\ Value' = Value
    <2>1. UNCHANGED <<held, memory, store>> /\ got' = [got EXCEPT ![u] = store]
          /\ store # Nil /\ Len(held[u]) < MaxItems
        BY <1>6 DEF Get
    <2>2. CopiesInv'
        <3>1. CopiesTypes'
            BY <2>1 DEF CopiesInv, CopiesTypes
        <3> QED BY <2>1, <3>1 DEF CopiesInv, OwnMemory
    <2> QED BY <2>1, <2>2 DEF Value, Values, ValueOf, Seen
<1>7. CASE UNCHANGED vars
    <2>1. CopiesInv'
        BY <1>7 DEF vars, CopiesInv, CopiesTypes, OwnMemory
    <2> QED BY <1>7, <2>1 DEF vars, Value, Values, ValueOf, Seen
<1>8. ASSUME NEW u \in Users, NEW i, NEW f \in SpecFields, NEW d \in Data, EditSpec(u, i, f, d)
      PROVE  CopiesInv' /\ Passed!Next
    BY <1>5, <1>8, EditSpecEdits DEF CopiesInv
<1>9. ASSUME NEW u \in Users, NEW i, NEW d \in Data, SetLastObservedAt(u, i, d)
      PROVE  CopiesInv' /\ Passed!Next
    BY <1>5, <1>9, SetLastObservedAtEdits DEF CopiesInv
<1>10. ASSUME NEW u \in Users, NEW i, NEW s \in Statuses, NEW d \in Data, SetCondition(u, i, s, d)
      PROVE  CopiesInv' /\ Passed!Next
    BY <1>5, <1>10, SetConditionEdits DEF CopiesInv
<1> QED BY <1>1, <1>2, <1>3, <1>4, <1>6, <1>7, <1>8, <1>9, <1>10 DEF Next
-----------------------------------------------------------------------------
(* The theorems.                                                           *)

LEMMA InitOwns ==
    ASSUME Init
    PROVE  CopiesInv /\ Passed!Init
<1>1. /\ held = [o \in Holders |-> <<>>]
      /\ memory = [ref \in References |-> Nil]
      /\ store = Nil
      /\ got = [u \in Users |-> Nil]
    BY DEF Init
<1>2. \A o \in Holders : held[o] = <<>> /\ Len(held[o]) = 0
    BY <1>1
<1>3. MemoryType(memory)
    BY <1>1 DEF MemoryType, Cell
<1>4. \A o \in Holders : 0 <= Capacity(o)
    BY CopiesAssumption DEF Capacity
<1>5. held \in [Holders -> Seq(Project)]
    BY <1>1, EmptySeq
<1>6. CopiesTypes
    BY <1>1, <1>2, <1>3, <1>4, <1>5 DEF CopiesTypes
<1>7. OwnMemory
    BY <1>2 DEF OwnMemory
<1>8. Value = [o \in Holders |-> <<>>]
    <2>1. \A o \in Holders : ValueList(memory, held[o]) = <<>>
        BY <1>2 DEF ValueList
    <2> QED BY <1>6, <2>1, ValueIsList
<1> QED BY <1>6, <1>7, <1>8 DEF CopiesInv, Passed!Init, Passed!Holders, Value, Holders

LEMMA CopiesInvariant == Spec => []CopiesInv
<1>1. Init => CopiesInv
    BY InitOwns
<1>2. CopiesInv /\ [Next]_vars => CopiesInv'
    BY StepPasses
<1> QED BY <1>1, <1>2, PTL DEF Spec

(* Projects are passed around as values: copying in depth gives the value  *)
(* of the original, an edit changes one project of one goroutine, and the  *)
(* objects in the store stay what they are (zz_generated.deepcopy.go).     *)
THEOREM CopiesAreValues == Spec => ImplementsValues
<1>1. Init => Passed!Init
    BY InitOwns
<1>2. CopiesInv /\ [Next]_vars => [Passed!Next]_Value
    BY StepPasses
<1>3. Spec => Passed!Init /\ [][Passed!Next]_Value
    BY <1>1, <1>2, CopiesInvariant, PTL DEF Spec
<1> QED BY <1>3, PTL DEF ImplementsValues, Passed!Spec, Value

(* No two projects share memory, whoever copied which from whom            *)
(* (zz_generated.deepcopy.go), so that SetCondition, which writes in place *)
(* (project_types.go:126-146), changes one of them.                        *)
THEOREM NothingShared == Spec => []NoSharing
<1>1. CopiesInv => NoSharing
    <2> SUFFICES ASSUME CopiesInv, NEW o \in Holders, NEW q \in Holders,
                        NEW i \in DOMAIN held[o], NEW j \in DOMAIN held[q],
                        <<o, i>> # <<q, j>>
                 PROVE  Reach(held[o][i]) \cap Reach(held[q][j]) = {}
        BY DEF NoSharing
    <2>1. /\ OwnIn(memory, held[o][i], <<o, i>>) /\ <<o, i>> \in Places
          /\ OwnIn(memory, held[q][j], <<q, j>>) /\ <<q, j>> \in Places
        BY ListsType DEF CopiesInv, OwnMemory
    <2>2. /\ \A ref \in Reach(held[o][i]) : ref[1] = <<o, i>>
          /\ \A ref \in Reach(held[q][j]) : ref[1] = <<q, j>>
        BY <2>1, ReachIs, ReachPlace
    <2> QED BY <2>2
<1> QED BY <1>1, CopiesInvariant, PTL

(* The types, and that what projects refer to is allocated: a copy never   *)
(* has a reference where there is nothing.                                 *)
THEOREM CopiesTypeCorrect == Spec => []TypeOK
<1>1. CopiesInv => TypeOK
    <2> SUFFICES ASSUME CopiesInv PROVE TypeOK
        OBVIOUS
    <2>1. CopiesTypes
        BY DEF CopiesInv
    <2>2. ASSUME NEW o \in Holders, NEW i \in DOMAIN held[o]
          PROVE  held[o][i] \in Project /\ \A ref \in Reach(held[o][i]) : memory[ref] # Nil
        <3>1. OwnIn(memory, held[o][i], <<o, i>>)
            BY <2>1, ListsType DEF CopiesInv, OwnMemory
        <3> QED BY <3>1, ReachIs DEF OwnIn
    <2> QED BY <2>1, <2>2 DEF TypeOK, CopiesTypes, MemoryType, Cell, Capacity
<1> QED BY <1>1, CopiesInvariant, PTL
==============================================================================
