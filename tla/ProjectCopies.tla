---------------------------- MODULE ProjectCopies ----------------------------
(***************************************************************************)
(* api/v1alpha1/zz_generated.deepcopy.go: deep copies of projects, down to *)
(* the memory their fields refer to, and their use by the goroutines that  *)
(* share the store of an informer ("All objects returned here must be      *)
(* treated as read-only", the generated lister): they edit copies.         *)
(*                                                                         *)
(* A project is a struct with references; strings and numbers in it are    *)
(* copied by assignment and left out.  A reference is named after the      *)
(* place it was allocated for: the project of a holder, and the field.     *)
(* Slices made by copying are full, so append allocates.  There is one     *)
(* type of condition (project_types.go:62-64).                             *)
(***************************************************************************)
EXTENDS Naturals, Sequences, Functions

CONSTANTS
    Cached,         \* the objects an informer puts into its store
    Users,          \* goroutines that use projects
    SpecFields,     \* AdminUsers, ..., Labels, Annotations: slices and maps
    Data,           \* their contents, and times
    Present,        \* sets of fields that projects from the API server have
    Nil,
    MaxItems,       \* bound on the length of lists
    MaxEdits        \* bound on edits

ASSUME CopiesAssumption ==
    /\ Cached \cap Users = {}
    /\ {"lastObservedAt", "conditions", "lastTransitionTime"} \cap SpecFields = {}
    /\ Nil \notin Data
    /\ Present \subseteq SUBSET (SpecFields \cup {"lastObservedAt", "conditions"})
    /\ MaxItems \in Nat \ {0} /\ MaxEdits \in Nat

VARIABLES
    held,       \* holder -> its list of projects
    memory,     \* reference -> what is there
    store,      \* the object in the informer's store
    got,        \* user -> the object it got from the store
    edits       \* counts the edits

vars == <<held, memory, store, got, edits>>

Holders == Cached \cup Users
Places == Holders \X (1..MaxItems)
Fields == SpecFields \cup {"lastObservedAt", "conditions"}
References == Places \X (Fields \cup {"lastTransitionTime"})
Statuses == {"True", "False"}

Condition == [status : Statuses, lastTransitionTime : References \cup {Nil}]
ConditionLists == {<<>>} \cup {<<c>> : c \in Condition}
Project == [Fields -> References \cup {Nil}]

ASSUME NilAssumption == Nil \notin Cached \cup References \cup ConditionLists

\* What a reader of a project sees.
Seen(ref) == IF ref = Nil THEN Nil ELSE memory[ref]

ValueOf(p) ==
    [f \in Fields |->
        IF f = "conditions" /\ p[f] # Nil
        THEN [i \in DOMAIN memory[p[f]] |->
                [status |-> memory[p[f]][i].status,
                 lastTransitionTime |-> Seen(memory[p[f]][i].lastTransitionTime)]]
        ELSE Seen(p[f])]

Values(list) == [i \in DOMAIN list |-> ValueOf(list[i])]
-----------------------------------------------------------------------------
(* The copies, the cells they allocate and what is put there.              *)

\* The functions f and g in one, which have no argument in common.
Joined(f, g) == [x \in DOMAIN f \cup DOMAIN g |-> IF x \in DOMAIN f THEN f[x] ELSE g[x]]

\* "if in.X != nil"
NewUnlessNil(ref, new) == IF ref = Nil THEN Nil ELSE new

\* Variant: slices are made and their items not copied.
CellsMade(p, fields, at) ==
    [ref \in {<<at, f>> : f \in {g \in fields : p[g] # Nil}} |-> Nil]

\* The cells of place at for the fields that are not nil.
Cells(p, fields, at) ==
    [ref \in {<<at, f>> : f \in {g \in fields : p[g] # Nil}} |-> memory[p[ref[2]]]]

\* Variant: the code was not generated again for a new field.
SpecAssigned(p, at) == [f \in SpecFields |-> p[f]]

SpecCopy(p, at) == [f \in SpecFields |-> NewUnlessNil(p[f], <<at, f>>)]

\* Variant: the time is copied as a pointer.
ConditionAssigned(cond, at) == cond

ConditionCopy(cond, at) ==
    [cond EXCEPT !.lastTransitionTime = NewUnlessNil(@, <<at, "lastTransitionTime">>)]

ConditionCells(cond, at) ==
    IF cond.lastTransitionTime = Nil THEN <<>>
    ELSE [ref \in {<<at, "lastTransitionTime">>} |-> memory[cond.lastTransitionTime]]

ConditionsCells(p, at) ==
    IF p["conditions"] = Nil THEN <<>>
    ELSE LET in == memory[p["conditions"]]
         IN  Joined([ref \in {<<at, "conditions">>} |->
                        [i \in DOMAIN in |-> ConditionCopy(in[i], at)]],
                    IF in = <<>> THEN <<>> ELSE ConditionCells(in[1], at))

StatusCopy(p, at) ==
    [f \in {"lastObservedAt", "conditions"} |-> NewUnlessNil(p[f], <<at, f>>)]

ProjectCopy(p, at) == Joined(SpecCopy(p, at), StatusCopy(p, at))

ProjectCells(p, at) ==
    Joined(Cells(p, SpecFields \cup {"lastObservedAt"}, at), ConditionsCells(p, at))

ListCopy(list, holder, last) ==
    [i \in DOMAIN list |-> ProjectCopy(list[i], <<holder, last + i>>)]

\* holder has deep copies of a list of projects behind those it has.
DeepCopy(list, holder) ==
    LET last == Len(held[holder])
        cells == [i \in DOMAIN list |-> ProjectCells(list[i], <<holder, last + i>>)]
        new == UNION {DOMAIN cells[i] : i \in DOMAIN list}
    IN  /\ held' = [held EXCEPT ![holder] = @ \o ListCopy(list, holder, last)]
        /\ memory' = [ref \in References |->
                IF ref \in new THEN cells[ref[1][2] - last][ref] ELSE memory[ref]]

\* What a project refers to.
Reach(p) ==
    ({p[f] : f \in Fields}
     \cup IF p["conditions"] = Nil THEN {}
          ELSE {c.lastTransitionTime : c \in Range(memory[p["conditions"]])}) \ {Nil}
-----------------------------------------------------------------------------
Init ==
    /\ held = [o \in Holders |-> <<>>]
    /\ memory = [ref \in References |-> Nil]
    /\ store = Nil
    /\ got = [u \in Users |-> Nil]
    /\ edits = 0

\* The informer decodes a project into new memory and replaces the stored one.
\* Fields that are present have the same data, a condition is False.
Deliver(v) ==
    /\ held[v] = <<>>
    /\ \E present \in Present, d \in Data :
        LET at == <<v, 1>>
            time == <<at, "lastTransitionTime">>
            allocated == present \cup IF "conditions" \in present THEN {"lastTransitionTime"} ELSE {}
        IN  /\ held' = [held EXCEPT ![v] =
                    <<[f \in Fields |-> IF f \in present THEN <<at, f>> ELSE Nil]>>]
            /\ memory' = [ref \in References |->
                    IF ref[1] # at THEN memory[ref]
                    ELSE IF ref[2] \notin allocated THEN Nil
                    ELSE IF ref[2] # "conditions" THEN d
                    ELSE <<[status |-> "False", lastTransitionTime |-> time]>>]
    /\ store' = v
    /\ UNCHANGED <<got, edits>>

Get(u) ==
    /\ store # Nil
    /\ Len(held[u]) < MaxItems
    /\ got' = [got EXCEPT ![u] = store]
    /\ UNCHANGED <<held, memory, store, edits>>

CopyProject(u) ==
    /\ got[u] # Nil
    /\ DeepCopy(held[got[u]], u)
    /\ got' = [got EXCEPT ![u] = Nil]
    /\ UNCHANGED <<store, edits>>

\* Another goroutine gets a copy of a list.
CopyList(u, w) ==
    /\ held[u] # <<>>
    /\ held[w] = <<>>
    /\ got[w] = Nil
    /\ DeepCopy(held[u], w)
    /\ UNCHANGED <<store, got, edits>>

\* Memory nobody refers to is used again.
Drop(o) ==
    /\ held[o] # <<>>
    /\ o # store
    /\ \A u \in Users : got[u] # o
    /\ held' = [held EXCEPT ![o] = <<>>]
    /\ LET kept == UNION {UNION {Reach(held[h][i]) : i \in DOMAIN held[h]} : h \in Holders \ {o}}
       IN  memory' = [ref \in References |-> IF ref \in kept THEN memory[ref] ELSE Nil]
    /\ UNCHANGED <<store, got, edits>>
-----------------------------------------------------------------------------
(* Users edit what they have copied.                                       *)
Editing(u, i) ==
    /\ i \in DOMAIN held[u]
    /\ edits < MaxEdits
    /\ edits' = edits + 1
    /\ UNCHANGED <<store, got>>

\* An item of a slice, a key of a map.
EditSpec(u, i, f, d) ==
    /\ Editing(u, i)
    /\ held[u][i][f] # Nil
    /\ memory' = [memory EXCEPT ![held[u][i][f]] = d]
    /\ UNCHANGED held

\* "LastObservedAt = &now"
SetLastObservedAt(u, i, now) ==
    LET ref == <<<<u, i>>, "lastObservedAt">>
    IN  /\ Editing(u, i)
        /\ held' = [held EXCEPT ![u][i]["lastObservedAt"] = ref]
        /\ memory' = [memory EXCEPT ![ref] = now]

\* The condition is changed in place, or appended where there is none, which
\* allocates.
SetCondition(u, i, status, now) ==
    LET time == <<<<u, i>>, "lastTransitionTime">>
        ref == held[u][i]["conditions"]
        none == ref = Nil \/ Seen(ref) = <<>>
        slice == IF none THEN <<<<u, i>>, "conditions">> ELSE ref
        transition == [status |-> status, lastTransitionTime |-> time]
    IN  /\ Editing(u, i)
        /\ held' = [held EXCEPT ![u][i]["conditions"] = slice]
        /\ memory' = IF ~none /\ memory[ref][1].status = status THEN memory
                     ELSE [memory EXCEPT ![slice] = <<transition>>, ![time] = now]

Next ==
    \/ \E v \in Cached : Deliver(v)
    \/ \E u \in Users : Get(u) \/ CopyProject(u) \/ \E w \in Users : CopyList(u, w)
    \/ \E o \in Holders : Drop(o)
    \/ \E u \in Users, i \in 1..MaxItems, d \in Data :
        \/ \E f \in SpecFields : EditSpec(u, i, f, d)
        \/ SetLastObservedAt(u, i, d)
        \/ \E status \in Statuses : SetCondition(u, i, status, d)

Spec == Init /\ [][Next]_vars
-----------------------------------------------------------------------------
(* Properties.                                                             *)

\* The type invariant; what projects refer to is allocated, and a user has a
\* list of projects only when it has copied them.
TypeOK ==
    /\ \A o \in Holders : \A i \in DOMAIN held[o] :
        held[o][i] \in Project /\ \A ref \in Reach(held[o][i]) : memory[ref] # Nil
    /\ \A o \in Holders : Len(held[o]) <= (IF o \in Cached THEN 1 ELSE MaxItems)
    /\ \A ref \in References :
        memory[ref] \in {Nil} \cup (IF ref[2] = "conditions" THEN ConditionLists ELSE Data)
    /\ store \in Cached \cup {Nil}
    /\ got \in [Users -> Cached \cup {Nil}]

\* No two projects refer to the same memory, whoever copied which from whom
\* (zz_generated.deepcopy.go): in particular SetCondition, which changes the
\* slice of conditions in place (project_types.go:126-146), changes one project.
NoSharing ==
    \A o, q \in Holders : \A i \in DOMAIN held[o], j \in DOMAIN held[q] :
        <<o, i>> # <<q, j>> => Reach(held[o][i]) \cap Reach(held[q][j]) = {}

\* Projects are passed around as values: a copy equals its original, nil and
\* empty told apart, and only its owner changes it; what is in the store stays
\* as the informer delivered it.
Passed ==
    INSTANCE ProjectValues WITH value <- [o \in Holders |-> Values(held[o])]
ImplementsValues == Passed!Spec
==============================================================================
