---------------------------- MODULE ProjectWebhook ----------------------------
(***************************************************************************)
(* webhooks/project_webhook.go: the API server asks the webhook before it  *)
(* stores what a user wants with the project.  Several requests may be     *)
(* under way; each is admitted against the project that was stored when    *)
(* its admission began, and a subject access review, itself a call to the  *)
(* API server, may lie between that moment and the decision.               *)
(*                                                                         *)
(* The API server (external) is modelled as far as the webhook relies on   *)
(* it: a request takes effect only on the version of the project it was    *)
(* admitted against, and is otherwise admitted again.                      *)
(***************************************************************************)
CONSTANTS
    Users, Groups,      \* identities that send requests, and their groups
    GroupsOf,           \* user -> its groups
    ServiceAccounts,    \* the users whose name starts with system:serviceaccount:
    Operator,           \* the service account of the operator
    Manifests,          \* what users want the project to be
    Rules,              \* what verbs RBAC may grant on the project's namespace
    NoProject,          \* no project of that name
    NoRequest           \* no request under way

Projects == [adminUsers : SUBSET Users, adminGroups : SUBSET Groups,
             ttl : {"none", "valid", "invalid"}]

ASSUME WebhookAssumption ==
    /\ GroupsOf \in [Users -> SUBSET Groups]
    /\ ServiceAccounts \subseteq Users
    /\ Operator \in ServiceAccounts
    /\ Manifests \subseteq Projects
    /\ NoProject \notin Projects

VARIABLES
    project,    \* the stored project
    rules,      \* user -> verbs RBAC grants on the project's namespace
    request,    \* user -> its request under way
    old,        \* user -> the stored project its request is admitted against
    moved,      \* user -> the stored project was written since
    stage       \* user -> how far its request is

webhookVars == <<project, rules, request, old, moved, stage>>

Operations == {"create", "update", "delete"}

Requests == [operation : Operations, new : Projects \cup {NoProject}]

\* admitted: by the webhook's own rules; granted: by the review.
Stages == {"idle", "admission", "review", "admitted", "granted", "denied", "error"}

Persons == Users \ ServiceAccounts

WebhookTypeOK ==
    /\ project \in Projects \cup {NoProject}
    /\ rules \in [Persons -> Rules]
    /\ request \in [Users -> Requests \cup {NoRequest}]
    /\ old \in [Users -> Projects \cup {NoProject}]
    /\ moved \in [Users -> BOOLEAN]
    /\ stage \in [Users -> Stages]

WebhookInit ==
    /\ project = NoProject
    /\ rules \in [Persons -> Rules]
    /\ request = [u \in Users |-> NoRequest]
    /\ old = [u \in Users |-> NoProject]
    /\ moved = [u \in Users |-> FALSE]
    /\ stage = [u \in Users |-> "idle"]

Exists == project # NoProject

Advance(u, to) ==
    /\ stage' = [stage EXCEPT ![u] = to]
    /\ UNCHANGED <<project, rules, request, old, moved>>
-----------------------------------------------------------------------------
(* Requests reach the API server.                                          *)
Send(u, op, new) ==
    /\ stage[u] = "idle"
    /\ op = "create" <=> ~Exists
    /\ request' = [request EXCEPT ![u] = [operation |-> op, new |-> new]]
    /\ old' = [old EXCEPT ![u] = project]
    /\ moved' = [moved EXCEPT ![u] = FALSE]
    /\ stage' = [stage EXCEPT ![u] = "admission"]
    /\ UNCHANGED <<project, rules>>

\* The operator changes finalizers only, which are not modelled here.
SendAny(u) ==
    IF u = Operator THEN Send(u, "update", project)
    ELSE \/ \E m \in Manifests, op \in {"create", "update"} : Send(u, op, m)
         \/ Send(u, "delete", NoProject)
-----------------------------------------------------------------------------
(* The webhook's handlers.                                                 *)
Asked(u, op) == stage[u] = "admission" /\ request[u].operation = op

\* validate: the value of the TTL annotation, if there is one, is a duration.
Valid(p) == p.ttl # "invalid"

\* The identities that authorize lets pass without a review.
Exempt(u, p) ==
    \/ u \in ServiceAccounts
    \/ u \in p.adminUsers
    \/ GroupsOf[u] \cap p.adminGroups # {}

\* Variant (a bug to be caught): an operation that the switch does not know.
AuthorizeUnknown(u, p) == Advance(u, IF Exempt(u, p) THEN "admitted" ELSE "panic")

Authorize(u, p) == Advance(u, IF Exempt(u, p) THEN "admitted" ELSE "review")

\* Variant: a new project is not validated.
ValidateCreateNothing(u) == Asked(u, "create") /\ Advance(u, "admitted")

ValidateCreate(u) ==
    /\ Asked(u, "create")
    /\ Advance(u, IF Valid(request[u].new) THEN "admitted" ELSE "denied")

\* Variant: the new project decides who may make it.
ValidateUpdateAgainstNew(u) ==
    /\ Asked(u, "update")
    /\ \/ ~Valid(request[u].new) /\ Advance(u, "denied")
       \/ Valid(request[u].new) /\ Authorize(u, request[u].new)

\* Variant: only the user is looked at, not the new project.
ValidateUpdateOfUser(u) == Asked(u, "update") /\ Authorize(u, old[u])

ValidateUpdate(u) ==
    /\ Asked(u, "update")
    /\ \/ ~Valid(request[u].new) /\ Advance(u, "denied")
       \/ Valid(request[u].new) /\ Authorize(u, old[u])

ValidateDelete(u) == Asked(u, "delete") /\ Authorize(u, old[u])

\* The verbs of the subject access review.
ReviewVerb == [update |-> "PUT", delete |-> "DELETE"]

\* RBAC, as of the moment of the review.
Granted(u, verb) == verb \in rules[u] \/ "*" \in rules[u]

Review(u) ==
    /\ stage[u] = "review"
    /\ Advance(u, IF Granted(u, ReviewVerb[request[u].operation])
                  THEN "granted" ELSE "denied")

\* The review, or the webhook itself, cannot be reached: failurePolicy is Fail.
CallFails(u) == stage[u] \in {"admission", "review"} /\ Advance(u, "error")
-----------------------------------------------------------------------------
(* The API server gets the webhook's answer.                               *)
Done(u) ==
    /\ request' = [request EXCEPT ![u] = NoRequest]
    /\ old' = [old EXCEPT ![u] = NoProject]
    /\ stage' = [stage EXCEPT ![u] = "idle"]
    /\ UNCHANGED rules

Allowed(u) == stage[u] \in {"admitted", "granted"}

Persist(u) ==
    /\ Allowed(u)
    /\ ~moved[u]
    /\ project' = request[u].new
    /\ moved' = [v \in Users |-> v # u /\ stage[v] # "idle"]
    /\ Done(u)

\* The project was written in the meantime.  A request without a resource
\* version is admitted again, against the project there is by now.
AdmitAgain(u) ==
    /\ Allowed(u)
    /\ moved[u]
    /\ u # Operator
    /\ request[u].operation # "create"
    /\ Exists
    /\ old' = [old EXCEPT ![u] = project]
    /\ moved' = [moved EXCEPT ![u] = FALSE]
    /\ stage' = [stage EXCEPT ![u] = "admission"]
    /\ UNCHANGED <<project, rules, request>>

Refuse(u) ==
    /\ stage[u] \in {"denied", "error"} \/ (Allowed(u) /\ moved[u])
    /\ moved' = [moved EXCEPT ![u] = FALSE]
    /\ Done(u)
    /\ UNCHANGED project

\* Somebody changes role bindings.
ChangeRules(u) ==
    /\ u \in Persons
    /\ \E verbs \in Rules : rules' = [rules EXCEPT ![u] = verbs]
    /\ UNCHANGED <<project, request, old, moved, stage>>

Handle(u) ==
    ValidateCreate(u) \/ ValidateUpdate(u) \/ ValidateDelete(u) \/ Review(u)

Answer(u) == Persist(u) \/ AdmitAgain(u) \/ Refuse(u)

WebhookNext ==
    \E u \in Users :
        SendAny(u) \/ Handle(u) \/ CallFails(u) \/ Answer(u) \/ ChangeRules(u)

WebhookSpec == WebhookInit /\ [][WebhookNext]_webhookVars
-----------------------------------------------------------------------------
(***************************************************************************)
(* Properties.                                                             *)
(***************************************************************************)

\* A stored TTL annotation can be parsed: the reconciler counts on it
\* (project_controller.go, line 102), and so does every later update of the
\* project, which validates the annotation again (line 80).
TTLParseable == Exists => Valid(project)

\* The webhook never denies the operator the updates of the finalizers, by
\* which it guards a project and lets it go (lines 79-87 and 113-116).
OperatorNotDenied == stage[Operator] # "denied"

\* Only who is an admin of the project as it is stored, a service account, or
\* was granted it by a review changes or deletes a project: nobody becomes an
\* admin by the very update that lists them, nor remains one through a request
\* that was admitted before somebody else's update (line 70).
OnlyEntitledChange ==
    [][\A u \in Users :
        Exists /\ stage[u] = "admitted" /\ stage'[u] = "idle" /\ project' # project
            => Exempt(u, project)]_webhookVars

\* Who may update or delete the namespace of the project is not denied to do
\* the same to the project (README.md, line 66; lines 102-142).
NamespaceRightsSuffice ==
    [][\A u \in Persons :
        stage[u] = "review" /\ request[u].operation \in rules[u]
            => stage'[u] # "denied"]_webhookVars
=============================================================================
