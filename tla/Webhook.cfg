\* Two persons and the operator, one request of each at a time; RBAC grants
\* all verbs or none, as PUT and DELETE are no verbs that a role names.
SPECIFICATION WebhookSpec
CONSTANTS
    Users = {"alice", "bob", "operator"}
    Groups = {"team"}
    GroupsOf <- MCGroupsOf
    ServiceAccounts = {"operator"}
    Operator = "operator"
    Manifests <- MCManifests
    Rules = {{}, {"*"}}
    NoProject = NoProject
    NoRequest = NoRequest
INVARIANTS
    WebhookTypeOK
    TTLParseable
    OperatorNotDenied
PROPERTY
    OnlyEntitledChange
