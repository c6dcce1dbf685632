\* RBAC grants the verb update on the namespace, as an editor's role does.
SPECIFICATION WebhookSpec
CONSTANTS
    Users = {"alice", "bob", "operator"}
    Groups = {"team"}
    GroupsOf <- MCGroupsOf
    ServiceAccounts = {"operator"}
    Operator = "operator"
    Manifests <- MCManifests
    Rules = {{}, {"update"}}
    NoProject = NoProject
    NoRequest = NoRequest
PROPERTY NamespaceRightsSuffice
