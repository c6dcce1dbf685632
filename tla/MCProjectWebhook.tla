-------------------------- MODULE MCProjectWebhook --------------------------
(* Instances of ProjectWebhook for TLC.                                     *)
EXTENDS ProjectWebhook

\* Bob is a member of the group team.
MCGroupsOf == [u \in Users |-> IF u = "bob" THEN {"team"} ELSE {}]

\* Projects of each of the two persons, of the group, and one whose TTL is
\* no duration.
MCManifests ==
    {[adminUsers |-> {"alice"}, adminGroups |-> {}, ttl |-> "none"],
     [adminUsers |-> {"bob"}, adminGroups |-> {}, ttl |-> "valid"],
     [adminUsers |-> {"alice"}, adminGroups |-> {"team"}, ttl |-> "valid"],
     [adminUsers |-> {"alice", "bob"}, adminGroups |-> {}, ttl |-> "invalid"]}
=============================================================================
