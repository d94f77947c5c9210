---------------------------- MODULE MCTaskPools ----------------------------
(***************************************************************************)
(* The catalog of one cluster-wide and three namespaced resources, one of  *)
(* them a subresource and one the Secrets, with two workers; and two jobs  *)
(* of the runner.                                                          *)
(***************************************************************************)
EXTENDS TaskPools

Res(group, base, sub, namespaced, verbs) ==
    [group |-> group, base |-> base, sub |-> sub, namespaced |-> namespaced, verbs |-> verbs]

Core == {Res("", "nodes", "", FALSE, {"get"}), Res("", "pods", "", TRUE, {"get"}),
         Res("", "secrets", "", TRUE, {"get"})}
Apps == {Res("apps", "deployments", "scale", TRUE, {"get"})}

MCAPIResource == Core \cup Apps
MCVersions == {Core, Apps}

Pattern(base, sub) == [base |-> base, sub |-> sub]
Bind(verbs, groups, patterns, names, bound) ==
    [verbs |-> verbs, groups |-> groups, resources |-> patterns, names |-> names, bound |-> bound]

MCRule ==
    {Bind({"*"}, {"*"}, {Pattern("*", "")}, {}, "namespace"),
     Bind({"get"}, {""}, {Pattern("nodes", "")}, {}, "cluster"),
     Bind({"get"}, {"", "apps"}, {Pattern("*", "scale"), Pattern("pods", "")}, {}, "cluster"),
     Bind({"*"}, {""}, {Pattern("pods", "")}, {"db"}, "namespace")}
=============================================================================
