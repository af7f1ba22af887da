---------------------------- MODULE MCReconciler ----------------------------
(***************************************************************************)
(* CorootReconciler on small clusters: specs that differ in what a run is  *)
(* about, and the objects it is about.                                     *)
(***************************************************************************)
EXTENDS CorootReconciler

CONSTANTS
  Kept,            \* the kinds and components of the objects to keep
  MaxIncarnations, MaxEdits, MaxFailures, MaxRestarts, MaxSecrets, MaxRemovals,
  MaxReleases

MCLimit == [incarnations |-> MaxIncarnations, edits |-> MaxEdits,
            failures |-> MaxFailures, restarts |-> MaxRestarts,
            secrets |-> MaxSecrets, removals |-> MaxRemovals,
            releases |-> MaxReleases]

MCTracked(o) == <<o.kind, o.name>> \in Kept

OneCoroot == {[namespace |-> "n", name |-> "a"]}

(* A plain installation, without the databases. *)
Plain ==
  [settings |-> "old", agentsOnly |-> FALSE, replicas |-> 0, postgres |-> FALSE,
   ingress |-> NoIngress, externalPrometheus |-> TRUE, externalClickhouse |-> TRUE,
   shards |-> 0, clickhouseReplicas |-> 0, keepers |-> 0,
   class |-> "standard", prometheusClass |-> "standard", clickhouseClass |-> "standard",
   keeperClass |-> "standard", size |-> 0, prometheusSize |-> 0, clickhouseSize |-> 0,
   keeperSize |-> 0, retain |-> {}, apiKeySecrets |-> {}, readsSecret |-> FALSE]

Changed == [Plain EXCEPT !.settings = "new"]

(* An edit that changes the content of a workload. *)
ChangingSpecs == {Plain, Changed}
KeptWorkload == {<<"DaemonSet", <<"a", "node-agent">>>>}

(* Edits that add or remove the Ingress and turn the policy of Coroot's    *)
(* claim, where the Deployment of a former version may exist.              *)
Retained == [Plain EXCEPT !.retain = {"coroot"}, !.ingress = "coroot.example.com"]
EditedSpecs == {Plain, Retained}
KeptClaim == {<<"PersistentVolumeClaim", <<"data", "a", "coroot", 0>>>>}
KeptEdited == KeptClaim \cup {<<"Ingress", <<"a">>>>, <<"Deployment", <<"a", "coroot">>>>}

(* Specs that are wrong by themselves, that depend on a Secret of the      *)
(* user, and that only run the agents.                                     *)
Scaled == [Plain EXCEPT !.replicas = 2]
WithSecret == [Plain EXCEPT !.readsSecret = TRUE]
AgentsAlone == [Plain EXCEPT !.agentsOnly = TRUE]
ValidationSpecs == {Plain, Scaled, WithSecret, AgentsAlone}
KeptServer == {<<"StatefulSet", <<"a", "coroot">>>>}

(* Two resources of one name in two namespaces, which share the            *)
(* cluster-wide objects of the cluster agent.                              *)
TwoCoroots == {[namespace |-> n, name |-> "a"] : n \in {"n", "m"}}
PlainOnly == {Plain}
KeptClusterRole == {<<"ClusterRole", <<"a", "cluster-agent">>>>}
KeptClusterAgent == KeptClusterRole \cup
  {<<"ClusterRoleBinding", <<"a", "cluster-agent">>>>, <<"Deployment", <<"a", "cluster-agent">>>>}
KeptConvergence == KeptWorkload \cup {<<"Role", <<"a", "privileged">>>>}

(* Two replicas with a second claim, and their retirement. *)
Replicated == [Plain EXCEPT !.replicas = 2, !.postgres = TRUE]
RetiringSpecs == {Replicated, Retained}
KeptClaims == {<<"PersistentVolumeClaim", <<"data", "a", "coroot", i>>>> : i \in {0, 1}}
=============================================================================
