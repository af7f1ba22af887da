--------------------------- MODULE ReconcilePlan ---------------------------
(***************************************************************************)
(* What one Reconcile of a Coroot resource asks of the cluster: the calls  *)
(* of CreateOrUpdate... and Delete in the order the code makes them, as a  *)
(* sequence of operations.  Only what decides WHICH objects are written is *)
(* kept of the resource's spec; everything else is the field settings.     *)
(*                                                                         *)
(* An object is named by its kind, namespace ("" for cluster-scoped kinds) *)
(* and name; a name is the tuple of the parts the code concatenates.       *)
(***************************************************************************)
EXTENDS Integers, Sequences, FiniteSets, SequencesExt

(* The fields of Coroot.spec an operation may depend on.  A count may be   *)
(* zero (not set) and, the CRD states no minimum, negative.  retain names  *)
(* the components whose storage has the reclaim policy Retain, and         *)
(* readsSecret tells whether the spec refers to a Secret of the user.      *)
SpecFields == {
  "settings", "agentsOnly", "replicas", "postgres", "ingress",
  "externalPrometheus", "externalClickhouse", "shards", "clickhouseReplicas", "keepers",
  "class", "prometheusClass", "clickhouseClass", "keeperClass",
  "size", "prometheusSize", "clickhouseSize", "keeperSize",
  "retain", "apiKeySecrets", "readsSecret"}

NoIngress == "no ingress"

IsSpec(spec) ==
  /\ DOMAIN spec = SpecFields /\ spec = [f \in SpecFields |-> spec[f]]
  /\ \A f \in {"agentsOnly", "postgres", "externalPrometheus", "externalClickhouse",
             "readsSecret"} : spec[f] \in BOOLEAN
  /\ \A f \in {"replicas", "shards", "clickhouseReplicas", "keepers"} : spec[f] \in Int
  /\ IsFiniteSet(spec.apiKeySecrets)

(* validateCoroot falls back to one replica without Postgres. *)
InvalidReplicas(spec) == spec.replicas > 1 /\ ~spec.postgres

Validated(spec) ==
  [spec EXCEPT !.replicas = IF InvalidReplicas(spec) THEN 1 ELSE @]

-----------------------------------------------------------------------------
Object(r, kind, name) == [kind |-> kind, namespace |-> r.namespace, name |-> name]

ClusterObject(kind, name) == [kind |-> kind, namespace |-> "", name |-> name]

(* One step of Reconcile.  verb says which call it is:                     *)
(*   "apply"     CreateOrUpdate whose callback sets the content            *)
(*   "ensure"    CreateOrUpdate without a callback, or whose callback only *)
(*               adds what is missing: an existing object keeps its content*)
(*   "delete"    CreateOrUpdate with delete set                            *)
(*   "validate"  the checks of validateCoroot, which read Secrets          *)
(*   "legacy"    the Delete of the Deployment of former versions           *)
(*   "legacyDone" the assignment that records it                           *)
(* reads are the fields of the spec (and the namespace) the object's       *)
(* content is made of; image tells whether it runs an image of the         *)
(* registry; retain whether the owner reference is removed, not set.       *)
Op(verb, object, reads, image, retain) ==
  [verb |-> verb, object |-> object, reads |-> reads, image |-> image, retain |-> retain]

Apply(object, reads)  == Op("apply", object, reads, FALSE, FALSE)
Run(object, reads)    == Op("apply", object, reads, TRUE, FALSE)
Ensure(object)        == Op("ensure", object, {}, FALSE, FALSE)

AccountOfItsRole(r, component, scc) ==   \* mutant: the account is named after the role
  << Ensure(Object(r, "ServiceAccount", <<r.name, scc>>)),
     Ensure(Object(r, "RoleBinding", <<r.name, component, scc>>)) >>

(* CreateOrUpdateServiceAccount: the account and its RoleBinding. *)
ServiceAccount(r, component, scc) ==
  << Ensure(Object(r, "ServiceAccount", <<r.name, component>>)),
     Ensure(Object(r, "RoleBinding", <<r.name, component, scc>>)) >>

(* The volume claims of a component: one for each suffix of its names. *)
Claims(r, spec, component, suffixes, reads) ==
  [i \in 1 .. Len(suffixes) |->
     Op("apply",
        Object(r, "PersistentVolumeClaim", <<"data", r.name, component>> \o suffixes[i]),
        reads, FALSE, component \in spec.retain)]

(* A loop from 0 to n - 1 does nothing for a negative n. *)
Times(n) == IF n < 0 THEN 0 ELSE n

Ordinals(n) == [i \in 1 .. Times(n) |-> <<i - 1>>]

ZeroStaysZero(n) == n   \* mutant: the default of a count is forgotten

OneIfZero(n) == IF n = 0 THEN 1 ELSE n

OneIfUnset(n) == IF n <= 0 THEN 1 ELSE n

If(condition, ops) == IF condition THEN ops ELSE <<>>

-----------------------------------------------------------------------------
ClusterRoleOf(r) == ClusterObject("ClusterRole", <<r.name, "cluster-agent">>)

ClusterRoleBindingOf(r) == ClusterObject("ClusterRoleBinding", <<r.name, "cluster-agent">>)

LegacyDeployment(r) == Object(r, "Deployment", <<r.name, "coroot">>)

(* The roles come first, then validateCoroot: its checks, and the Secrets  *)
(* of the API keys, which survive the resource (retain).                   *)
RolesAndValidation(r, spec) ==
  LET ApiKeySecret(name) ==
        Op("ensure", Object(r, "Secret", <<name>>), {}, FALSE, TRUE)
  IN  << Apply(Object(r, "Role", <<r.name, "nonroot">>), {}),
         Apply(Object(r, "Role", <<r.name, "privileged">>), {}),
         Op("validate", Object(r, "Coroot", <<r.name>>), {}, FALSE, FALSE) >>
      \o LET names == SetToSeq(spec.apiKeySecrets)
         IN  [i \in 1 .. Len(names) |-> ApiKeySecret(names[i])]

NodeAgent(r) ==
  ServiceAccount(r, "node-agent", "privileged")
  \o << Run(Object(r, "DaemonSet", <<r.name, "node-agent">>), {"settings", "agentsOnly"}) >>

AgentBeforeItsRole(r) ==   \* mutant
  ServiceAccount(r, "cluster-agent", "nonroot")
  \o << Run(Object(r, "Deployment", <<r.name, "cluster-agent">>), {"settings", "agentsOnly"}),
        Op("apply", ClusterRoleOf(r), {}, FALSE, TRUE),
        Op("ensure", ClusterRoleBindingOf(r), {"namespace"}, FALSE, TRUE) >>

ClusterAgent(r) ==
  ServiceAccount(r, "cluster-agent", "nonroot")
  \o << Op("apply", ClusterRoleOf(r), {}, FALSE, TRUE),
        Op("ensure", ClusterRoleBindingOf(r), {"namespace"}, FALSE, TRUE),
        Run(Object(r, "Deployment", <<r.name, "cluster-agent">>), {"settings", "agentsOnly"}) >>

(* The Deployment of former versions is deleted once per process. *)
LegacyCleanup(r) ==
  << Op("legacy", LegacyDeployment(r), {}, FALSE, FALSE),
     Op("legacyDone", LegacyDeployment(r), {}, FALSE, FALSE) >>

CorootClaims(r, spec) ==
  Claims(r, spec, "coroot", Ordinals(OneIfZero(spec.replicas)), {"class", "size"})

CorootStatefulSet(r) ==
  Run(Object(r, "StatefulSet", <<r.name, "coroot">>),
      {"settings", "readsSecret", "apiKeySecrets", "replicas", "postgres", "ingress",
       "externalPrometheus", "externalClickhouse"})

CorootIngress(r, spec) ==
  Op(IF spec.ingress = NoIngress THEN "delete" ELSE "apply",
     Object(r, "Ingress", <<r.name>>), {"ingress"}, FALSE, FALSE)

CorootServer(r, spec) ==
  ServiceAccount(r, "coroot", "nonroot")
  \o CorootClaims(r, spec)
  \o << Apply(Object(r, "ConfigMap", <<r.name, "coroot">>),
              {"settings", "readsSecret", "apiKeySecrets"}),
        CorootStatefulSet(r),
        Apply(Object(r, "Service", <<r.name, "coroot">>), {"settings"}) >>
  \o LegacyCleanup(r)
  \o << CorootIngress(r, spec) >>

Prometheus(r, spec) ==
  ServiceAccount(r, "prometheus", "nonroot")
  \o Claims(r, spec, "prometheus", << <<>> >>, {"prometheusClass", "prometheusSize"})
  \o << Run(Object(r, "Deployment", <<r.name, "prometheus">>), {"settings"}),
        Apply(Object(r, "Service", <<r.name, "prometheus">>), {}) >>

Keepers(spec) == IF spec.keepers > 0 THEN spec.keepers ELSE 3

(* The claims of the keeper and of ClickHouse have the size and the policy *)
(* of their own storage, and the class of Coroot's.                        *)
KeeperClaims(r, spec) ==
  Claims(r, spec, "clickhouse-keeper", Ordinals(Keepers(spec)), {"class", "keeperSize"})

ClickhouseKeeper(r, spec) ==
  ServiceAccount(r, "clickhouse-keeper", "nonroot")
  \o << Apply(Object(r, "Service", <<r.name, "clickhouse-keeper-headless">>), {}) >>
  \o KeeperClaims(r, spec)
  \o << Run(Object(r, "StatefulSet", <<r.name, "clickhouse-keeper">>), {"settings", "keepers"}) >>

(* A loop over the replicas in a loop over the shards. *)
ShardSuffixes(shards, replicas) ==
  [k \in 1 .. shards * replicas |-> <<"shard", (k - 1) \div replicas, (k - 1) % replicas>>]

ClickhouseClaims(r, spec) ==
  Claims(r, spec, "clickhouse",
         ShardSuffixes(Times(OneIfZero(spec.shards)), Times(OneIfZero(spec.clickhouseReplicas))),
         {"class", "clickhouseSize"})

ClickhouseStatefulSets(r, spec) ==
  [s \in 1 .. OneIfUnset(spec.shards) |->
     Run(Object(r, "StatefulSet", <<r.name, "clickhouse", "shard", s - 1>>),
         {"settings", "shards", "clickhouseReplicas", "keepers"})]

Clickhouse(r, spec) ==
  ServiceAccount(r, "clickhouse", "nonroot")
  \o << Apply(Object(r, "Service", <<r.name, "clickhouse-headless">>), {}) >>
  \o ClickhouseClaims(r, spec)
  \o ClickhouseStatefulSets(r, spec)
  \o << Apply(Object(r, "Service", <<r.name, "clickhouse">>), {}) >>

PasswordSecret(r) == Object(r, "Secret", <<r.name, "clickhouse">>)

(* Everything Reconcile does for resource r with a validated spec.         *)
Reconcile(r, spec) ==
  RolesAndValidation(r, spec)
  \o NodeAgent(r)
  \o ClusterAgent(r)
  \o If(~spec.agentsOnly,
        CorootServer(r, spec)
        \o If(~spec.externalPrometheus, Prometheus(r, spec))
        \o If(~spec.externalClickhouse,
              << Ensure(PasswordSecret(r)) >>
              \o ClickhouseKeeper(r, spec)
              \o Clickhouse(r, spec)))

(* The kinds whose changes SetupWithManager turns into a Reconcile of the  *)
(* owner: those of its Owns calls.  Role and RoleBinding are not there.    *)
WatchedKinds == {
  "Deployment", "StatefulSet", "DaemonSet", "Service", "ServiceAccount",
  "ClusterRole", "ClusterRoleBinding", "PersistentVolumeClaim", "Secret",
  "Ingress", "ConfigMap"}
=============================================================================
