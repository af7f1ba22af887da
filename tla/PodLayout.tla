----------------------------- MODULE PodLayout -----------------------------
(***************************************************************************)
(* What the objects of a plan say of one another.  Reconcile writes the    *)
(* volume claims itself and the StatefulSets whose pods mount them by      *)
(* name; the configurations of ClickHouse and its keeper list the hosts of *)
(* pods; pods name the accounts, Secrets, ConfigMaps and Services they     *)
(* use.  Each place computes names and counts on its own.                  *)
(*                                                                         *)
(* The spec of the one resource changes, a field at a time, as users edit  *)
(* it.                                                                     *)
(***************************************************************************)
EXTENDS ReconcilePlan

CONSTANTS
  Resource,        \* the name of the Coroot resource
  Specs            \* the specs users may give it

VARIABLE spec

ASSUME LayoutSpecsAssumption == \A s \in Specs : IsSpec(s)

(* What users give each field. *)
FieldValues == [f \in SpecFields |-> {s[f] : s \in Specs}]

Init == spec \in Specs

Edit(f) == \E v \in FieldValues[f] : spec' = [spec EXCEPT ![f] = v]

Next == \E f \in SpecFields : Edit(f)

LayoutSpec == Init /\ [][Next]_spec

-----------------------------------------------------------------------------
V == Validated(spec)

Plan == Reconcile(Resource, V)

PlanOps == ToSet(Plan)

Written == {op.object : op \in {o \in PlanOps : o.verb \in {"apply", "ensure"}}}

IsClaim(op, component) ==
  op.object.kind = "PersistentVolumeClaim" /\ op.object.name[3] = component

(* The StatefulSets, with the number of replicas their constructors set. *)
Sets(r, s) ==
  {[name |-> <<r.name, "coroot">>, replicas |-> OneIfUnset(s.replicas)]}
  \cup
  (IF s.externalClickhouse THEN {}
   ELSE {[name |-> <<r.name, "clickhouse-keeper">>, replicas |-> Keepers(s)]}
        \cup {[name |-> <<r.name, "clickhouse", "shard", i>>,
               replicas |-> OneIfUnset(s.clickhouseReplicas)] :
                i \in 0 .. OneIfUnset(s.shards) - 1})

(* A pod is named after its set and its ordinal, and the claim of its      *)
(* template "data" after the pod.                                          *)
PodsOf(set) == {Append(set.name, i) : i \in 0 .. set.replicas - 1}

Pods(r, s) == UNION {PodsOf(set) : set \in Sets(r, s)}

ClaimOf(r, pod) == Object(r, "PersistentVolumeClaim", <<"data">> \o pod)

(* clickhouseConfigCmd: the hosts of <remote_servers> and of <zookeeper>.  *)
ClickhouseConfigOf(shards, replicas, keepers, r) ==
  [servers |-> {<<r.name, "clickhouse", "shard", i, j>> :
                  i \in 0 .. shards - 1, j \in 0 .. replicas - 1},
   keepers |-> {<<r.name, "clickhouse-keeper", i>> : i \in 0 .. keepers - 1}]

ClickhouseConfigWithRawKeepers(r, s) ==   \* mutant
  ClickhouseConfigOf(OneIfUnset(s.shards), OneIfUnset(s.clickhouseReplicas), s.keepers, r)

ClickhouseConfig(r, s) ==
  ClickhouseConfigOf(OneIfUnset(s.shards), OneIfUnset(s.clickhouseReplicas), Keepers(s), r)

(* clickhouseKeeperConfigCmd: the hosts of <raft_configuration>. *)
KeeperConfig(r, s) == {<<r.name, "clickhouse-keeper", i>> : i \in 0 .. Keepers(s) - 1}

(* The objects the pods of a workload, or a binding, use by name; with     *)
(* agentsOnly the agents report to the Coroot at its corootURL.            *)
UsedByPods(r, s, component) ==
  LET Secret == Object(r, "Secret", <<r.name, "clickhouse">>)
      Service(name) == Object(r, "Service", <<r.name, name>>)
  IN  CASE component = "coroot" ->
             {Object(r, "ConfigMap", <<r.name, "coroot">>)}
             \cup (IF s.externalPrometheus THEN {} ELSE {Service("prometheus")})
             \cup (IF s.externalClickhouse THEN {} ELSE {Secret, Service("clickhouse")})
        [] component = "prometheus" ->
             {Object(r, "PersistentVolumeClaim", <<"data", r.name, "prometheus">>)}
        [] component = "clickhouse" -> {Secret, Service("clickhouse-headless")}
        [] component = "clickhouse-keeper" -> {Service("clickhouse-keeper-headless")}
        [] component \in {"node-agent", "cluster-agent"} ->
             IF s.agentsOnly THEN {} ELSE {Service("coroot")}

Uses(r, s, op) ==
  LET o == op.object
      Account(component) == Object(r, "ServiceAccount", <<r.name, component>>)
  IN  CASE op.image -> {Account(o.name[2])} \cup UsedByPods(r, s, o.name[2])
        [] o.kind = "RoleBinding" ->
             {Account(o.name[2]), Object(r, "Role", <<r.name, o.name[3]>>)}
        [] o.kind = "ClusterRoleBinding" -> {Account("cluster-agent"), ClusterRoleOf(r)}
        [] OTHER -> {}

(* The storage class a claim asks for. *)
ClassFields == {"class", "prometheusClass", "clickhouseClass", "keeperClass"}

ClassOf(op, s) == s[CHOOSE f \in op.reads : f \in ClassFields]

-----------------------------------------------------------------------------
(* With counts that make sense, the claims Reconcile writes are those the  *)
(* pods mount: not one that StatefulSets have to create by themselves,     *)
(* without the class, size and policy of the spec, and not one too many.   *)
ClaimsAreMounted ==
  LET Counts == {spec.replicas, spec.shards, spec.clickhouseReplicas}
  IN  ~spec.agentsOnly /\ Counts \subseteq Nat =>
        {op.object : op \in {o \in PlanOps :
           \E c \in {"coroot", "clickhouse", "clickhouse-keeper"} : IsClaim(o, c)}}
        = {ClaimOf(Resource, pod) : pod \in Pods(Resource, V)}

(* Whatever the counts, ClickHouse looks for its shards and replicas, and  *)
(* for its keepers, where there are pods, and leaves none out; the keepers *)
(* agree on who they are.                                                  *)
HostsArePods ==
  ~spec.externalClickhouse =>
    LET config == ClickhouseConfig(Resource, V)
    IN  /\ config.servers = {pod \in Pods(Resource, V) : pod[2] = "clickhouse"}
        /\ config.keepers = {pod \in Pods(Resource, V) : pod[2] = "clickhouse-keeper"}
        /\ KeeperConfig(Resource, V) = config.keepers

(* Every object that the pods of a workload or a binding refer to by its   *)
(* name is written by the same Reconcile, in every combination of external *)
(* services and agentsOnly.                                                *)
UsedIsWritten ==
  UNION {Uses(Resource, V, op) : op \in PlanOps} \subseteq Written

(* What the documentation of the storage of ClickHouse and of its keeper   *)
(* says (coroot_types.go): their claims have the class configured there.   *)
StorageIsFollowed ==
  \A op \in PlanOps :
    /\ IsClaim(op, "clickhouse") => ClassOf(op, spec) = spec.clickhouseClass
    /\ IsClaim(op, "clickhouse-keeper") => ClassOf(op, spec) = spec.keeperClass
=============================================================================
