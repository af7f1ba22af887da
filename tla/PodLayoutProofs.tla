--------------------------- MODULE PodLayoutProofs ---------------------------
(***************************************************************************)
(* The names and the counts that the objects of a plan share, for every    *)
(* resource and whatever its users make of its spec.                       *)
(***************************************************************************)
EXTENDS PodLayout, ReconcilePlanProofs, SequenceTheorems

-----------------------------------------------------------------------------
(* However its fields are edited, one at a time, the spec is a spec.       *)
LEMMA SpecsStaySpecs == LayoutSpec => []IsSpec(spec)
<1>1. Init => IsSpec(spec)
  BY LayoutSpecsAssumption DEF Init
<1>2. IsSpec(spec) /\ [Next]_spec => IsSpec(spec)'
  <2> SUFFICES ASSUME IsSpec(spec), Next PROVE IsSpec(spec')
    OBVIOUS
  <2>1. PICK f \in SpecFields : Edit(f)
    BY DEF Next
  <2>2. PICK s \in Specs : spec' = [spec EXCEPT ![f] = s[f]]
    BY <2>1 DEF Edit, FieldValues
  <2>3. IsSpec(s)
    BY LayoutSpecsAssumption
  <2>4. /\ DOMAIN spec' = SpecFields /\ spec' = [g \in SpecFields |-> spec'[g]]
        /\ \A g \in SpecFields : spec'[g] = IF g = f THEN s[f] ELSE spec[g]
    BY <2>2 DEF IsSpec
  <2> QED BY <2>3, <2>4 DEF IsSpec, SpecFields
<1> QED BY <1>1, <1>2, PTL DEF LayoutSpec

(* What is validated is a spec too, and its plan the union of the          *)
(* operations of its components.                                           *)
LEMMA PlanOfSpec ==
  ASSUME IsSpec(spec)
  PROVE  IsSpec(V) /\ PlanOps = PlannedOps(Resource, V)
BY ValidatedIsSpec, PlanElements DEF V, Plan, PlanOps

-----------------------------------------------------------------------------
(* The pods, by their names.                                               *)
CorootPods(r, s) == {<<r.name, "coroot", i>> : i \in 0 .. OneIfUnset(s.replicas) - 1}

KeeperPods(r, s) == {<<r.name, "clickhouse-keeper", i>> : i \in 0 .. Keepers(s) - 1}

ClickhousePods(r, s) ==
  {<<r.name, "clickhouse", "shard", i, j>> :
     i \in 0 .. OneIfUnset(s.shards) - 1, j \in 0 .. OneIfUnset(s.clickhouseReplicas) - 1}

LEMMA Appended ==
  ASSUME NEW S, NEW s \in Seq(S), NEW k \in S, NEW t \in Seq(S), Len(t) = Len(s) + 1,
         \A n \in 1 .. Len(s) : t[n] = s[n], t[Len(s) + 1] = k
  PROVE  Append(s, k) = t
<1> DEFINE u == Append(s, k)
<1>1. /\ u \in Seq(S) /\ Len(u) = Len(s) + 1
      /\ \A n \in 1 .. Len(s) : u[n] = s[n]
      /\ u[Len(s) + 1] = k
  BY AppendProperties
<1> HIDE DEF u
<1>2. Len(s) \in Nat
  OBVIOUS
<1>3. \A n \in 1 .. Len(u) : n \in 1 .. Len(s) \/ n = Len(s) + 1
  BY <1>1, <1>2
<1>4. \A n \in 1 .. Len(u) : u[n] = t[n]
  BY <1>1, <1>3
<1>5. u = t
  BY <1>1, <1>4, SeqEqual
<1> QED BY <1>5 DEF u

LEMMA PodNames ==
  ASSUME NEW name, NEW component, NEW i, NEW k
  PROVE  /\ Append(<<name, component>>, k) = <<name, component, k>>
         /\ Append(<<name, component, "shard", i>>, k) = <<name, component, "shard", i, k>>
<1> DEFINE S == {name, component, "shard", i, k}
           short == <<name, component>>
           pod == <<name, component, k>>
           long == <<name, component, "shard", i>>
           shardPod == <<name, component, "shard", i, k>>
<1>1. /\ short \in Seq(S) /\ pod \in Seq(S) /\ Len(short) = 2 /\ Len(pod) = 3
      /\ \A n \in 1 .. 2 : pod[n] = short[n]
      /\ pod[2 + 1] = k
  OBVIOUS
<1>2. /\ long \in Seq(S) /\ shardPod \in Seq(S) /\ Len(long) = 4 /\ Len(shardPod) = 5
      /\ \A n \in 1 .. 4 : shardPod[n] = long[n]
      /\ shardPod[4 + 1] = k
  OBVIOUS
<1>3. k \in S
  OBVIOUS
<1> HIDE DEF S, short, pod, long, shardPod
<1>4. Append(short, k) = pod
  <2>1. /\ Len(pod) = Len(short) + 1 /\ pod[Len(short) + 1] = k
        /\ \A n \in 1 .. Len(short) : pod[n] = short[n]
    BY <1>1
  <2> QED BY <1>1, <1>3, <2>1, Appended
<1>5. Append(long, k) = shardPod
  <2>1. /\ Len(shardPod) = Len(long) + 1 /\ shardPod[Len(long) + 1] = k
        /\ \A n \in 1 .. Len(long) : shardPod[n] = long[n]
    BY <1>2
  <2> QED BY <1>2, <1>3, <2>1, Appended
<1> QED BY <1>4, <1>5 DEF short, pod, long, shardPod

LEMMA PodsByName ==
  ASSUME NEW r, NEW s
  PROVE  Pods(r, s) = CorootPods(r, s)
           \cup (IF s.externalClickhouse THEN {} ELSE KeeperPods(r, s) \cup ClickhousePods(r, s))
<1> DEFINE shards == 0 .. OneIfUnset(s.shards) - 1
           replicas == 0 .. OneIfUnset(s.clickhouseReplicas) - 1
           server == [name |-> <<r.name, "coroot">>, replicas |-> OneIfUnset(s.replicas)]
           keeper == [name |-> <<r.name, "clickhouse-keeper">>, replicas |-> Keepers(s)]
           shard(i) == [name |-> <<r.name, "clickhouse", "shard", i>>,
                        replicas |-> OneIfUnset(s.clickhouseReplicas)]
<1>1. PodsOf(server) = CorootPods(r, s)
  BY PodNames DEF PodsOf, CorootPods
<1>2. PodsOf(keeper) = KeeperPods(r, s)
  BY PodNames DEF PodsOf, KeeperPods
<1>3. \A i : PodsOf(shard(i)) = {<<r.name, "clickhouse", "shard", i, j>> : j \in replicas}
  BY PodNames DEF PodsOf
<1>4. Sets(r, s) = {server} \cup (IF s.externalClickhouse THEN {}
                                  ELSE {keeper} \cup {shard(i) : i \in shards})
  BY DEF Sets
<1>5. ClickhousePods(r, s) =
        {<<r.name, "clickhouse", "shard", i, j>> : i \in shards, j \in replicas}
  BY DEF ClickhousePods
<1> HIDE DEF shards, replicas, server, keeper, shard
<1>6. UNION {PodsOf(shard(i)) : i \in shards} = ClickhousePods(r, s)
  BY <1>3, <1>5
<1> QED BY <1>1, <1>2, <1>4, <1>6 DEF Pods

-----------------------------------------------------------------------------
(* A concatenation, by its elements.                                       *)
LEMMA Concatenated ==
  ASSUME NEW S, NEW s \in Seq(S), NEW t \in Seq(S), NEW u \in Seq(S),
         Len(u) = Len(s) + Len(t),
         \A n \in 1 .. Len(s) : u[n] = s[n],
         \A n \in 1 .. Len(t) : u[Len(s) + n] = t[n]
  PROVE  s \o t = u
<1> DEFINE c == s \o t
<1>1. /\ c \in Seq(S) /\ Len(c) = Len(s) + Len(t)
      /\ \A n \in 1 .. Len(s) + Len(t) :
           c[n] = IF n <= Len(s) THEN s[n] ELSE t[n - Len(s)]
  BY ConcatProperties
<1> HIDE DEF c
<1>2. Len(s) \in Nat /\ Len(t) \in Nat
  OBVIOUS
<1>3. ASSUME NEW n \in 1 .. Len(c) PROVE c[n] = u[n]
  <2>1. CASE n <= Len(s)
    BY <1>1, <1>2, <2>1
  <2>2. CASE ~(n <= Len(s))
    <3>1. n - Len(s) \in 1 .. Len(t) /\ Len(s) + (n - Len(s)) = n
      BY <1>1, <1>2, <2>2
    <3>2. u[Len(s) + (n - Len(s))] = t[n - Len(s)]
      BY <3>1
    <3> QED BY <1>1, <2>2, <3>1, <3>2
  <2> QED BY <2>1, <2>2
<1>4. c = u
  BY <1>1, <1>3, SeqEqual
<1> QED BY <1>4 DEF c


(* The names of claims, written out: of the plan, and of the pods.         *)
LEMMA OrdinalSuffix ==
  ASSUME NEW name, NEW component, NEW i
  PROVE  <<"data", name, component>> \o <<i>> = <<"data", name, component, i>>
<1> DEFINE S == {"data", name, component, i}
           s == <<"data", name, component>>
           t == <<i>>
           u == <<"data", name, component, i>>
<1>1. /\ s \in Seq(S) /\ t \in Seq(S) /\ u \in Seq(S)
      /\ Len(s) = 3 /\ Len(t) = 1 /\ Len(u) = 4
      /\ \A n \in 1 .. 3 : u[n] = s[n]
      /\ \A n \in 1 .. 1 : u[3 + n] = t[n]
  OBVIOUS
<1> HIDE DEF S, s, t, u
<1>2. /\ Len(u) = Len(s) + Len(t)
      /\ \A n \in 1 .. Len(s) : u[n] = s[n]
      /\ \A n \in 1 .. Len(t) : u[Len(s) + n] = t[n]
  BY <1>1
<1>3. s \o t = u
  BY <1>1, <1>2, Concatenated
<1> QED BY <1>3 DEF s, t, u

LEMMA ShardSuffix ==
  ASSUME NEW name, NEW component, NEW i, NEW j
  PROVE  <<"data", name, component>> \o <<"shard", i, j>> = <<"data", name, component, "shard", i, j>>
<1> DEFINE S == {"data", "shard", name, component, i, j}
           s == <<"data", name, component>>
           t == <<"shard", i, j>>
           u == <<"data", name, component, "shard", i, j>>
<1>1. /\ s \in Seq(S) /\ t \in Seq(S) /\ u \in Seq(S)
      /\ Len(s) = 3 /\ Len(t) = 3 /\ Len(u) = 6
      /\ \A n \in 1 .. 3 : u[n] = s[n]
      /\ \A n \in 1 .. 3 : u[3 + n] = t[n]
  OBVIOUS
<1> HIDE DEF S, s, t, u
<1>2. /\ Len(u) = Len(s) + Len(t)
      /\ \A n \in 1 .. Len(s) : u[n] = s[n]
      /\ \A n \in 1 .. Len(t) : u[Len(s) + n] = t[n]
  BY <1>1
<1>3. s \o t = u
  BY <1>1, <1>2, Concatenated
<1> QED BY <1>3 DEF s, t, u

LEMMA NoSuffix ==
  ASSUME NEW name, NEW component
  PROVE  <<"data", name, component>> \o <<>> = <<"data", name, component>>
<1> DEFINE S == {"data", name, component}
           s == <<"data", name, component>>
           t == <<>>
           u == <<"data", name, component>>
<1>1. /\ s \in Seq(S) /\ t \in Seq(S) /\ u \in Seq(S)
      /\ Len(s) = 3 /\ Len(t) = 0 /\ Len(u) = 3
      /\ \A n \in 1 .. 3 : u[n] = s[n]
  OBVIOUS
<1> HIDE DEF S, s, t, u
<1>2. /\ Len(u) = Len(s) + Len(t)
      /\ \A n \in 1 .. Len(s) : u[n] = s[n]
      /\ \A n \in 1 .. Len(t) : u[Len(s) + n] = t[n]
  BY <1>1
<1>3. s \o t = u
  BY <1>1, <1>2, Concatenated
<1> QED BY <1>3 DEF s, t, u

LEMMA ClaimOfPod ==
  ASSUME NEW name, NEW component, NEW i
  PROVE  <<"data">> \o <<name, component, i>> = <<"data", name, component, i>>
<1> DEFINE S == {"data", name, component, i}
           s == <<"data">>
           t == <<name, component, i>>
           u == <<"data", name, component, i>>
<1>1. /\ s \in Seq(S) /\ t \in Seq(S) /\ u \in Seq(S)
      /\ Len(s) = 1 /\ Len(t) = 3 /\ Len(u) = 4
      /\ \A n \in 1 .. 1 : u[n] = s[n]
      /\ \A n \in 1 .. 3 : u[1 + n] = t[n]
  OBVIOUS
<1> HIDE DEF S, s, t, u
<1>2. /\ Len(u) = Len(s) + Len(t)
      /\ \A n \in 1 .. Len(s) : u[n] = s[n]
      /\ \A n \in 1 .. Len(t) : u[Len(s) + n] = t[n]
  BY <1>1
<1>3. s \o t = u
  BY <1>1, <1>2, Concatenated
<1> QED BY <1>3 DEF s, t, u

LEMMA ClaimOfShardPod ==
  ASSUME NEW name, NEW component, NEW i, NEW j
  PROVE  <<"data">> \o <<name, component, "shard", i, j>> = <<"data", name, component, "shard", i, j>>
<1> DEFINE S == {"data", "shard", name, component, i, j}
           s == <<"data">>
           t == <<name, component, "shard", i, j>>
           u == <<"data", name, component, "shard", i, j>>
<1>1. /\ s \in Seq(S) /\ t \in Seq(S) /\ u \in Seq(S)
      /\ Len(s) = 1 /\ Len(t) = 5 /\ Len(u) = 6
      /\ \A n \in 1 .. 1 : u[n] = s[n]
      /\ \A n \in 1 .. 5 : u[1 + n] = t[n]
  OBVIOUS
<1> HIDE DEF S, s, t, u
<1>2. /\ Len(u) = Len(s) + Len(t)
      /\ \A n \in 1 .. Len(s) : u[n] = s[n]
      /\ \A n \in 1 .. Len(t) : u[Len(s) + n] = t[n]
  BY <1>1
<1>3. s \o t = u
  BY <1>1, <1>2, Concatenated
<1> QED BY <1>3 DEF s, t, u

-----------------------------------------------------------------------------
(* The hosts that the configurations list, and the pods.                   *)
LEMMA HostsAreNames ==
  ASSUME ~spec.externalClickhouse, V.externalClickhouse = spec.externalClickhouse
  PROVE  HostsArePods
<1> DEFINE config == ClickhouseConfig(Resource, V)
           pods == Pods(Resource, V)
<1>1. /\ config.servers = ClickhousePods(Resource, V)
      /\ config.keepers = KeeperPods(Resource, V)
      /\ KeeperConfig(Resource, V) = KeeperPods(Resource, V)
  BY DEF ClickhouseConfig, ClickhouseConfigOf, ClickhousePods, KeeperPods, KeeperConfig
<1>2. pods = CorootPods(Resource, V) \cup KeeperPods(Resource, V) \cup ClickhousePods(Resource, V)
  BY PodsByName
<1>3. /\ \A pod \in CorootPods(Resource, V) : pod[2] = "coroot"
      /\ \A pod \in KeeperPods(Resource, V) : pod[2] = "clickhouse-keeper"
      /\ \A pod \in ClickhousePods(Resource, V) : pod[2] = "clickhouse"
  BY DEF CorootPods, KeeperPods, ClickhousePods
<1> HIDE DEF config, pods
<1>4. /\ {pod \in pods : pod[2] = "clickhouse"} = ClickhousePods(Resource, V)
      /\ {pod \in pods : pod[2] = "clickhouse-keeper"} = KeeperPods(Resource, V)
  BY <1>2, <1>3
<1> QED BY <1>1, <1>4 DEF HostsArePods, config, pods

(* ClickHouse and its keepers are configured with the names of all their   *)
(* pods and with no others, for any counts, those that are not set or make *)
(* no sense included: the constructors of the configurations and those of  *)
(* the StatefulSets have the same defaults (clickhouse.go).                *)
THEOREM HostsAlwaysArePods == LayoutSpec => []HostsArePods
<1>1. IsSpec(spec) => HostsArePods
  <2>1. CASE spec.externalClickhouse
    BY <2>1 DEF HostsArePods
  <2>2. ASSUME IsSpec(spec), ~spec.externalClickhouse PROVE HostsArePods
    <3>1. V.externalClickhouse = spec.externalClickhouse
      BY <2>2, ValidatedIsSpec DEF V, SpecFields
    <3> QED BY <2>2, <3>1, HostsAreNames
  <2> QED BY <2>1, <2>2
<1> QED BY <1>1, SpecsStaySpecs, PTL

-----------------------------------------------------------------------------
(* The claims of a plan that does more than install the agents.            *)
ClaimObject(r, name) == Object(r, "PersistentVolumeClaim", name)

PlannedClaims(r, s) ==
  {ClaimObject(r, <<"data", r.name, "coroot", i>>) : i \in 0 .. OneIfZero(s.replicas) - 1}
  \cup (IF s.externalPrometheus THEN {} ELSE {ClaimObject(r, <<"data", r.name, "prometheus">>)})
  \cup (IF s.externalClickhouse THEN {}
        ELSE {ClaimObject(r, <<"data", r.name, "clickhouse-keeper", i>>) :
                i \in 0 .. Keepers(s) - 1}
             \cup {ClaimObject(r, <<"data", r.name, "clickhouse", "shard", i, j>>) :
                     i \in 0 .. Times(OneIfZero(s.shards)) - 1,
                     j \in 0 .. Times(OneIfZero(s.clickhouseReplicas)) - 1})

IsClaimOp(op) == op.object.kind = "PersistentVolumeClaim"

LEMMA AccountsClaimNothing ==
  ASSUME NEW r, NEW component, NEW scc, NEW op \in AccountOps(r, component, scc)
  PROVE  ~IsClaimOp(op)
BY DEF AccountOps, Ensure, Op, Object, IsClaimOp

LEMMA OthersClaimNothing ==
  ASSUME NEW r, NEW s, NEW op \in RoleOps(r, s) \cup NodeAgentOps(r) \cup ClusterAgentOps(r)
  PROVE  ~IsClaimOp(op)
<1>1. CASE op \in RoleOps(r, s)
  BY <1>1 DEF RoleOps, KeyOp, Apply, Op, Object, IsClaimOp
<1>2. CASE op \in NodeAgentOps(r)
  BY <1>2, AccountsClaimNothing DEF NodeAgentOps, Run, Op, Object, IsClaimOp
<1>3. CASE op \in ClusterAgentOps(r)
  <2>1. /\ ~IsClaimOp(Op("apply", ClusterRoleOf(r), {}, FALSE, TRUE))
        /\ ~IsClaimOp(Op("ensure", ClusterRoleBindingOf(r), {"namespace"}, FALSE, TRUE))
        /\ ~IsClaimOp(Run(Object(r, "Deployment", <<r.name, "cluster-agent">>),
                          {"settings", "agentsOnly"}))
    BY DEF Run, Op, Object, ClusterRoleOf, ClusterRoleBindingOf, ClusterObject, IsClaimOp
  <2> QED BY <1>3, <2>1, AccountsClaimNothing DEF ClusterAgentOps
<1> QED BY <1>1, <1>2, <1>3

LEMMA ClaimOpObject ==
  ASSUME NEW r, NEW s, NEW component, NEW suffix, NEW reads
  PROVE  ClaimOp(r, s, component, suffix, reads).object
           = ClaimObject(r, <<"data", r.name, component>> \o suffix)
BY DEF ClaimOp, ClaimObject, Op

LEMMA OrdinalClaim ==
  ASSUME NEW r, NEW s, NEW component, NEW reads, NEW i
  PROVE  ClaimOp(r, s, component, <<i>>, reads).object
           = ClaimObject(r, <<"data", r.name, component, i>>)
<1>1. <<"data", r.name, component>> \o <<i>> = <<"data", r.name, component, i>>
  BY OrdinalSuffix
<1>2. ClaimOp(r, s, component, <<i>>, reads).object
        = ClaimObject(r, <<"data", r.name, component>> \o <<i>>)
  BY ClaimOpObject
<1> QED BY <1>1, <1>2

LEMMA ShardClaim ==
  ASSUME NEW r, NEW s, NEW component, NEW reads, NEW i, NEW j
  PROVE  ClaimOp(r, s, component, <<"shard", i, j>>, reads).object
           = ClaimObject(r, <<"data", r.name, component, "shard", i, j>>)
<1>1. <<"data", r.name, component>> \o <<"shard", i, j>> = <<"data", r.name, component, "shard", i, j>>
  BY ShardSuffix
<1>2. ClaimOp(r, s, component, <<"shard", i, j>>, reads).object
        = ClaimObject(r, <<"data", r.name, component>> \o <<"shard", i, j>>)
  BY ClaimOpObject
<1> QED BY <1>1, <1>2

LEMMA OnlyClaim ==
  ASSUME NEW r, NEW s, NEW component, NEW reads
  PROVE  ClaimOp(r, s, component, <<>>, reads).object
           = ClaimObject(r, <<"data", r.name, component>>)
<1>1. <<"data", r.name, component>> \o <<>> = <<"data", r.name, component>>
  BY NoSuffix
<1>2. ClaimOp(r, s, component, <<>>, reads).object
        = ClaimObject(r, <<"data", r.name, component>> \o <<>>)
  BY ClaimOpObject
<1> QED BY <1>1, <1>2

LEMMA ClaimOpIsClaim ==
  ASSUME NEW r, NEW s, NEW component, NEW suffix, NEW reads
  PROVE  IsClaimOp(ClaimOp(r, s, component, suffix, reads))
BY DEF ClaimOp, IsClaimOp, Op, Object

ClaimsIn(ops) == {op.object : op \in {o \in ops : IsClaimOp(o)}}

LEMMA ClaimsOfUnion ==
  ASSUME NEW a, NEW b, NEW c
  PROVE  ClaimsIn(a \cup b \cup c) = ClaimsIn(a) \cup ClaimsIn(b) \cup ClaimsIn(c)
BY DEF ClaimsIn

LEMMA ServerClaims ==
  ASSUME NEW r, NEW s
  PROVE  ClaimsIn(ServerOps(r, s)) =
           {ClaimObject(r, <<"data", r.name, "coroot", i>>) : i \in 0 .. OneIfZero(s.replicas) - 1}
<1> DEFINE claims == {ClaimOp(r, s, "coroot", <<i>>, {"class", "size"}) :
                        i \in 0 .. OneIfZero(s.replicas) - 1}
           others == {Apply(Object(r, "ConfigMap", <<r.name, "coroot">>),
                            {"settings", "readsSecret", "apiKeySecrets"}),
                      CorootStatefulSet(r),
                      Apply(Object(r, "Service", <<r.name, "coroot">>), {"settings"})}
                     \cup {Op("legacy", LegacyDeployment(r), {}, FALSE, FALSE),
                           Op("legacyDone", LegacyDeployment(r), {}, FALSE, FALSE)}
                     \cup {CorootIngress(r, s)}
<1>1. ServerOps(r, s) = AccountOps(r, "coroot", "nonroot") \cup claims \cup others
  BY DEF ServerOps
<1>2. \A op \in AccountOps(r, "coroot", "nonroot") \cup others : ~IsClaimOp(op)
  BY DEF IsClaimOp, AccountOps, Ensure, Apply, Run, Op, Object, CorootStatefulSet,
         LegacyDeployment, CorootIngress
<1>3. ASSUME NEW i
      PROVE  ClaimOp(r, s, "coroot", <<i>>, {"class", "size"}).object
               = ClaimObject(r, <<"data", r.name, "coroot", i>>)
  BY OrdinalClaim
<1>4. \A op \in claims : IsClaimOp(op)
  BY ClaimOpIsClaim
<1> HIDE DEF others
<1>5. ClaimsIn(ServerOps(r, s)) = {op.object : op \in claims}
  BY <1>1, <1>2, <1>4 DEF ClaimsIn
<1> QED BY <1>3, <1>5

LEMMA PrometheusClaims ==
  ASSUME NEW r, NEW s
  PROVE  ClaimsIn(PrometheusOps(r, s)) = {ClaimObject(r, <<"data", r.name, "prometheus">>)}
<1> DEFINE claim == ClaimOp(r, s, "prometheus", <<>>, {"prometheusClass", "prometheusSize"})
           others == {Run(Object(r, "Deployment", <<r.name, "prometheus">>), {"settings"}),
                      Apply(Object(r, "Service", <<r.name, "prometheus">>), {})}
<1>1. PrometheusOps(r, s) = AccountOps(r, "prometheus", "nonroot") \cup {claim} \cup others
  BY DEF PrometheusOps
<1>2. \A op \in AccountOps(r, "prometheus", "nonroot") \cup others : ~IsClaimOp(op)
  BY AccountsClaimNothing DEF IsClaimOp, Apply, Run, Op, Object
<1>3. claim.object = ClaimObject(r, <<"data", r.name, "prometheus">>)
  BY OnlyClaim
<1>4. IsClaimOp(claim)
  BY ClaimOpIsClaim
<1> HIDE DEF claim, others
<1> QED BY <1>1, <1>2, <1>3, <1>4 DEF ClaimsIn

LEMMA KeeperPodsClaims ==
  ASSUME NEW r, NEW s
  PROVE  ClaimsIn(KeeperOps(r, s)) =
           {ClaimObject(r, <<"data", r.name, "clickhouse-keeper", i>>) : i \in 0 .. Keepers(s) - 1}
<1> DEFINE claims == {ClaimOp(r, s, "clickhouse-keeper", <<i>>, {"class", "keeperSize"}) :
                        i \in 0 .. Keepers(s) - 1}
           others == {Apply(Object(r, "Service", <<r.name, "clickhouse-keeper-headless">>), {})}
                     \cup {Run(Object(r, "StatefulSet", <<r.name, "clickhouse-keeper">>),
                               {"settings", "keepers"})}
<1>1. KeeperOps(r, s) = AccountOps(r, "clickhouse-keeper", "nonroot") \cup claims \cup others
  BY DEF KeeperOps
<1>2. \A op \in AccountOps(r, "clickhouse-keeper", "nonroot") \cup others : ~IsClaimOp(op)
  BY AccountsClaimNothing DEF IsClaimOp, Apply, Run, Op, Object
<1>3. ASSUME NEW i
      PROVE  ClaimOp(r, s, "clickhouse-keeper", <<i>>, {"class", "keeperSize"}).object
               = ClaimObject(r, <<"data", r.name, "clickhouse-keeper", i>>)
  BY OrdinalClaim
<1>4. \A op \in claims : IsClaimOp(op)
  BY ClaimOpIsClaim
<1> HIDE DEF others
<1>5. ClaimsIn(KeeperOps(r, s)) = {op.object : op \in claims}
  BY <1>1, <1>2, <1>4 DEF ClaimsIn
<1> QED BY <1>3, <1>5

LEMMA ShardClaims ==
  ASSUME NEW r, NEW s
  PROVE  ClaimsIn(ClickhouseOps(r, s)) =
           {ClaimObject(r, <<"data", r.name, "clickhouse", "shard", i, j>>) :
              i \in 0 .. Times(OneIfZero(s.shards)) - 1,
              j \in 0 .. Times(OneIfZero(s.clickhouseReplicas)) - 1}
<1> DEFINE A == 0 .. Times(OneIfZero(s.shards)) - 1
           B == 0 .. Times(OneIfZero(s.clickhouseReplicas)) - 1
           claim(i, j) == ClaimOp(r, s, "clickhouse", <<"shard", i, j>>, {"class", "clickhouseSize"})
           object(i, j) == ClaimObject(r, <<"data", r.name, "clickhouse", "shard", i, j>>)
           claims == {claim(i, j) : i \in A, j \in B}
           objects == {object(i, j) : i \in A, j \in B}
           others == {Apply(Object(r, "Service", <<r.name, "clickhouse-headless">>), {})}
                     \cup {ShardSet(r, i) : i \in 0 .. OneIfUnset(s.shards) - 1}
                     \cup {Apply(Object(r, "Service", <<r.name, "clickhouse">>), {})}
<1>1. ClickhouseOps(r, s) = AccountOps(r, "clickhouse", "nonroot") \cup claims \cup others
  BY DEF ClickhouseOps
<1>2. \A op \in AccountOps(r, "clickhouse", "nonroot") \cup others : ~IsClaimOp(op)
  BY AccountsClaimNothing DEF IsClaimOp, Apply, Run, Op, Object, ShardSet
<1>3. ASSUME NEW i, NEW j PROVE claim(i, j).object = object(i, j)
  BY ShardClaim
<1>4. ASSUME NEW i, NEW j PROVE IsClaimOp(claim(i, j))
  BY ClaimOpIsClaim
<1> HIDE DEF others, claim, object, A, B
<1>5. ClaimsIn(ClickhouseOps(r, s)) = {op.object : op \in claims}
  BY <1>1, <1>2, <1>4 DEF ClaimsIn
<1>6. ASSUME NEW x \in ClaimsIn(ClickhouseOps(r, s)) PROVE x \in objects
  <2>1. PICK op \in claims : x = op.object
    BY <1>5, <1>6
  <2>2. PICK i \in A, j \in B : op = claim(i, j)
    BY <2>1
  <2> QED BY <1>3, <2>1, <2>2
<1>7. ASSUME NEW x \in objects PROVE x \in ClaimsIn(ClickhouseOps(r, s))
  <2>1. PICK i \in A, j \in B : x = object(i, j)
    BY <1>7
  <2>2. claim(i, j) \in claims
    OBVIOUS
  <2> QED BY <1>3, <1>5, <2>1, <2>2
<1> HIDE DEF objects
<1>8. ClaimsIn(ClickhouseOps(r, s)) = objects
  BY <1>6, <1>7
<1> QED BY <1>8 DEF objects, object, A, B

LEMMA ClaimsOfPlan ==
  ASSUME NEW r, NEW s, ~s.agentsOnly
  PROVE  ClaimsIn(PlannedOps(r, s)) = PlannedClaims(r, s)
<1> DEFINE agents == RoleOps(r, s) \cup NodeAgentOps(r) \cup ClusterAgentOps(r)
           prometheus == IF s.externalPrometheus THEN {} ELSE PrometheusOps(r, s)
           databases == IF s.externalClickhouse THEN {}
                        ELSE {Ensure(PasswordSecret(r))} \cup KeeperOps(r, s) \cup ClickhouseOps(r, s)
           server == ServerOps(r, s)
<1>1. PlannedOps(r, s) = agents \cup (server \cup prometheus \cup databases)
  BY DEF PlannedOps
<1>2. ClaimsIn(agents) = {}
  BY OthersClaimNothing DEF ClaimsIn
<1>3. ClaimsIn({}) = {} /\ ClaimsIn({Ensure(PasswordSecret(r))}) = {}
  BY DEF ClaimsIn, IsClaimOp, Ensure, PasswordSecret, Op, Object
<1>4. ClaimsIn(prometheus) = IF s.externalPrometheus THEN {} ELSE ClaimsIn(PrometheusOps(r, s))
  BY <1>3
<1>5. ClaimsIn(databases) =
        IF s.externalClickhouse THEN {} ELSE ClaimsIn(KeeperOps(r, s)) \cup ClaimsIn(ClickhouseOps(r, s))
  <2> DEFINE password == {Ensure(PasswordSecret(r))}
             keeper == KeeperOps(r, s)
             click == ClickhouseOps(r, s)
  <2>1. databases = IF s.externalClickhouse THEN {} ELSE password \cup keeper \cup click
    OBVIOUS
  <2>2. ClaimsIn(password) = {}
    BY <1>3
  <2> HIDE DEF databases, password, keeper, click
  <2>3. ClaimsIn(password \cup keeper \cup click)
          = ClaimsIn(password) \cup ClaimsIn(keeper) \cup ClaimsIn(click)
    BY ClaimsOfUnion
  <2>4. ClaimsIn(databases) =
          IF s.externalClickhouse THEN {} ELSE ClaimsIn(keeper) \cup ClaimsIn(click)
    BY <1>3, <2>1, <2>2, <2>3
  <2> QED BY <2>4 DEF keeper, click
<1> HIDE DEF agents, prometheus, databases, server
<1>6. ClaimsIn(PlannedOps(r, s)) =
        ClaimsIn(server) \cup ClaimsIn(prometheus) \cup ClaimsIn(databases)
  <2> DEFINE rest == server \cup prometheus \cup databases
  <2>1. ClaimsIn(rest) = ClaimsIn(server) \cup ClaimsIn(prometheus) \cup ClaimsIn(databases)
    BY ClaimsOfUnion
  <2>2. PlannedOps(r, s) = agents \cup rest
    BY <1>1
  <2> HIDE DEF rest
  <2>3. ClaimsIn(agents \cup rest) = ClaimsIn(agents) \cup ClaimsIn(rest)
    BY DEF ClaimsIn
  <2> QED BY <1>2, <2>1, <2>2, <2>3
<1>7. ClaimsIn(server) = ClaimsIn(ServerOps(r, s))
  BY DEF server
<1> QED BY <1>7, <1>4, <1>5, <1>6, ServerClaims, PrometheusClaims, KeeperPodsClaims, ShardClaims
        DEF PlannedClaims

(* Of the claims of a plan, Prometheus's alone is not a pod's of a set.    *)
MountedClaims(r, s) ==
  {ClaimObject(r, <<"data", r.name, "coroot", i>>) : i \in 0 .. OneIfUnset(s.replicas) - 1}
  \cup (IF s.externalClickhouse THEN {}
        ELSE {ClaimObject(r, <<"data", r.name, "clickhouse-keeper", i>>) :
                i \in 0 .. Keepers(s) - 1}
             \cup {ClaimObject(r, <<"data", r.name, "clickhouse", "shard", i, j>>) :
                     i \in 0 .. OneIfUnset(s.shards) - 1,
                     j \in 0 .. OneIfUnset(s.clickhouseReplicas) - 1})

LEMMA ClaimsOfPods ==
  ASSUME NEW r, NEW s
  PROVE  {ClaimOf(r, pod) : pod \in Pods(r, s)} = MountedClaims(r, s)
<1>1. ASSUME NEW component, NEW i
      PROVE  ClaimOf(r, <<r.name, component, i>>)
               = ClaimObject(r, <<"data", r.name, component, i>>)
  <2>1. <<"data">> \o <<r.name, component, i>> = <<"data", r.name, component, i>>
    BY ClaimOfPod
  <2> QED BY <2>1 DEF ClaimOf, ClaimObject
<1>2. ASSUME NEW i, NEW j
      PROVE  ClaimOf(r, <<r.name, "clickhouse", "shard", i, j>>)
               = ClaimObject(r, <<"data", r.name, "clickhouse", "shard", i, j>>)
  <2>1. <<"data">> \o <<r.name, "clickhouse", "shard", i, j>>
          = <<"data", r.name, "clickhouse", "shard", i, j>>
    BY ClaimOfShardPod
  <2> QED BY <2>1 DEF ClaimOf, ClaimObject
<1> DEFINE A == 0 .. OneIfUnset(s.shards) - 1
           B == 0 .. OneIfUnset(s.clickhouseReplicas) - 1
           mount(pods) == {ClaimOf(r, pod) : pod \in pods}
           object(i, j) == ClaimObject(r, <<"data", r.name, "clickhouse", "shard", i, j>>)
           name(i, j) == <<r.name, "clickhouse", "shard", i, j>>
<1>3. mount(CorootPods(r, s)) =
        {ClaimObject(r, <<"data", r.name, "coroot", i>>) : i \in 0 .. OneIfUnset(s.replicas) - 1}
  BY <1>1 DEF CorootPods
<1>4. mount(KeeperPods(r, s)) =
        {ClaimObject(r, <<"data", r.name, "clickhouse-keeper", i>>) : i \in 0 .. Keepers(s) - 1}
  BY <1>1 DEF KeeperPods
<1>5. mount(ClickhousePods(r, s)) = {object(i, j) : i \in A, j \in B}
  <2>1. ClickhousePods(r, s) = {name(i, j) : i \in A, j \in B}
    BY DEF ClickhousePods
  <2>2. ASSUME NEW i, NEW j PROVE ClaimOf(r, name(i, j)) = object(i, j)
    BY <1>2
  <2> DEFINE pods == ClickhousePods(r, s)
             left == {ClaimOf(r, pod) : pod \in pods}
             right == {object(i, j) : i \in A, j \in B}
  <2> HIDE DEF A, B, object, name
  <2>3. ASSUME NEW x \in left PROVE x \in right
    <3>1. PICK pod \in pods : x = ClaimOf(r, pod)
      BY <2>3
    <3>2. PICK i \in A, j \in B : pod = name(i, j)
      BY <2>1, <3>1
    <3> QED BY <2>2, <3>1, <3>2
  <2>4. ASSUME NEW x \in right PROVE x \in left
    <3>1. PICK i \in A, j \in B : x = object(i, j)
      BY <2>4
    <3>2. name(i, j) \in pods
      BY <2>1
    <3> QED BY <2>2, <3>1, <3>2
  <2> QED BY <2>3, <2>4
<1>6. mount(Pods(r, s)) = mount(CorootPods(r, s))
        \cup (IF s.externalClickhouse THEN {}
              ELSE mount(KeeperPods(r, s)) \cup mount(ClickhousePods(r, s)))
  BY PodsByName
<1> HIDE DEF mount
<1>7. mount(Pods(r, s)) = MountedClaims(r, s)
  BY <1>3, <1>4, <1>5, <1>6 DEF MountedClaims
<1> QED BY <1>7 DEF mount

(* The counts of a validated spec, where they make sense.                  *)
LEMMA SensibleCounts ==
  ASSUME IsSpec(spec), spec.replicas \in Nat, spec.shards \in Nat, spec.clickhouseReplicas \in Nat
  PROVE  /\ OneIfZero(V.replicas) = OneIfUnset(V.replicas)
         /\ Times(OneIfZero(V.shards)) = OneIfUnset(V.shards)
         /\ Times(OneIfZero(V.clickhouseReplicas)) = OneIfUnset(V.clickhouseReplicas)
<1>1. V.replicas \in Nat
  BY DEF V, Validated, IsSpec, SpecFields
<1>2. V.shards = spec.shards /\ V.clickhouseReplicas = spec.clickhouseReplicas
  BY ValidatedIsSpec DEF V, SpecFields
<1> QED BY <1>1, <1>2 DEF OneIfZero, OneIfUnset, Times

LEMMA MountedOfPlanned ==
  ASSUME NEW r, NEW s,
         OneIfZero(s.replicas) = OneIfUnset(s.replicas),
         Times(OneIfZero(s.shards)) = OneIfUnset(s.shards),
         Times(OneIfZero(s.clickhouseReplicas)) = OneIfUnset(s.clickhouseReplicas)
  PROVE  {o \in PlannedClaims(r, s) : o.name[3] \in {"coroot", "clickhouse", "clickhouse-keeper"}}
           = MountedClaims(r, s)
<1> DEFINE prometheus == IF s.externalPrometheus THEN {}
                         ELSE {ClaimObject(r, <<"data", r.name, "prometheus">>)}
           components == {"coroot", "clickhouse", "clickhouse-keeper"}
<1>1. PlannedClaims(r, s) = MountedClaims(r, s) \cup prometheus
  BY DEF PlannedClaims, MountedClaims
<1>2. \A o \in prometheus : o.name[3] = "prometheus"
  BY DEF ClaimObject, Object
<1>3. ASSUME NEW o \in MountedClaims(r, s) PROVE o.name[3] \in components
  BY DEF MountedClaims, ClaimObject, Object
<1> HIDE DEF prometheus
<1> QED BY <1>1, <1>2, <1>3

(* As long as the counts of a spec make sense, Reconcile writes the claims *)
(* that the pods of its StatefulSets mount, all of them and no others      *)
(* (clickhouse.go and coroot.go compute both names).                       *)
THEOREM ClaimsAlwaysMounted == LayoutSpec => []ClaimsAreMounted
<1>1. IsSpec(spec) => ClaimsAreMounted
  <2> SUFFICES ASSUME IsSpec(spec), ~spec.agentsOnly,
                      {spec.replicas, spec.shards, spec.clickhouseReplicas} \subseteq Nat
               PROVE  {op.object : op \in {o \in PlanOps :
                         \E c \in {"coroot", "clickhouse", "clickhouse-keeper"} : IsClaim(o, c)}}
                        = {ClaimOf(Resource, pod) : pod \in Pods(Resource, V)}
    BY DEF ClaimsAreMounted
  <2> DEFINE components == {"coroot", "clickhouse", "clickhouse-keeper"}
             claims == {op.object : op \in {o \in PlanOps : \E c \in components : IsClaim(o, c)}}
  <2>1. claims = {o \in ClaimsIn(PlanOps) : o.name[3] \in components}
    BY DEF ClaimsIn, IsClaimOp, IsClaim
  <2>2. ~V.agentsOnly
    BY ValidatedIsSpec DEF V, SpecFields
  <2>3. ClaimsIn(PlanOps) = PlannedClaims(Resource, V)
    BY <2>2, PlanOfSpec, ClaimsOfPlan
  <2>4. {o \in PlannedClaims(Resource, V) : o.name[3] \in components} = MountedClaims(Resource, V)
    BY SensibleCounts, MountedOfPlanned
  <2> HIDE DEF components, claims
  <2>5. claims = MountedClaims(Resource, V)
    BY <2>1, <2>3, <2>4
  <2>6. MountedClaims(Resource, V) = {ClaimOf(Resource, pod) : pod \in Pods(Resource, V)}
    BY ClaimsOfPods
  <2> QED BY <2>5, <2>6 DEF claims, components
<1> QED BY <1>1, SpecsStaySpecs, PTL

-----------------------------------------------------------------------------
(* What is written, and what is used.                                      *)
WrittenBy(ops) == {op.object : op \in {o \in ops : o.verb \in {"apply", "ensure"}}}

LEMMA IsWrittenBy ==
  ASSUME NEW ops, NEW op \in ops, op.verb \in {"apply", "ensure"}
  PROVE  op.object \in WrittenBy(ops)
BY DEF WrittenBy

Account(r, component) == Object(r, "ServiceAccount", <<r.name, component>>)

LEMMA AccountsWritten ==
  ASSUME NEW r, NEW component, NEW scc, NEW ops, AccountOps(r, component, scc) \subseteq ops
  PROVE  Account(r, component) \in WrittenBy(ops)
<1> DEFINE op == Ensure(Object(r, "ServiceAccount", <<r.name, component>>))
<1>1. op \in ops
  BY DEF AccountOps
<1>2. op.verb = "ensure" /\ op.object = Account(r, component)
  BY DEF Ensure, Op, Account
<1> HIDE DEF op
<1> QED BY <1>1, <1>2, IsWrittenBy

LEMMA AppliedWritten ==
  ASSUME NEW ops, NEW object, NEW reads, Apply(object, reads) \in ops
  PROVE  object \in WrittenBy(ops)
<1>1. Apply(object, reads).verb = "apply" /\ Apply(object, reads).object = object
  BY DEF Apply, Op
<1> QED BY <1>1, IsWrittenBy

(* A RoleBinding names the account beside it and one of the two roles.     *)
LEMMA AccountsUse ==
  ASSUME NEW r, NEW s, NEW component, NEW scc \in {"nonroot", "privileged"}, NEW ops,
         AccountOps(r, component, scc) \subseteq ops, RoleOps(r, s) \subseteq ops,
         NEW op \in AccountOps(r, component, scc)
  PROVE  Uses(r, s, op) \subseteq WrittenBy(ops)
<1>1. Account(r, component) \in WrittenBy(ops)
  BY AccountsWritten
<1>2. Object(r, "Role", <<r.name, scc>>) \in WrittenBy(ops)
  <2>1. Apply(Object(r, "Role", <<r.name, scc>>), {}) \in ops
    BY DEF RoleOps
  <2> QED BY <2>1, AppliedWritten
<1>3. CASE op = Ensure(Object(r, "ServiceAccount", <<r.name, component>>))
  BY <1>3 DEF Uses, Ensure, Op, Object
<1>4. CASE op = Ensure(Object(r, "RoleBinding", <<r.name, component, scc>>))
  <2>1. /\ ~op.image /\ op.object.kind = "RoleBinding"
        /\ op.object.name = <<r.name, component, scc>>
    BY <1>4 DEF Ensure, Op, Object
  <2>2. Uses(r, s, op) = {Account(r, component), Object(r, "Role", <<r.name, scc>>)}
    BY <2>1 DEF Uses, Account
  <2> QED BY <1>1, <1>2, <2>2
<1> QED BY <1>3, <1>4 DEF AccountOps

LEMMA NothingUsed ==
  ASSUME NEW r, NEW s, NEW op, ~op.image,
         op.object.kind \notin {"RoleBinding", "ClusterRoleBinding"}
  PROVE  Uses(r, s, op) = {}
BY DEF Uses

Workloads == {"DaemonSet", "Deployment", "StatefulSet"}

LEMMA RunUses ==
  ASSUME NEW r, NEW s, NEW kind \in Workloads, NEW name, NEW reads
  PROVE  Uses(r, s, Run(Object(r, kind, name), reads))
           = {Account(r, name[2])} \cup UsedByPods(r, s, name[2])
<1> DEFINE op == Run(Object(r, kind, name), reads)
<1>1. op.image /\ op.object.name = name /\ op.object.kind \in Workloads
  BY DEF Run, Op, Object
<1> HIDE DEF op
<1>2. Uses(r, s, op) = {Account(r, name[2])} \cup UsedByPods(r, s, name[2])
  BY <1>1 DEF Uses, Account, Workloads
<1> QED BY <1>2 DEF op

LEMMA ClaimUses ==
  ASSUME NEW r, NEW s, NEW component, NEW suffix, NEW reads
  PROVE  Uses(r, s, ClaimOp(r, s, component, suffix, reads)) = {}
<1> DEFINE op == ClaimOp(r, s, component, suffix, reads)
<1>1. ~op.image /\ op.object.kind = "PersistentVolumeClaim"
  BY DEF ClaimOp, Op, Object
<1> HIDE DEF op
<1>2. Uses(r, s, op) = {}
  BY <1>1, NothingUsed
<1> QED BY <1>2 DEF op

LEMMA ApplyUses ==
  ASSUME NEW r, NEW s, NEW kind, NEW name, NEW reads,
         kind \notin {"RoleBinding", "ClusterRoleBinding"}
  PROVE  Uses(r, s, Apply(Object(r, kind, name), reads)) = {}
<1> DEFINE op == Apply(Object(r, kind, name), reads)
<1>1. ~op.image /\ op.object.kind = kind
  BY DEF Apply, Op, Object
<1> HIDE DEF op
<1>2. Uses(r, s, op) = {}
  BY <1>1, NothingUsed
<1> QED BY <1>2 DEF op

LEMMA RolesUse ==
  ASSUME NEW r, NEW s, NEW op \in RoleOps(r, s)
  PROVE  Uses(r, s, op) = {}
<1>1. ~op.image /\ op.object.kind \notin {"RoleBinding", "ClusterRoleBinding"}
  BY DEF RoleOps, KeyOp, Apply, Op, Object
<1> QED BY <1>1, NothingUsed

(* Without agentsOnly the agents report to the Service of Coroot, which    *)
(* the same plan writes.                                                   *)
LEMMA AgentsUse ==
  ASSUME NEW r, NEW s, NEW component \in {"node-agent", "cluster-agent"},
         NEW ops, Account(r, component) \in WrittenBy(ops),
         ~s.agentsOnly => ServerOps(r, s) \subseteq ops, NEW kind \in Workloads, NEW reads
  PROVE  Uses(r, s, Run(Object(r, kind, <<r.name, component>>), reads)) \subseteq WrittenBy(ops)
<1> DEFINE name == <<r.name, component>>
<1>1. name[2] = component
  OBVIOUS
<1> HIDE DEF name
<1>2. Uses(r, s, Run(Object(r, kind, name), reads))
        = {Account(r, component)} \cup UsedByPods(r, s, component)
  BY <1>1, RunUses
<1>3. UsedByPods(r, s, component)
        = IF s.agentsOnly THEN {} ELSE {Object(r, "Service", <<r.name, "coroot">>)}
  BY DEF UsedByPods
<1>4. ~s.agentsOnly => Object(r, "Service", <<r.name, "coroot">>) \in WrittenBy(ops)
  <2>1. Apply(Object(r, "Service", <<r.name, "coroot">>), {"settings"}) \in ServerOps(r, s)
    BY DEF ServerOps
  <2> QED BY <2>1, AppliedWritten
<1> QED BY <1>2, <1>3, <1>4 DEF name

LEMMA NodeAgentUses ==
  ASSUME NEW r, NEW s, NEW ops, RoleOps(r, s) \subseteq ops, NodeAgentOps(r) \subseteq ops,
         ~s.agentsOnly => ServerOps(r, s) \subseteq ops, NEW op \in NodeAgentOps(r)
  PROVE  Uses(r, s, op) \subseteq WrittenBy(ops)
<1>1. AccountOps(r, "node-agent", "privileged") \subseteq ops
  BY DEF NodeAgentOps
<1>2. CASE op \in AccountOps(r, "node-agent", "privileged")
  BY <1>1, <1>2, AccountsUse
<1>3. CASE op = Run(Object(r, "DaemonSet", <<r.name, "node-agent">>), {"settings", "agentsOnly"})
  BY <1>1, <1>3, AccountsWritten, AgentsUse DEF Workloads
<1> QED BY <1>2, <1>3 DEF NodeAgentOps

LEMMA ClusterAgentUses ==
  ASSUME NEW r, NEW s, NEW ops, RoleOps(r, s) \subseteq ops, ClusterAgentOps(r) \subseteq ops,
         ~s.agentsOnly => ServerOps(r, s) \subseteq ops, NEW op \in ClusterAgentOps(r)
  PROVE  Uses(r, s, op) \subseteq WrittenBy(ops)
<1> DEFINE role == Op("apply", ClusterRoleOf(r), {}, FALSE, TRUE)
           binding == Op("ensure", ClusterRoleBindingOf(r), {"namespace"}, FALSE, TRUE)
<1>1. AccountOps(r, "cluster-agent", "nonroot") \subseteq ops
  BY DEF ClusterAgentOps
<1>2. Account(r, "cluster-agent") \in WrittenBy(ops)
  BY <1>1, AccountsWritten
<1>3. CASE op \in AccountOps(r, "cluster-agent", "nonroot")
  BY <1>1, <1>3, AccountsUse
<1>4. CASE op = Run(Object(r, "Deployment", <<r.name, "cluster-agent">>), {"settings", "agentsOnly"})
  BY <1>2, <1>4, AgentsUse DEF Workloads
<1>5. /\ role \in ops /\ role.verb = "apply" /\ role.object = ClusterRoleOf(r) /\ ~role.image
      /\ role.object.kind = "ClusterRole"
      /\ ~binding.image /\ binding.object.kind = "ClusterRoleBinding"
  BY DEF ClusterAgentOps, Op, ClusterRoleOf, ClusterRoleBindingOf, ClusterObject
<1>6. CASE op = role
  BY <1>5, <1>6, NothingUsed
<1>7. CASE op = binding
  <2> HIDE DEF role, binding
  <2>1. ClusterRoleOf(r) \in WrittenBy(ops)
    BY <1>5, IsWrittenBy
  <2>2. Uses(r, s, op) = {Account(r, "cluster-agent"), ClusterRoleOf(r)}
    BY <1>5, <1>7 DEF Uses, Account
  <2> QED BY <1>2, <2>1, <2>2
<1> QED BY <1>3, <1>4, <1>6, <1>7 DEF ClusterAgentOps

(* The databases that come along with a server.                            *)
Brings(r, s, ops) ==
  /\ ~s.externalPrometheus => PrometheusOps(r, s) \subseteq ops
  /\ ~s.externalClickhouse =>
       {Ensure(PasswordSecret(r))} \cup KeeperOps(r, s) \cup ClickhouseOps(r, s) \subseteq ops

LEMMA ServerWritten ==
  ASSUME NEW r, NEW s, NEW ops, ServerOps(r, s) \subseteq ops
  PROVE  /\ Account(r, "coroot") \in WrittenBy(ops)
         /\ Object(r, "ConfigMap", <<r.name, "coroot">>) \in WrittenBy(ops)
<1>1. AccountOps(r, "coroot", "nonroot") \subseteq ops
  BY DEF ServerOps
<1>2. Apply(Object(r, "ConfigMap", <<r.name, "coroot">>), {"settings", "readsSecret", "apiKeySecrets"})
        \in ops
  BY DEF ServerOps
<1> QED BY <1>1, <1>2, AccountsWritten, AppliedWritten

LEMMA DatabasesWritten ==
  ASSUME NEW r, NEW s, NEW ops, Brings(r, s, ops)
  PROVE  /\ ~s.externalPrometheus => Object(r, "Service", <<r.name, "prometheus">>) \in WrittenBy(ops)
         /\ ~s.externalClickhouse =>
              {Object(r, "Secret", <<r.name, "clickhouse">>),
               Object(r, "Service", <<r.name, "clickhouse">>),
               Object(r, "Service", <<r.name, "clickhouse-headless">>),
               Object(r, "Service", <<r.name, "clickhouse-keeper-headless">>)}
                \subseteq WrittenBy(ops)
<1>1. ASSUME ~s.externalPrometheus
      PROVE  Object(r, "Service", <<r.name, "prometheus">>) \in WrittenBy(ops)
  <2>1. Apply(Object(r, "Service", <<r.name, "prometheus">>), {}) \in ops
    BY <1>1 DEF Brings, PrometheusOps
  <2> QED BY <2>1, AppliedWritten
<1>2. ASSUME ~s.externalClickhouse
      PROVE  Object(r, "Secret", <<r.name, "clickhouse">>) \in WrittenBy(ops)
  <2> DEFINE op == Ensure(PasswordSecret(r))
  <2>1. op \in ops
    BY <1>2 DEF Brings
  <2>2. op.verb = "ensure" /\ op.object = Object(r, "Secret", <<r.name, "clickhouse">>)
    BY DEF Ensure, PasswordSecret, Op
  <2> HIDE DEF op
  <2> QED BY <2>1, <2>2, IsWrittenBy
<1>3. ASSUME ~s.externalClickhouse
      PROVE  {Object(r, "Service", <<r.name, "clickhouse">>),
              Object(r, "Service", <<r.name, "clickhouse-headless">>),
              Object(r, "Service", <<r.name, "clickhouse-keeper-headless">>)}
               \subseteq WrittenBy(ops)
  <2>1. /\ Apply(Object(r, "Service", <<r.name, "clickhouse">>), {}) \in ops
        /\ Apply(Object(r, "Service", <<r.name, "clickhouse-headless">>), {}) \in ops
    BY <1>3 DEF Brings, ClickhouseOps
  <2>2. Apply(Object(r, "Service", <<r.name, "clickhouse-keeper-headless">>), {}) \in ops
    BY <1>3 DEF Brings, KeeperOps
  <2> QED BY <2>1, <2>2, AppliedWritten
<1> QED BY <1>1, <1>2, <1>3

LEMMA ServerUses ==
  ASSUME NEW r, NEW s, NEW ops, RoleOps(r, s) \subseteq ops, ServerOps(r, s) \subseteq ops,
         Brings(r, s, ops), NEW op \in ServerOps(r, s)
  PROVE  Uses(r, s, op) \subseteq WrittenBy(ops)
<1> DEFINE others == {Op("legacy", LegacyDeployment(r), {}, FALSE, FALSE),
                      Op("legacyDone", LegacyDeployment(r), {}, FALSE, FALSE),
                      CorootIngress(r, s)}
           name == <<r.name, "coroot">>
<1>1. CASE op \in AccountOps(r, "coroot", "nonroot")
  <2>1. AccountOps(r, "coroot", "nonroot") \subseteq ops
    BY DEF ServerOps
  <2> QED BY <1>1, <2>1, AccountsUse
<1>2. CASE \E i : op = ClaimOp(r, s, "coroot", <<i>>, {"class", "size"})
  BY <1>2, ClaimUses
<1>3. CASE \/ op = Apply(Object(r, "ConfigMap", name), {"settings", "readsSecret", "apiKeySecrets"})
           \/ op = Apply(Object(r, "Service", name), {"settings"})
  BY <1>3, ApplyUses
<1>4. CASE op = CorootStatefulSet(r)
  <2> DEFINE reads == {"settings", "readsSecret", "apiKeySecrets", "replicas", "postgres", "ingress",
                       "externalPrometheus", "externalClickhouse"}
  <2>1. name[2] = "coroot"
    OBVIOUS
  <2>2. op = Run(Object(r, "StatefulSet", name), reads)
    BY <1>4 DEF CorootStatefulSet
  <2> HIDE DEF name, reads
  <2>3. Uses(r, s, op) = {Account(r, "coroot")} \cup UsedByPods(r, s, "coroot")
    BY <2>1, <2>2, RunUses DEF Workloads
  <2>4. UsedByPods(r, s, "coroot") =
          {Object(r, "ConfigMap", <<r.name, "coroot">>)}
          \cup (IF s.externalPrometheus THEN {} ELSE {Object(r, "Service", <<r.name, "prometheus">>)})
          \cup (IF s.externalClickhouse THEN {}
                ELSE {Object(r, "Secret", <<r.name, "clickhouse">>),
                      Object(r, "Service", <<r.name, "clickhouse">>)})
    BY DEF UsedByPods
  <2>5. /\ Account(r, "coroot") \in WrittenBy(ops)
        /\ Object(r, "ConfigMap", <<r.name, "coroot">>) \in WrittenBy(ops)
    BY ServerWritten
  <2>6. ~s.externalPrometheus => Object(r, "Service", <<r.name, "prometheus">>) \in WrittenBy(ops)
    BY DatabasesWritten
  <2>7. ~s.externalClickhouse =>
          {Object(r, "Secret", <<r.name, "clickhouse">>),
           Object(r, "Service", <<r.name, "clickhouse">>)} \subseteq WrittenBy(ops)
    BY DatabasesWritten
  <2> QED BY <2>3, <2>4, <2>5, <2>6, <2>7
<1>5. CASE op \in others
  <2>1. ~op.image /\ op.object.kind \notin {"RoleBinding", "ClusterRoleBinding"}
    BY <1>5 DEF Op, Object, LegacyDeployment, CorootIngress
  <2> QED BY <2>1, NothingUsed
<1> HIDE DEF others
<1>6. \/ op \in AccountOps(r, "coroot", "nonroot")
      \/ \E i : op = ClaimOp(r, s, "coroot", <<i>>, {"class", "size"})
      \/ op = Apply(Object(r, "ConfigMap", name), {"settings", "readsSecret", "apiKeySecrets"})
      \/ op = Apply(Object(r, "Service", name), {"settings"})
      \/ op = CorootStatefulSet(r)
      \/ op \in others
  BY DEF ServerOps, others
<1> QED BY <1>1, <1>2, <1>3, <1>4, <1>5, <1>6

LEMMA PrometheusUses ==
  ASSUME NEW r, NEW s, NEW ops, RoleOps(r, s) \subseteq ops, PrometheusOps(r, s) \subseteq ops,
         NEW op \in PrometheusOps(r, s)
  PROVE  Uses(r, s, op) \subseteq WrittenBy(ops)
<1> DEFINE claim == ClaimOp(r, s, "prometheus", <<>>, {"prometheusClass", "prometheusSize"})
           name == <<r.name, "prometheus">>
<1>1. AccountOps(r, "prometheus", "nonroot") \subseteq ops
  BY DEF PrometheusOps
<1>2. CASE op \in AccountOps(r, "prometheus", "nonroot")
  BY <1>1, <1>2, AccountsUse
<1>3. CASE op = claim
  BY <1>3, ClaimUses
<1>4. CASE op = Apply(Object(r, "Service", name), {})
  BY <1>4, ApplyUses
<1>5. CASE op = Run(Object(r, "Deployment", name), {"settings"})
  <2>1. name[2] = "prometheus"
    OBVIOUS
  <2> HIDE DEF name
  <2>2. Uses(r, s, op) = {Account(r, "prometheus")} \cup UsedByPods(r, s, "prometheus")
    BY <1>5, <2>1, RunUses DEF Workloads
  <2>3. UsedByPods(r, s, "prometheus") = {ClaimObject(r, <<"data", r.name, "prometheus">>)}
    BY DEF UsedByPods, ClaimObject
  <2>4. claim \in ops /\ claim.verb = "apply"
        /\ claim.object = ClaimObject(r, <<"data", r.name, "prometheus">>)
    <3>1. claim \in ops
      BY DEF PrometheusOps
    <3>2. claim.verb = "apply"
      BY DEF ClaimOp, Op
    <3> QED BY <3>1, <3>2, OnlyClaim
  <2> HIDE DEF claim
  <2>5. ClaimObject(r, <<"data", r.name, "prometheus">>) \in WrittenBy(ops)
    BY <2>4, IsWrittenBy
  <2> QED BY <1>1, <2>2, <2>3, <2>5, AccountsWritten
<1> QED BY <1>2, <1>3, <1>4, <1>5 DEF PrometheusOps

LEMMA KeeperUses ==
  ASSUME NEW r, NEW s, NEW ops, RoleOps(r, s) \subseteq ops, Brings(r, s, ops),
         ~s.externalClickhouse, NEW op \in KeeperOps(r, s)
  PROVE  Uses(r, s, op) \subseteq WrittenBy(ops)
<1> DEFINE name == <<r.name, "clickhouse-keeper">>
<1>1. AccountOps(r, "clickhouse-keeper", "nonroot") \subseteq ops
  BY DEF KeeperOps, Brings
<1>2. CASE op \in AccountOps(r, "clickhouse-keeper", "nonroot")
  BY <1>1, <1>2, AccountsUse
<1>3. CASE op = Apply(Object(r, "Service", <<r.name, "clickhouse-keeper-headless">>), {})
  BY <1>3, ApplyUses
<1>4. CASE \E i : op = ClaimOp(r, s, "clickhouse-keeper", <<i>>, {"class", "keeperSize"})
  BY <1>4, ClaimUses
<1>5. CASE op = Run(Object(r, "StatefulSet", name), {"settings", "keepers"})
  <2>1. name[2] = "clickhouse-keeper"
    OBVIOUS
  <2> HIDE DEF name
  <2>2. Uses(r, s, op) = {Account(r, "clickhouse-keeper")} \cup UsedByPods(r, s, "clickhouse-keeper")
    BY <1>5, <2>1, RunUses DEF Workloads
  <2>3. UsedByPods(r, s, "clickhouse-keeper")
          = {Object(r, "Service", <<r.name, "clickhouse-keeper-headless">>)}
    BY DEF UsedByPods
  <2>4. Account(r, "clickhouse-keeper") \in WrittenBy(ops)
    BY <1>1, AccountsWritten
  <2>5. Object(r, "Service", <<r.name, "clickhouse-keeper-headless">>) \in WrittenBy(ops)
    BY DatabasesWritten
  <2> QED BY <2>2, <2>3, <2>4, <2>5
<1> QED BY <1>2, <1>3, <1>4, <1>5 DEF KeeperOps

LEMMA ClickhouseUses ==
  ASSUME NEW r, NEW s, NEW ops, RoleOps(r, s) \subseteq ops, Brings(r, s, ops),
         ~s.externalClickhouse, NEW op \in ClickhouseOps(r, s)
  PROVE  Uses(r, s, op) \subseteq WrittenBy(ops)
<1>1. AccountOps(r, "clickhouse", "nonroot") \subseteq ops
  BY DEF ClickhouseOps, Brings
<1>2. CASE op \in AccountOps(r, "clickhouse", "nonroot")
  BY <1>1, <1>2, AccountsUse
<1>3. CASE \E name : op = Apply(Object(r, "Service", <<r.name, name>>), {})
  BY <1>3, ApplyUses
<1>4. CASE \E i, j : op = ClaimOp(r, s, "clickhouse", <<"shard", i, j>>, {"class", "clickhouseSize"})
  BY <1>4, ClaimUses
<1>5. ASSUME NEW i, op = ShardSet(r, i)
      PROVE  Uses(r, s, op) \subseteq WrittenBy(ops)
  <2> DEFINE name == <<r.name, "clickhouse", "shard", i>>
             reads == {"settings", "shards", "clickhouseReplicas", "keepers"}
  <2>1. name[2] = "clickhouse"
    OBVIOUS
  <2>2. op = Run(Object(r, "StatefulSet", name), reads)
    BY <1>5 DEF ShardSet
  <2> HIDE DEF name, reads
  <2>3. Uses(r, s, op) = {Account(r, "clickhouse")} \cup UsedByPods(r, s, "clickhouse")
    BY <2>1, <2>2, RunUses DEF Workloads
  <2>4. UsedByPods(r, s, "clickhouse")
          = {Object(r, "Secret", <<r.name, "clickhouse">>),
             Object(r, "Service", <<r.name, "clickhouse-headless">>)}
    BY DEF UsedByPods
  <2>5. Account(r, "clickhouse") \in WrittenBy(ops)
    BY <1>1, AccountsWritten
  <2>6. {Object(r, "Secret", <<r.name, "clickhouse">>),
         Object(r, "Service", <<r.name, "clickhouse-headless">>)} \subseteq WrittenBy(ops)
    BY DatabasesWritten
  <2> QED BY <2>3, <2>4, <2>5, <2>6
<1>6. \/ op \in AccountOps(r, "clickhouse", "nonroot")
      \/ \E name : op = Apply(Object(r, "Service", <<r.name, name>>), {})
      \/ \E i, j : op = ClaimOp(r, s, "clickhouse", <<"shard", i, j>>, {"class", "clickhouseSize"})
      \/ \E i : op = ShardSet(r, i)
  <2> DEFINE A == 0 .. Times(OneIfZero(s.shards)) - 1
             B == 0 .. Times(OneIfZero(s.clickhouseReplicas)) - 1
             claim(i, j) == ClaimOp(r, s, "clickhouse", <<"shard", i, j>>, {"class", "clickhouseSize"})
             claims == {claim(i, j) : i \in A, j \in B}
  <2>1. \/ op \in AccountOps(r, "clickhouse", "nonroot")
        \/ op = Apply(Object(r, "Service", <<r.name, "clickhouse-headless">>), {})
        \/ op = Apply(Object(r, "Service", <<r.name, "clickhouse">>), {})
        \/ op \in claims
        \/ \E i : op = ShardSet(r, i)
    BY DEF ClickhouseOps
  <2>2. ASSUME op \in claims PROVE \E i, j : op = claim(i, j)
    <3> HIDE DEF A, B, claim
    <3>1. PICK i \in A, j \in B : op = claim(i, j)
      BY <2>2
    <3> QED BY <3>1
  <2> HIDE DEF claims
  <2> QED BY <2>1, <2>2
<1> QED BY <1>2, <1>3, <1>4, <1>5, <1>6

LEMMA PlanUses ==
  ASSUME NEW r, NEW s, NEW op \in PlannedOps(r, s)
  PROVE  Uses(r, s, op) \subseteq WrittenBy(PlannedOps(r, s))
<1> DEFINE ops == PlannedOps(r, s)
<1>1. RoleOps(r, s) \subseteq ops /\ NodeAgentOps(r) \subseteq ops /\ ClusterAgentOps(r) \subseteq ops
  BY DEF PlannedOps
<1>2. ~s.agentsOnly => ServerOps(r, s) \subseteq ops /\ Brings(r, s, ops)
  BY DEF PlannedOps, Brings
<1>3. \/ op \in RoleOps(r, s) \/ op \in NodeAgentOps(r) \/ op \in ClusterAgentOps(r)
      \/ /\ ~s.agentsOnly
         /\ \/ op \in ServerOps(r, s)
            \/ ~s.externalPrometheus /\ op \in PrometheusOps(r, s)
            \/ ~s.externalClickhouse /\ (\/ op = Ensure(PasswordSecret(r))
                                         \/ op \in KeeperOps(r, s)
                                         \/ op \in ClickhouseOps(r, s))
  BY DEF PlannedOps
<1> HIDE DEF ops
<1>4. CASE op \in RoleOps(r, s)
  BY <1>4, RolesUse
<1>5. CASE op \in NodeAgentOps(r)
  BY <1>1, <1>2, <1>5, NodeAgentUses DEF ops
<1>6. CASE op \in ClusterAgentOps(r)
  BY <1>1, <1>2, <1>6, ClusterAgentUses DEF ops
<1>7. CASE ~s.agentsOnly /\ op \in ServerOps(r, s)
  BY <1>1, <1>2, <1>7, ServerUses DEF ops
<1>8. CASE ~s.agentsOnly /\ ~s.externalPrometheus /\ op \in PrometheusOps(r, s)
  <2>1. PrometheusOps(r, s) \subseteq ops
    BY <1>2, <1>8 DEF Brings
  <2> QED BY <1>1, <1>8, <2>1, PrometheusUses DEF ops
<1>9. CASE op = Ensure(PasswordSecret(r))
  <2>1. ~op.image /\ op.object.kind = "Secret"
    BY <1>9 DEF Ensure, PasswordSecret, Op, Object
  <2> QED BY <2>1, NothingUsed
<1>10. CASE ~s.agentsOnly /\ ~s.externalClickhouse /\ op \in KeeperOps(r, s)
  BY <1>1, <1>2, <1>10, KeeperUses DEF ops
<1>11. CASE ~s.agentsOnly /\ ~s.externalClickhouse /\ op \in ClickhouseOps(r, s)
  BY <1>1, <1>2, <1>11, ClickhouseUses DEF ops
<1> QED BY <1>3, <1>4, <1>5, <1>6, <1>7, <1>8, <1>9, <1>10, <1>11

(* Whatever combination of external services and agentsOnly its users      *)
(* switch to, the objects that the pods and the bindings of a plan name    *)
(* are written by the same Reconcile (the constructors in controller/).    *)
THEOREM UsedIsAlwaysWritten == LayoutSpec => []UsedIsWritten
<1>1. IsSpec(spec) => UsedIsWritten
  <2> SUFFICES ASSUME IsSpec(spec), NEW op \in PlanOps
               PROVE  Uses(Resource, V, op) \subseteq Written
    BY DEF UsedIsWritten
  <2>1. PlanOps = PlannedOps(Resource, V)
    BY PlanOfSpec
  <2>2. Written = WrittenBy(PlanOps)
    BY DEF Written, WrittenBy
  <2> QED BY <2>1, <2>2, PlanUses
<1> QED BY <1>1, SpecsStaySpecs, PTL
=============================================================================
