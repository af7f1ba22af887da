------------------------ MODULE ReconcilePlanProofs ------------------------
(***************************************************************************)
(* What a plan contains, for every resource and every spec: a plan is the  *)
(* concatenation of the operations of its components, so its operations    *)
(* are the union of theirs.                                                *)
(***************************************************************************)
EXTENDS ReconcilePlan, FiniteSetTheorems, TLAPS

IsList(list) == list \in Seq(ToSet(list))

-----------------------------------------------------------------------------
(* Lists and what is in them.                                              *)
LEMMA FunctionIsList ==
  ASSUME NEW n \in Nat, NEW list, list = [i \in 1 .. n |-> list[i]]
  PROVE  IsList(list) /\ Len(list) = n
<1>1. DOMAIN list = 1 .. n
  OBVIOUS
<1>2. \A i \in 1 .. n : list[i] \in ToSet(list)
  BY <1>1 DEF ToSet
<1>3. list \in [1 .. n -> ToSet(list)]
  BY <1>2
<1> QED BY <1>3 DEF IsList

LEMMA ConcatList ==
  ASSUME NEW a, NEW b, IsList(a), IsList(b)
  PROVE  IsList(a \o b) /\ ToSet(a \o b) = ToSet(a) \cup ToSet(b)
<1> DEFINE S == ToSet(a) \cup ToSet(b)
<1>1. a \in Seq(S) /\ b \in Seq(S)
  BY DEF IsList
<1>2. /\ a \o b \in Seq(S)
      /\ Len(a \o b) = Len(a) + Len(b)
      /\ Len(a) \in Nat /\ Len(b) \in Nat
      /\ DOMAIN a = 1 .. Len(a) /\ DOMAIN b = 1 .. Len(b)
      /\ DOMAIN (a \o b) = 1 .. Len(a) + Len(b)
      /\ \A i \in 1 .. Len(a) + Len(b) :
           (a \o b)[i] = IF i <= Len(a) THEN a[i] ELSE b[i - Len(a)]
  BY <1>1
<1> HIDE DEF S
<1> DEFINE c == a \o b
<1>3. ASSUME NEW x \in ToSet(c) PROVE x \in ToSet(a) \cup ToSet(b)
  <2>1. PICK i \in 1 .. Len(a) + Len(b) : x = c[i]
    BY <1>2, <1>3 DEF ToSet
  <2>2. CASE i <= Len(a)
    BY <1>2, <2>1, <2>2 DEF ToSet
  <2>3. CASE ~(i <= Len(a))
    <3>1. i - Len(a) \in 1 .. Len(b) /\ x = b[i - Len(a)]
      BY <1>2, <2>1, <2>3
    <3> QED BY <1>2, <3>1 DEF ToSet
  <2> QED BY <2>2, <2>3
<1>4. ASSUME NEW x \in ToSet(a) PROVE x \in ToSet(c)
  <2>1. PICK i \in 1 .. Len(a) : x = a[i]
    BY <1>2, <1>4 DEF ToSet
  <2>2. i \in 1 .. Len(a) + Len(b) /\ c[i] = x
    BY <1>2, <2>1
  <2> QED BY <1>2, <2>2 DEF ToSet
<1>5. ASSUME NEW x \in ToSet(b) PROVE x \in ToSet(c)
  <2>1. PICK i \in 1 .. Len(b) : x = b[i]
    BY <1>2, <1>5 DEF ToSet
  <2>2. i + Len(a) \in 1 .. Len(a) + Len(b) /\ c[i + Len(a)] = x
    BY <1>2, <2>1
  <2> QED BY <1>2, <2>2 DEF ToSet
<1>6. ToSet(c) = ToSet(a) \cup ToSet(b)
  BY <1>3, <1>4, <1>5
<1> QED BY <1>2, <1>6 DEF IsList, S

LEMMA ConcatAt ==
  ASSUME NEW a, NEW b, IsList(a), IsList(b)
  PROVE  /\ Len(a) \in Nat /\ Len(b) \in Nat
         /\ DOMAIN a = 1 .. Len(a) /\ DOMAIN b = 1 .. Len(b)
         /\ DOMAIN (a \o b) = 1 .. Len(a) + Len(b)
         /\ \A i \in 1 .. Len(a) + Len(b) :
              (a \o b)[i] = IF i <= Len(a) THEN a[i] ELSE b[i - Len(a)]
<1> DEFINE S == ToSet(a) \cup ToSet(b)
<1>1. a \in Seq(S) /\ b \in Seq(S)
  BY DEF IsList
<1> HIDE DEF S
<1> QED BY <1>1

LEMMA ConcatFirst ==
  ASSUME NEW a, NEW b, IsList(a), IsList(b), NEW i \in 1 .. Len(a)
  PROVE  (a \o b)[i] = a[i]
<1>1. Len(a) \in Nat /\ Len(b) \in Nat
  BY ConcatAt
<1>2. i \in 1 .. Len(a) + Len(b) /\ i <= Len(a)
  BY <1>1
<1> QED BY <1>2, ConcatAt

LEMMA NoElements == IsList(<<>>) /\ ToSet(<<>>) = {}
BY DEF IsList, ToSet

LEMMA OneElement ==
  ASSUME NEW x
  PROVE  IsList(<<x>>) /\ ToSet(<<x>>) = {x}
BY DEF IsList, ToSet

LEMMA TwoElements ==
  ASSUME NEW x, NEW y
  PROVE  IsList(<<x, y>>) /\ ToSet(<<x, y>>) = {x, y}
BY DEF IsList, ToSet

LEMMA ThreeElements ==
  ASSUME NEW x, NEW y, NEW z
  PROVE  IsList(<<x, y, z>>) /\ ToSet(<<x, y, z>>) = {x, y, z}
BY DEF IsList, ToSet

(* The elements of a finite set, in some order. *)
LEMMA SetIsListed ==
  ASSUME NEW S, IsFiniteSet(S)
  PROVE  /\ SetToSeq(S) = [i \in 1 .. Cardinality(S) |-> SetToSeq(S)[i]]
         /\ Cardinality(S) \in Nat
         /\ ToSet(SetToSeq(S)) = S
<1> DEFINE n == Cardinality(S)
<1>1. n \in Nat /\ ExistsBijection(1 .. n, S)
  BY FS_CardinalityType
<1>2. PICK f \in Bijection(1 .. n, S) : TRUE
  BY <1>1 DEF ExistsBijection
<1>3. f \in [1 .. n -> S] /\ IsInjective(f)
  BY <1>2 DEF Bijection, Injection, IsInjective
<1> DEFINE g == SetToSeq(S)
<1>4. g \in [1 .. n -> S] /\ IsInjective(g)
  BY <1>3 DEF SetToSeq
<1> HIDE DEF g
<1>5. IsFiniteSet(1 .. n) /\ Cardinality(1 .. n) = n
  BY <1>1, FS_Interval
<1>6. g \in Injection(1 .. n, S)
  BY <1>4 DEF Injection, IsInjective
<1>7. g \in Surjection(1 .. n, S)
  BY <1>5, <1>6, FS_Injection
<1>8. ToSet(g) = S
  BY <1>4, <1>7 DEF ToSet, Surjection
<1> QED BY <1>1, <1>4, <1>8 DEF g

-----------------------------------------------------------------------------
(* The counts of the code.                                                 *)
LEMMA CountsAreNatural ==
  ASSUME NEW n \in Int
  PROVE  /\ Times(n) \in Nat
         /\ OneIfUnset(n) \in Nat \ {0}
         /\ OneIfZero(n) \in Int
BY DEF Times, OneIfUnset, OneIfZero

LEMMA OrdinalsList ==
  ASSUME NEW n \in Int
  PROVE  IsList(Ordinals(n)) /\ ToSet(Ordinals(n)) = {<<i>> : i \in 0 .. n - 1}
<1> DEFINE list == Ordinals(n)
           size == Times(n)
<1>1. size \in Nat /\ 0 .. n - 1 = 0 .. size - 1
  BY DEF Times
<1>2. list = [i \in 1 .. size |-> <<i - 1>>]
  BY DEF Ordinals
<1> HIDE DEF list, size
<1>3. DOMAIN list = 1 .. size /\ \A i \in 1 .. size : list[i] = <<i - 1>>
  BY <1>2
<1>4. list = [i \in 1 .. size |-> list[i]]
  BY <1>2
<1>5. IsList(list)
  BY <1>1, <1>4, FunctionIsList
<1>6. ToSet(list) = {<<i>> : i \in 0 .. size - 1}
  <2>1. ASSUME NEW x \in ToSet(list) PROVE x \in {<<i>> : i \in 0 .. size - 1}
    <3>1. PICK j \in 1 .. size : x = list[j]
      BY <1>3, <2>1 DEF ToSet
    <3>2. x = <<j - 1>> /\ j - 1 \in 0 .. size - 1
      BY <1>1, <1>3, <3>1
    <3> QED BY <3>2
  <2>2. ASSUME NEW i \in 0 .. size - 1 PROVE <<i>> \in ToSet(list)
    <3>1. i + 1 \in 1 .. size /\ (i + 1) - 1 = i
      BY <1>1
    <3>2. list[i + 1] = <<(i + 1) - 1>>
      BY <1>3, <3>1
    <3> QED BY <1>3, <3>1, <3>2 DEF ToSet
  <2> QED BY <2>1, <2>2
<1> QED BY <1>1, <1>5, <1>6 DEF list

(* The loop over the replicas in the loop over the shards makes every pair *)
(* of a shard and a replica.                                               *)
LEMMA PairNumber ==
  ASSUME NEW a \in Nat, NEW b \in Nat, NEW s \in 0 .. a - 1, NEW i \in 0 .. b - 1
  PROVE  /\ s * b + i + 1 \in 1 .. a * b
         /\ (s * b + i) \div b = s /\ (s * b + i) % b = i
<1>1. b \in Nat \ {0} /\ s \in Nat /\ i \in Nat /\ i < b /\ s + 1 <= a
  OBVIOUS
<1>2. s * b \in Nat /\ a * b \in Nat /\ (s + 1) * b = s * b + b
  BY <1>1
<1>3. (s + 1) * b <= a * b
  BY <1>1
<1>4. s * b + i + 1 \in 1 .. a * b
  BY <1>1, <1>2, <1>3
<1>5. (s * b + i) \div b = s /\ (s * b + i) % b = i
  BY <1>1, <1>2
<1> QED BY <1>4, <1>5

LEMMA NumberPair ==
  ASSUME NEW a \in Nat, NEW b \in Nat, NEW k \in 1 .. a * b
  PROVE  (k - 1) \div b \in 0 .. a - 1 /\ (k - 1) % b \in 0 .. b - 1
<1>1. b # 0 /\ a # 0
  BY SMT
<1>2. k - 1 \in Nat /\ k - 1 < a * b
  OBVIOUS
<1>3. (k - 1) % b \in 0 .. b - 1
  BY <1>1, <1>2
<1> DEFINE q == (k - 1) \div b
<1>4. q \in Nat /\ k - 1 = (q * b) + ((k - 1) % b)
  BY <1>1, <1>2
<1>5. q * b < a * b
  BY <1>2, <1>3, <1>4
<1> HIDE DEF q
<1>6. q < a
  BY <1>1, <1>4, <1>5
<1> QED BY <1>3, <1>4, <1>6 DEF q

LEMMA ShardSuffixesList ==
  ASSUME NEW a \in Nat, NEW b \in Nat
  PROVE  /\ IsList(ShardSuffixes(a, b))
         /\ ToSet(ShardSuffixes(a, b)) =
              {<<"shard", s, i>> : s \in 0 .. a - 1, i \in 0 .. b - 1}
<1> DEFINE list == ShardSuffixes(a, b)
           size == a * b
<1>1. size \in Nat
  OBVIOUS
<1>2. list = [k \in 1 .. size |-> <<"shard", (k - 1) \div b, (k - 1) % b>>]
  BY DEF ShardSuffixes
<1>3. ASSUME NEW k \in 1 .. size
      PROVE  (k - 1) \div b \in 0 .. a - 1 /\ (k - 1) % b \in 0 .. b - 1
  BY NumberPair
<1>4. ASSUME NEW s \in 0 .. a - 1, NEW i \in 0 .. b - 1
      PROVE  \E k \in 1 .. size : (k - 1) \div b = s /\ (k - 1) % b = i
  <2> DEFINE k == s * b + i + 1
  <2>1. k \in 1 .. size /\ (s * b + i) \div b = s /\ (s * b + i) % b = i
    BY PairNumber
  <2>2. k - 1 = s * b + i
    OBVIOUS
  <2> HIDE DEF k, size
  <2> QED BY <2>1, <2>2
<1> HIDE DEF list, size
<1>5. /\ DOMAIN list = 1 .. size
      /\ \A k \in 1 .. size : list[k] = <<"shard", (k - 1) \div b, (k - 1) % b>>
      /\ list = [k \in 1 .. size |-> list[k]]
  BY <1>2
<1>6. IsList(list)
  BY <1>1, <1>5, FunctionIsList
<1>7. ASSUME NEW x \in ToSet(list)
      PROVE  x \in {<<"shard", s, i>> : s \in 0 .. a - 1, i \in 0 .. b - 1}
  <2>1. PICK k \in 1 .. size : x = list[k]
    BY <1>5, <1>7 DEF ToSet
  <2> DEFINE s == (k - 1) \div b
             i == (k - 1) % b
  <2>2. x = <<"shard", s, i>>
    BY <1>5, <2>1
  <2>3. s \in 0 .. a - 1 /\ i \in 0 .. b - 1
    BY <1>3
  <2> HIDE DEF s, i
  <2> QED BY <2>2, <2>3
<1>8. ASSUME NEW s \in 0 .. a - 1, NEW i \in 0 .. b - 1
      PROVE  <<"shard", s, i>> \in ToSet(list)
  <2>1. PICK k \in 1 .. size : (k - 1) \div b = s /\ (k - 1) % b = i
    BY <1>4
  <2>2. list[k] = <<"shard", s, i>>
    BY <1>5, <2>1
  <2> QED BY <1>5, <2>2 DEF ToSet
<1> QED BY <1>6, <1>7, <1>8 DEF list

-----------------------------------------------------------------------------
(* The operations of the components.                                       *)
ClaimOp(r, spec, component, suffix, reads) ==
  Op("apply", Object(r, "PersistentVolumeClaim", <<"data", r.name, component>> \o suffix),
     reads, FALSE, component \in spec.retain)

LEMMA ClaimsList ==
  ASSUME NEW r, NEW spec, NEW component, NEW suffixes, NEW reads, IsList(suffixes)
  PROVE  /\ IsList(Claims(r, spec, component, suffixes, reads))
         /\ ToSet(Claims(r, spec, component, suffixes, reads)) =
              {ClaimOp(r, spec, component, x, reads) : x \in ToSet(suffixes)}
<1> DEFINE list == Claims(r, spec, component, suffixes, reads)
           f(x) == ClaimOp(r, spec, component, x, reads)
<1>1. Len(suffixes) \in Nat /\ DOMAIN suffixes = 1 .. Len(suffixes)
  BY DEF IsList
<1>2. list = [i \in 1 .. Len(suffixes) |-> f(suffixes[i])]
  BY DEF Claims, ClaimOp
<1> HIDE DEF list, f
<1>3. IsList(list)
  BY <1>1, <1>2, FunctionIsList
<1>4. ToSet(list) = {f(x) : x \in ToSet(suffixes)}
  BY <1>1, <1>2 DEF ToSet
<1> QED BY <1>3, <1>4 DEF list, f

AccountOps(r, component, scc) ==
  {Ensure(Object(r, "ServiceAccount", <<r.name, component>>)),
   Ensure(Object(r, "RoleBinding", <<r.name, component, scc>>))}

LEMMA AccountList ==
  ASSUME NEW r, NEW component, NEW scc
  PROVE  /\ IsList(ServiceAccount(r, component, scc))
         /\ ToSet(ServiceAccount(r, component, scc)) = AccountOps(r, component, scc)
BY TwoElements DEF ServiceAccount, AccountOps

KeyOp(r, name) == Op("ensure", Object(r, "Secret", <<name>>), {}, FALSE, TRUE)

RoleOps(r, spec) ==
  {Apply(Object(r, "Role", <<r.name, "nonroot">>), {}),
   Apply(Object(r, "Role", <<r.name, "privileged">>), {}),
   Op("validate", Object(r, "Coroot", <<r.name>>), {}, FALSE, FALSE)}
  \cup {KeyOp(r, name) : name \in spec.apiKeySecrets}

LEMMA RolesList ==
  ASSUME NEW r, NEW spec, IsFiniteSet(spec.apiKeySecrets)
  PROVE  /\ IsList(RolesAndValidation(r, spec))
         /\ ToSet(RolesAndValidation(r, spec)) = RoleOps(r, spec)
<1> DEFINE names == SetToSeq(spec.apiKeySecrets)
           n == Cardinality(spec.apiKeySecrets)
           keys == [i \in 1 .. Len(names) |-> KeyOp(r, names[i])]
           roles == << Apply(Object(r, "Role", <<r.name, "nonroot">>), {}),
                       Apply(Object(r, "Role", <<r.name, "privileged">>), {}),
                       Op("validate", Object(r, "Coroot", <<r.name>>), {}, FALSE, FALSE) >>
<1>1. /\ names = [i \in 1 .. n |-> names[i]] /\ n \in Nat
      /\ ToSet(names) = spec.apiKeySecrets
  BY SetIsListed
<1>2. RolesAndValidation(r, spec) = roles \o keys
  BY DEF RolesAndValidation, KeyOp
<1>4. IsList(roles)
      /\ ToSet(roles) = {Apply(Object(r, "Role", <<r.name, "nonroot">>), {}),
                         Apply(Object(r, "Role", <<r.name, "privileged">>), {}),
                         Op("validate", Object(r, "Coroot", <<r.name>>), {}, FALSE, FALSE)}
  BY ThreeElements
<1> HIDE DEF names, n
<1>5. IsList(names) /\ Len(names) = n /\ DOMAIN names = 1 .. n
  BY <1>1, FunctionIsList
<1>6. keys = [i \in 1 .. n |-> keys[i]]
  BY <1>5
<1>7. IsList(keys)
  BY <1>1, <1>6, FunctionIsList
<1>8. ToSet(keys) = {KeyOp(r, name) : name \in spec.apiKeySecrets}
  BY <1>1, <1>5 DEF ToSet
<1> HIDE DEF keys, roles
<1> QED BY <1>2, <1>4, <1>7, <1>8, ConcatList DEF RoleOps

NodeAgentOps(r) ==
  AccountOps(r, "node-agent", "privileged")
  \cup {Run(Object(r, "DaemonSet", <<r.name, "node-agent">>), {"settings", "agentsOnly"})}

LEMMA NodeAgentList ==
  ASSUME NEW r
  PROVE  IsList(NodeAgent(r)) /\ ToSet(NodeAgent(r)) = NodeAgentOps(r)
BY AccountList, OneElement, ConcatList DEF NodeAgent, NodeAgentOps

ClusterAgentOps(r) ==
  AccountOps(r, "cluster-agent", "nonroot")
  \cup {Op("apply", ClusterRoleOf(r), {}, FALSE, TRUE),
        Op("ensure", ClusterRoleBindingOf(r), {"namespace"}, FALSE, TRUE),
        Run(Object(r, "Deployment", <<r.name, "cluster-agent">>), {"settings", "agentsOnly"})}

LEMMA ClusterAgentList ==
  ASSUME NEW r
  PROVE  IsList(ClusterAgent(r)) /\ ToSet(ClusterAgent(r)) = ClusterAgentOps(r)
<1> DEFINE own == << Op("apply", ClusterRoleOf(r), {}, FALSE, TRUE),
                     Op("ensure", ClusterRoleBindingOf(r), {"namespace"}, FALSE, TRUE),
                     Run(Object(r, "Deployment", <<r.name, "cluster-agent">>),
                         {"settings", "agentsOnly"}) >>
<1>1. IsList(own)
      /\ ToSet(own) = {Op("apply", ClusterRoleOf(r), {}, FALSE, TRUE),
                       Op("ensure", ClusterRoleBindingOf(r), {"namespace"}, FALSE, TRUE),
                       Run(Object(r, "Deployment", <<r.name, "cluster-agent">>),
                           {"settings", "agentsOnly"})}
  BY ThreeElements
<1> DEFINE accounts == ServiceAccount(r, "cluster-agent", "nonroot")
<1>2. IsList(accounts) /\ ToSet(accounts) = AccountOps(r, "cluster-agent", "nonroot")
  BY AccountList
<1>3. ClusterAgent(r) = accounts \o own
  BY DEF ClusterAgent
<1> HIDE DEF own, accounts
<1> QED BY <1>1, <1>2, <1>3, ConcatList DEF ClusterAgentOps

ServerOps(r, spec) ==
  AccountOps(r, "coroot", "nonroot")
  \cup {ClaimOp(r, spec, "coroot", <<i>>, {"class", "size"}) :
          i \in 0 .. OneIfZero(spec.replicas) - 1}
  \cup {Apply(Object(r, "ConfigMap", <<r.name, "coroot">>),
              {"settings", "readsSecret", "apiKeySecrets"}),
        CorootStatefulSet(r),
        Apply(Object(r, "Service", <<r.name, "coroot">>), {"settings"})}
  \cup {Op("legacy", LegacyDeployment(r), {}, FALSE, FALSE),
        Op("legacyDone", LegacyDeployment(r), {}, FALSE, FALSE)}
  \cup {CorootIngress(r, spec)}

LEMMA ServerList ==
  ASSUME NEW r, NEW spec, spec.replicas \in Int
  PROVE  IsList(CorootServer(r, spec)) /\ ToSet(CorootServer(r, spec)) = ServerOps(r, spec)
<1> DEFINE replicas == OneIfZero(spec.replicas)
           accounts == ServiceAccount(r, "coroot", "nonroot")
           claims == CorootClaims(r, spec)
           workload == << Apply(Object(r, "ConfigMap", <<r.name, "coroot">>),
                                {"settings", "readsSecret", "apiKeySecrets"}),
                          CorootStatefulSet(r),
                          Apply(Object(r, "Service", <<r.name, "coroot">>), {"settings"}) >>
           cleanup == LegacyCleanup(r)
           ingress == << CorootIngress(r, spec) >>
<1>1. replicas \in Int
  BY CountsAreNatural
<1>2. IsList(claims)
      /\ ToSet(claims) = {ClaimOp(r, spec, "coroot", <<i>>, {"class", "size"}) :
                            i \in 0 .. replicas - 1}
  <2>1. claims = Claims(r, spec, "coroot", Ordinals(replicas), {"class", "size"})
    BY DEF CorootClaims
  <2>2. IsList(Ordinals(replicas)) /\ ToSet(Ordinals(replicas)) = {<<i>> : i \in 0 .. replicas - 1}
    BY <1>1, OrdinalsList
  <2> HIDE DEF claims, replicas
  <2>3. ToSet(claims) = {ClaimOp(r, spec, "coroot", x, {"class", "size"}) :
                           x \in {<<i>> : i \in 0 .. replicas - 1}}
    BY <2>1, <2>2, ClaimsList
  <2> QED BY <2>1, <2>2, <2>3, ClaimsList
<1>3. IsList(workload)
      /\ ToSet(workload) = {Apply(Object(r, "ConfigMap", <<r.name, "coroot">>),
                                  {"settings", "readsSecret", "apiKeySecrets"}),
                            CorootStatefulSet(r),
                            Apply(Object(r, "Service", <<r.name, "coroot">>), {"settings"})}
  BY ThreeElements
<1>4. IsList(cleanup)
      /\ ToSet(cleanup) = {Op("legacy", LegacyDeployment(r), {}, FALSE, FALSE),
                           Op("legacyDone", LegacyDeployment(r), {}, FALSE, FALSE)}
  BY TwoElements DEF LegacyCleanup
<1>5. IsList(ingress) /\ ToSet(ingress) = {CorootIngress(r, spec)}
  BY OneElement
<1>6. IsList(accounts) /\ ToSet(accounts) = AccountOps(r, "coroot", "nonroot")
  BY AccountList
<1>7. CorootServer(r, spec) = (((accounts \o claims) \o workload) \o cleanup) \o ingress
  BY DEF CorootServer
<1>8. ServerOps(r, spec) =
        (((ToSet(accounts) \cup ToSet(claims)) \cup ToSet(workload)) \cup ToSet(cleanup))
        \cup ToSet(ingress)
  BY <1>2, <1>3, <1>4, <1>5, <1>6 DEF ServerOps
<1> HIDE DEF accounts, claims, workload, cleanup, ingress, replicas
<1>9. IsList(accounts \o claims)
      /\ ToSet(accounts \o claims) = ToSet(accounts) \cup ToSet(claims)
  BY <1>2, <1>6, ConcatList
<1>10. IsList((accounts \o claims) \o workload)
       /\ ToSet((accounts \o claims) \o workload)
            = (ToSet(accounts) \cup ToSet(claims)) \cup ToSet(workload)
  BY <1>3, <1>9, ConcatList
<1>11. IsList(((accounts \o claims) \o workload) \o cleanup)
       /\ ToSet(((accounts \o claims) \o workload) \o cleanup)
            = ((ToSet(accounts) \cup ToSet(claims)) \cup ToSet(workload)) \cup ToSet(cleanup)
  BY <1>4, <1>10, ConcatList
<1> QED BY <1>5, <1>7, <1>8, <1>11, ConcatList

PrometheusOps(r, spec) ==
  AccountOps(r, "prometheus", "nonroot")
  \cup {ClaimOp(r, spec, "prometheus", <<>>, {"prometheusClass", "prometheusSize"})}
  \cup {Run(Object(r, "Deployment", <<r.name, "prometheus">>), {"settings"}),
        Apply(Object(r, "Service", <<r.name, "prometheus">>), {})}

LEMMA PrometheusList ==
  ASSUME NEW r, NEW spec
  PROVE  IsList(Prometheus(r, spec)) /\ ToSet(Prometheus(r, spec)) = PrometheusOps(r, spec)
<1> DEFINE accounts == ServiceAccount(r, "prometheus", "nonroot")
           claims == Claims(r, spec, "prometheus", << <<>> >>,
                            {"prometheusClass", "prometheusSize"})
           workload == << Run(Object(r, "Deployment", <<r.name, "prometheus">>), {"settings"}),
                          Apply(Object(r, "Service", <<r.name, "prometheus">>), {}) >>
<1>1. IsList(accounts) /\ ToSet(accounts) = AccountOps(r, "prometheus", "nonroot")
  BY AccountList
<1>2. IsList(claims)
      /\ ToSet(claims) =
           {ClaimOp(r, spec, "prometheus", <<>>, {"prometheusClass", "prometheusSize"})}
  <2>1. IsList(<< <<>> >>) /\ ToSet(<< <<>> >>) = { <<>> }
    BY OneElement
  <2>2. IsList(claims)
        /\ ToSet(claims) = {ClaimOp(r, spec, "prometheus", x,
                                    {"prometheusClass", "prometheusSize"}) : x \in { <<>> }}
    BY <2>1, ClaimsList
  <2> QED BY <2>2
<1>3. IsList(workload)
      /\ ToSet(workload) =
           {Run(Object(r, "Deployment", <<r.name, "prometheus">>), {"settings"}),
            Apply(Object(r, "Service", <<r.name, "prometheus">>), {})}
  BY TwoElements
<1>4. Prometheus(r, spec) = (accounts \o claims) \o workload
  BY DEF Prometheus
<1>5. PrometheusOps(r, spec) = (ToSet(accounts) \cup ToSet(claims)) \cup ToSet(workload)
  BY <1>1, <1>2, <1>3 DEF PrometheusOps
<1> HIDE DEF accounts, claims, workload
<1>6. IsList(accounts \o claims)
      /\ ToSet(accounts \o claims) = ToSet(accounts) \cup ToSet(claims)
  BY <1>1, <1>2, ConcatList
<1> QED BY <1>3, <1>4, <1>5, <1>6, ConcatList

KeeperOps(r, spec) ==
  AccountOps(r, "clickhouse-keeper", "nonroot")
  \cup {Apply(Object(r, "Service", <<r.name, "clickhouse-keeper-headless">>), {})}
  \cup {ClaimOp(r, spec, "clickhouse-keeper", <<i>>, {"class", "keeperSize"}) :
          i \in 0 .. Keepers(spec) - 1}
  \cup {Run(Object(r, "StatefulSet", <<r.name, "clickhouse-keeper">>), {"settings", "keepers"})}

LEMMA KeeperList ==
  ASSUME NEW r, NEW spec, spec.keepers \in Int
  PROVE  IsList(ClickhouseKeeper(r, spec)) /\ ToSet(ClickhouseKeeper(r, spec)) = KeeperOps(r, spec)
<1> DEFINE n == Keepers(spec)
           accounts == ServiceAccount(r, "clickhouse-keeper", "nonroot")
           service == << Apply(Object(r, "Service", <<r.name, "clickhouse-keeper-headless">>), {}) >>
           claims == KeeperClaims(r, spec)
           workload == << Run(Object(r, "StatefulSet", <<r.name, "clickhouse-keeper">>),
                              {"settings", "keepers"}) >>
<1>1. IsList(accounts) /\ ToSet(accounts) = AccountOps(r, "clickhouse-keeper", "nonroot")
  BY AccountList
<1>2. IsList(service)
      /\ ToSet(service) =
           {Apply(Object(r, "Service", <<r.name, "clickhouse-keeper-headless">>), {})}
  BY OneElement
<1>3. IsList(claims)
      /\ ToSet(claims) = {ClaimOp(r, spec, "clickhouse-keeper", <<i>>, {"class", "keeperSize"}) :
                            i \in 0 .. n - 1}
  <2>1. claims = Claims(r, spec, "clickhouse-keeper", Ordinals(n), {"class", "keeperSize"})
    BY DEF KeeperClaims
  <2>2. IsList(Ordinals(n)) /\ ToSet(Ordinals(n)) = {<<i>> : i \in 0 .. n - 1}
    BY OrdinalsList DEF Keepers
  <2> HIDE DEF claims, n
  <2>3. ToSet(claims) = {ClaimOp(r, spec, "clickhouse-keeper", x, {"class", "keeperSize"}) :
                           x \in {<<i>> : i \in 0 .. n - 1}}
    BY <2>1, <2>2, ClaimsList
  <2> QED BY <2>1, <2>2, <2>3, ClaimsList
<1>4. IsList(workload)
      /\ ToSet(workload) = {Run(Object(r, "StatefulSet", <<r.name, "clickhouse-keeper">>),
                                {"settings", "keepers"})}
  BY OneElement
<1>5. ClickhouseKeeper(r, spec) = ((accounts \o service) \o claims) \o workload
  BY DEF ClickhouseKeeper
<1>6. KeeperOps(r, spec) =
        ((ToSet(accounts) \cup ToSet(service)) \cup ToSet(claims)) \cup ToSet(workload)
  BY <1>1, <1>2, <1>3, <1>4 DEF KeeperOps
<1> HIDE DEF accounts, service, claims, workload, n
<1>7. IsList(accounts \o service)
      /\ ToSet(accounts \o service) = ToSet(accounts) \cup ToSet(service)
  BY <1>1, <1>2, ConcatList
<1>8. IsList((accounts \o service) \o claims)
      /\ ToSet((accounts \o service) \o claims)
           = (ToSet(accounts) \cup ToSet(service)) \cup ToSet(claims)
  BY <1>3, <1>7, ConcatList
<1> QED BY <1>4, <1>5, <1>6, <1>8, ConcatList

ShardSet(r, i) ==
  Run(Object(r, "StatefulSet", <<r.name, "clickhouse", "shard", i>>),
      {"settings", "shards", "clickhouseReplicas", "keepers"})

ClickhouseOps(r, spec) ==
  AccountOps(r, "clickhouse", "nonroot")
  \cup {Apply(Object(r, "Service", <<r.name, "clickhouse-headless">>), {})}
  \cup {ClaimOp(r, spec, "clickhouse", <<"shard", s, i>>, {"class", "clickhouseSize"}) :
          s \in 0 .. Times(OneIfZero(spec.shards)) - 1,
          i \in 0 .. Times(OneIfZero(spec.clickhouseReplicas)) - 1}
  \cup {ShardSet(r, i) : i \in 0 .. OneIfUnset(spec.shards) - 1}
  \cup {Apply(Object(r, "Service", <<r.name, "clickhouse">>), {})}

LEMMA ClickhouseSetsList ==
  ASSUME NEW r, NEW spec, spec.shards \in Int
  PROVE  /\ IsList(ClickhouseStatefulSets(r, spec))
         /\ ToSet(ClickhouseStatefulSets(r, spec)) =
              {ShardSet(r, i) : i \in 0 .. OneIfUnset(spec.shards) - 1}
<1> DEFINE n == OneIfUnset(spec.shards)
           list == ClickhouseStatefulSets(r, spec)
<1>1. n \in Nat
  BY CountsAreNatural
<1>2. list = [s \in 1 .. n |-> ShardSet(r, s - 1)]
  BY DEF ClickhouseStatefulSets, ShardSet
<1> HIDE DEF n, list
<1>3. /\ DOMAIN list = 1 .. n /\ list = [s \in 1 .. n |-> list[s]]
      /\ \A s \in 1 .. n : list[s] = ShardSet(r, s - 1)
  BY <1>2
<1>4. IsList(list)
  BY <1>1, <1>3, FunctionIsList
<1>5. ASSUME NEW x \in ToSet(list) PROVE x \in {ShardSet(r, i) : i \in 0 .. n - 1}
  <2>1. PICK s \in 1 .. n : x = list[s]
    BY <1>3, <1>5 DEF ToSet
  <2>2. s - 1 \in 0 .. n - 1
    BY <1>1
  <2> QED BY <1>3, <2>1, <2>2
<1>6. ASSUME NEW i \in 0 .. n - 1 PROVE ShardSet(r, i) \in ToSet(list)
  <2>1. i + 1 \in 1 .. n /\ (i + 1) - 1 = i
    BY <1>1
  <2>2. list[i + 1] = ShardSet(r, i)
    BY <1>3, <2>1
  <2> QED BY <1>3, <2>1, <2>2 DEF ToSet
<1> QED BY <1>4, <1>5, <1>6 DEF list, n

LEMMA ClickhouseList ==
  ASSUME NEW r, NEW spec, spec.shards \in Int, spec.clickhouseReplicas \in Int
  PROVE  IsList(Clickhouse(r, spec)) /\ ToSet(Clickhouse(r, spec)) = ClickhouseOps(r, spec)
<1> DEFINE a == Times(OneIfZero(spec.shards))
           b == Times(OneIfZero(spec.clickhouseReplicas))
           accounts == ServiceAccount(r, "clickhouse", "nonroot")
           headless == << Apply(Object(r, "Service", <<r.name, "clickhouse-headless">>), {}) >>
           claims == ClickhouseClaims(r, spec)
           sets == ClickhouseStatefulSets(r, spec)
           service == << Apply(Object(r, "Service", <<r.name, "clickhouse">>), {}) >>
<1>1. IsList(accounts) /\ ToSet(accounts) = AccountOps(r, "clickhouse", "nonroot")
  BY AccountList
<1>2. IsList(headless)
      /\ ToSet(headless) = {Apply(Object(r, "Service", <<r.name, "clickhouse-headless">>), {})}
  BY OneElement
<1>3. IsList(claims)
      /\ ToSet(claims) =
           {ClaimOp(r, spec, "clickhouse", <<"shard", s, i>>, {"class", "clickhouseSize"}) :
              s \in 0 .. a - 1, i \in 0 .. b - 1}
  <2> DEFINE suffixes == ShardSuffixes(a, b)
  <2>1. claims = Claims(r, spec, "clickhouse", suffixes, {"class", "clickhouseSize"})
    BY DEF ClickhouseClaims
  <2>2. a \in Nat /\ b \in Nat
    BY CountsAreNatural
  <2> HIDE DEF claims, a, b
  <2>3. IsList(suffixes)
        /\ ToSet(suffixes) = {<<"shard", s, i>> : s \in 0 .. a - 1, i \in 0 .. b - 1}
    BY <2>2, ShardSuffixesList
  <2> HIDE DEF suffixes
  <2>4. ToSet(claims) = {ClaimOp(r, spec, "clickhouse", x, {"class", "clickhouseSize"}) :
                           x \in {<<"shard", s, i>> : s \in 0 .. a - 1, i \in 0 .. b - 1}}
    BY <2>1, <2>3, ClaimsList
  <2>5. IsList(claims)
    BY <2>1, <2>3, ClaimsList
  <2> DEFINE f(x) == ClaimOp(r, spec, "clickhouse", x, {"class", "clickhouseSize"})
             A == 0 .. a - 1
             B == 0 .. b - 1
             names == {<<"shard", s, i>> : s \in A, i \in B}
             left == {f(x) : x \in names}
             right == {f(<<"shard", s, i>>) : s \in A, i \in B}
  <2> HIDE DEF f, A, B
  <2>6. ASSUME NEW y \in left PROVE y \in right
    <3>1. PICK x \in names : y = f(x)
      OBVIOUS
    <3> QED BY <3>1
  <2>7. ASSUME NEW y \in right PROVE y \in left
    <3>1. PICK s \in A, i \in B : y = f(<<"shard", s, i>>)
      OBVIOUS
    <3>2. <<"shard", s, i>> \in names
      OBVIOUS
    <3> QED BY <3>1, <3>2
  <2> HIDE DEF left, right
  <2>8. left = right
    BY <2>6, <2>7
  <2> QED BY <2>4, <2>5, <2>8 DEF left, right, names, f, A, B
<1>4. IsList(sets) /\ ToSet(sets) = {ShardSet(r, i) : i \in 0 .. OneIfUnset(spec.shards) - 1}
  BY ClickhouseSetsList
<1>5. IsList(service)
      /\ ToSet(service) = {Apply(Object(r, "Service", <<r.name, "clickhouse">>), {})}
  BY OneElement
<1>6. Clickhouse(r, spec) = (((accounts \o headless) \o claims) \o sets) \o service
  BY DEF Clickhouse
<1>7. ClickhouseOps(r, spec) =
        (((ToSet(accounts) \cup ToSet(headless)) \cup ToSet(claims)) \cup ToSet(sets))
        \cup ToSet(service)
  BY <1>1, <1>2, <1>3, <1>4, <1>5 DEF ClickhouseOps
<1> HIDE DEF accounts, headless, claims, sets, service
<1>8. IsList(accounts \o headless)
      /\ ToSet(accounts \o headless) = ToSet(accounts) \cup ToSet(headless)
  BY <1>1, <1>2, ConcatList
<1>9. IsList((accounts \o headless) \o claims)
      /\ ToSet((accounts \o headless) \o claims)
           = (ToSet(accounts) \cup ToSet(headless)) \cup ToSet(claims)
  BY <1>3, <1>8, ConcatList
<1>10. IsList(((accounts \o headless) \o claims) \o sets)
       /\ ToSet(((accounts \o headless) \o claims) \o sets)
            = ((ToSet(accounts) \cup ToSet(headless)) \cup ToSet(claims)) \cup ToSet(sets)
  BY <1>4, <1>9, ConcatList
<1> QED BY <1>5, <1>6, <1>7, <1>10, ConcatList

(* The operations of a plan: the server's and those of the databases it    *)
(* brings along depend on the spec.                                        *)
PlannedOps(r, spec) ==
  RoleOps(r, spec) \cup NodeAgentOps(r) \cup ClusterAgentOps(r)
  \cup (IF spec.agentsOnly THEN {}
        ELSE ServerOps(r, spec)
             \cup (IF spec.externalPrometheus THEN {} ELSE PrometheusOps(r, spec))
             \cup (IF spec.externalClickhouse THEN {}
                   ELSE {Ensure(PasswordSecret(r))} \cup KeeperOps(r, spec)
                        \cup ClickhouseOps(r, spec)))

LEMMA PlanElements ==
  ASSUME NEW r, NEW spec, IsSpec(spec)
  PROVE  IsList(Reconcile(r, spec)) /\ ToSet(Reconcile(r, spec)) = PlannedOps(r, spec)
<1>1. /\ spec.replicas \in Int /\ spec.shards \in Int /\ spec.clickhouseReplicas \in Int
      /\ spec.keepers \in Int /\ IsFiniteSet(spec.apiKeySecrets)
  BY DEF IsSpec
<1> DEFINE roles == RolesAndValidation(r, spec)
           node == NodeAgent(r)
           agent == ClusterAgent(r)
           server == CorootServer(r, spec)
           prometheus == If(~spec.externalPrometheus, Prometheus(r, spec))
           password == << Ensure(PasswordSecret(r)) >>
           keeper == ClickhouseKeeper(r, spec)
           click == Clickhouse(r, spec)
           databases == If(~spec.externalClickhouse, (password \o keeper) \o click)
           rest == If(~spec.agentsOnly, (server \o prometheus) \o databases)
<1>2. IsList(roles) /\ ToSet(roles) = RoleOps(r, spec)
  BY <1>1, RolesList
<1>3. IsList(node) /\ ToSet(node) = NodeAgentOps(r)
  BY NodeAgentList
<1>4. IsList(agent) /\ ToSet(agent) = ClusterAgentOps(r)
  BY ClusterAgentList
<1>5. IsList(server) /\ ToSet(server) = ServerOps(r, spec)
  BY <1>1, ServerList
<1>6. IsList(prometheus)
      /\ ToSet(prometheus) = IF spec.externalPrometheus THEN {} ELSE PrometheusOps(r, spec)
  BY PrometheusList, NoElements DEF If
<1>7. IsList(password) /\ ToSet(password) = {Ensure(PasswordSecret(r))}
  BY OneElement
<1>8. IsList(keeper) /\ ToSet(keeper) = KeeperOps(r, spec)
  BY <1>1, KeeperList
<1>9. IsList(click) /\ ToSet(click) = ClickhouseOps(r, spec)
  BY <1>1, ClickhouseList
<1>10. Reconcile(r, spec) = ((roles \o node) \o agent) \o rest
  BY DEF Reconcile
<1> HIDE DEF roles, node, agent, server, prometheus, password, keeper, click
<1>11. IsList(password \o keeper)
       /\ ToSet(password \o keeper) = ToSet(password) \cup ToSet(keeper)
  BY <1>7, <1>8, ConcatList
<1>12. IsList((password \o keeper) \o click)
       /\ ToSet((password \o keeper) \o click)
            = (ToSet(password) \cup ToSet(keeper)) \cup ToSet(click)
  BY <1>9, <1>11, ConcatList
<1>13. IsList(databases)
       /\ ToSet(databases) =
            IF spec.externalClickhouse THEN {}
            ELSE {Ensure(PasswordSecret(r))} \cup KeeperOps(r, spec) \cup ClickhouseOps(r, spec)
  BY <1>7, <1>8, <1>9, <1>12, NoElements DEF If
<1> HIDE DEF databases
<1>14. IsList(server \o prometheus)
       /\ ToSet(server \o prometheus) = ToSet(server) \cup ToSet(prometheus)
  BY <1>5, <1>6, ConcatList
<1>15. IsList((server \o prometheus) \o databases)
       /\ ToSet((server \o prometheus) \o databases)
            = (ToSet(server) \cup ToSet(prometheus)) \cup ToSet(databases)
  BY <1>13, <1>14, ConcatList
<1>16. IsList(rest)
       /\ ToSet(rest) =
            IF spec.agentsOnly THEN {}
            ELSE (ToSet(server) \cup ToSet(prometheus)) \cup ToSet(databases)
  BY <1>15, NoElements DEF If
<1> HIDE DEF rest
<1>17. IsList(roles \o node) /\ ToSet(roles \o node) = ToSet(roles) \cup ToSet(node)
  BY <1>2, <1>3, ConcatList
<1>18. IsList((roles \o node) \o agent)
       /\ ToSet((roles \o node) \o agent) = (ToSet(roles) \cup ToSet(node)) \cup ToSet(agent)
  BY <1>4, <1>17, ConcatList
<1>19. IsList(((roles \o node) \o agent) \o rest)
       /\ ToSet(((roles \o node) \o agent) \o rest)
            = ((ToSet(roles) \cup ToSet(node)) \cup ToSet(agent)) \cup ToSet(rest)
  BY <1>16, <1>18, ConcatList
<1>20. PlannedOps(r, spec)
         = ((ToSet(roles) \cup ToSet(node)) \cup ToSet(agent)) \cup ToSet(rest)
  BY <1>2, <1>3, <1>4, <1>5, <1>6, <1>13, <1>16 DEF PlannedOps
<1> QED BY <1>10, <1>19, <1>20

(* The spec after validation is a spec. *)
LEMMA ValidatedIsSpec ==
  ASSUME NEW spec, IsSpec(spec)
  PROVE  /\ IsSpec(Validated(spec))
         /\ \A f \in SpecFields \ {"replicas"} : Validated(spec)[f] = spec[f]
BY DEF IsSpec, Validated, SpecFields

-----------------------------------------------------------------------------
(* Whose an object is.  The names of a resource's objects begin with its   *)
(* own, after "data" in the names of volume claims; the cluster-wide       *)
(* objects and the Secrets of the API keys, which users name, belong to no *)
(* resource.                                                               *)
HolderOf(o) ==
  [namespace |-> o.namespace,
   name      |-> o.name[IF o.kind = "PersistentVolumeClaim" THEN 2 ELSE 1]]

Shared(o) ==
  \/ o.kind \in {"ClusterRole", "ClusterRoleBinding"}
  \/ o.kind = "Secret" /\ Len(o.name) = 1

(* What all the operations of r's plan have in common.  Only those that    *)
(* retain touch shared objects, and only watched kinds are retained; none  *)
(* writes the Deployment that is deleted as a relic of former versions.    *)
Proper(r, op) ==
  /\ op.verb \in {"apply", "ensure", "delete", "validate", "legacy", "legacyDone"}
  /\ Shared(op.object) \/ HolderOf(op.object) = r
  /\ ~op.retain => ~Shared(op.object)
  /\ op.retain => op.verb \in {"apply", "ensure"}
                  /\ op.object.kind \in {"PersistentVolumeClaim", "Secret", "ClusterRole",
                                        "ClusterRoleBinding"}
  /\ op.verb \in {"apply", "ensure"} /\ op.object.kind = "Deployment"
       => op.object.name[2] # "coroot"
  /\ op.verb \in {"legacy", "legacyDone"} => op.object = LegacyDeployment(r)

(* An operation that may create its object. *)
Writing(r, op) == Proper(r, op) /\ op.verb \in {"apply", "ensure"}

IsRequest(r) == r = [namespace |-> r.namespace, name |-> r.name]

LEMMA AccountsAreProper ==
  ASSUME NEW r, IsRequest(r), NEW component, NEW scc,
         NEW op \in AccountOps(r, component, scc)
  PROVE  Writing(r, op) /\ op.reads = {}
BY DEF AccountOps, Writing, Proper, Ensure, Op, Object, HolderOf, Shared, IsRequest

LEMMA ClaimsAreProper ==
  ASSUME NEW r, IsRequest(r), NEW spec, NEW component, NEW suffix, IsList(suffix), NEW reads
  PROVE  Writing(r, ClaimOp(r, spec, component, suffix, reads))
<1> DEFINE stem == <<"data", r.name, component>>
           name == stem \o suffix
           op == ClaimOp(r, spec, component, suffix, reads)
<1>1. name[2] = r.name
  <2>1. IsList(stem) /\ Len(stem) = 3 /\ stem[2] = r.name
    BY ThreeElements
  <2> HIDE DEF stem
  <2>2. 2 \in 1 .. Len(stem)
    BY <2>1
  <2>3. (stem \o suffix)[2] = stem[2]
    BY <2>1, <2>2, ConcatFirst
  <2> QED BY <2>1, <2>3
<1> HIDE DEF name
<1>2. /\ op.verb = "apply"
      /\ op.object = [kind |-> "PersistentVolumeClaim", namespace |-> r.namespace, name |-> name]
  BY DEF ClaimOp, Op, Object, name
<1> HIDE DEF op
<1>3. HolderOf(op.object) = r /\ ~Shared(op.object)
  BY <1>1, <1>2 DEF HolderOf, Shared, IsRequest
<1> QED BY <1>2, <1>3 DEF Writing, Proper, op

LEMMA WorkloadsAreProper ==
  ASSUME NEW r, IsRequest(r), NEW kind, NEW name, NEW reads,
         kind \in {"Role", "ConfigMap", "Service", "DaemonSet", "StatefulSet"}
         \/ (kind = "Deployment" /\ name # "coroot")
  PROVE  /\ Writing(r, Apply(Object(r, kind, <<r.name, name>>), reads))
         /\ Writing(r, Run(Object(r, kind, <<r.name, name>>), reads))
BY DEF Writing, Proper, Apply, Run, Op, Object, HolderOf, Shared, IsRequest

LEMMA RolesAreProper ==
  ASSUME NEW r, IsRequest(r), NEW spec, NEW op \in RoleOps(r, spec)
  PROVE  Proper(r, op) /\ op.reads = {}
<1>1. ASSUME NEW name \in spec.apiKeySecrets PROVE Proper(r, KeyOp(r, name))
  BY OneElement DEF KeyOp, Proper, Op, Object, Shared
<1>2. \A name \in spec.apiKeySecrets : KeyOp(r, name).reads = {}
  BY DEF KeyOp, Op
<1>3. Proper(r, Op("validate", Object(r, "Coroot", <<r.name>>), {}, FALSE, FALSE))
  BY DEF Proper, Op, Object, HolderOf, Shared, IsRequest
<1>4. Op("validate", Object(r, "Coroot", <<r.name>>), {}, FALSE, FALSE).reads = {}
  BY DEF Op
<1>5. /\ Apply(Object(r, "Role", <<r.name, "nonroot">>), {}).reads = {}
      /\ Apply(Object(r, "Role", <<r.name, "privileged">>), {}).reads = {}
  BY DEF Apply, Op
<1>6. Proper(r, Apply(Object(r, "Role", <<r.name, "nonroot">>), {}))
  BY WorkloadsAreProper DEF Writing
<1>7. Proper(r, Apply(Object(r, "Role", <<r.name, "privileged">>), {}))
  BY WorkloadsAreProper DEF Writing
<1> QED BY <1>1, <1>2, <1>3, <1>4, <1>5, <1>6, <1>7 DEF RoleOps

(* What the objects of the agents depend on. *)
AgentFields == {"settings", "agentsOnly", "namespace"}

LEMMA AgentsAreProper ==
  ASSUME NEW r, IsRequest(r), NEW op \in NodeAgentOps(r) \cup ClusterAgentOps(r)
  PROVE  Writing(r, op) /\ op.reads \subseteq AgentFields
<1>1. /\ Writing(r, Op("apply", ClusterRoleOf(r), {}, FALSE, TRUE))
      /\ Writing(r, Op("ensure", ClusterRoleBindingOf(r), {"namespace"}, FALSE, TRUE))
  BY DEF Writing, Proper, Op, ClusterRoleOf, ClusterRoleBindingOf, ClusterObject, Shared
<1>2. /\ Op("apply", ClusterRoleOf(r), {}, FALSE, TRUE).reads \subseteq AgentFields
      /\ Op("ensure", ClusterRoleBindingOf(r), {"namespace"}, FALSE, TRUE).reads
           \subseteq AgentFields
      /\ Run(Object(r, "Deployment", <<r.name, "cluster-agent">>),
             {"settings", "agentsOnly"}).reads \subseteq AgentFields
      /\ Run(Object(r, "DaemonSet", <<r.name, "node-agent">>),
             {"settings", "agentsOnly"}).reads \subseteq AgentFields
  BY DEF Op, Run, AgentFields
<1>3. Writing(r, Run(Object(r, "Deployment", <<r.name, "cluster-agent">>),
                    {"settings", "agentsOnly"}))
  BY WorkloadsAreProper
<1>4. Writing(r, Run(Object(r, "DaemonSet", <<r.name, "node-agent">>),
                    {"settings", "agentsOnly"}))
  BY WorkloadsAreProper
<1>5. \A x \in AccountOps(r, "node-agent", "privileged") : Writing(r, x) /\ x.reads = {}
  BY AccountsAreProper
<1>6. \A x \in AccountOps(r, "cluster-agent", "nonroot") : Writing(r, x) /\ x.reads = {}
  BY AccountsAreProper
<1> QED BY <1>1, <1>2, <1>3, <1>4, <1>5, <1>6 DEF NodeAgentOps, ClusterAgentOps

LEMMA ServerIsProper ==
  ASSUME NEW r, IsRequest(r), NEW spec, NEW op \in ServerOps(r, spec)
  PROVE  Proper(r, op)
<1>1. ASSUME NEW i PROVE Proper(r, ClaimOp(r, spec, "coroot", <<i>>, {"class", "size"}))
  BY OneElement, ClaimsAreProper DEF Writing
<1>2. Proper(r, CorootStatefulSet(r))
  BY WorkloadsAreProper DEF CorootStatefulSet, Writing
<1>3. /\ Proper(r, Op("legacy", LegacyDeployment(r), {}, FALSE, FALSE))
      /\ Proper(r, Op("legacyDone", LegacyDeployment(r), {}, FALSE, FALSE))
  BY DEF Proper, Op, LegacyDeployment, Object, HolderOf, Shared, IsRequest
<1>4. Proper(r, CorootIngress(r, spec))
  BY DEF CorootIngress, Proper, Op, Object, HolderOf, Shared, IsRequest
<1>5. Proper(r, Apply(Object(r, "ConfigMap", <<r.name, "coroot">>),
                      {"settings", "readsSecret", "apiKeySecrets"}))
  BY WorkloadsAreProper DEF Writing
<1>6. Proper(r, Apply(Object(r, "Service", <<r.name, "coroot">>), {"settings"}))
  BY WorkloadsAreProper DEF Writing
<1>7. \A x \in AccountOps(r, "coroot", "nonroot") : Proper(r, x)
  BY AccountsAreProper DEF Writing
<1> QED BY <1>1, <1>2, <1>3, <1>4, <1>5, <1>6, <1>7 DEF ServerOps

LEMMA DatabasesAreProper ==
  ASSUME NEW r, IsRequest(r), NEW spec,
         NEW op \in PrometheusOps(r, spec) \cup {Ensure(PasswordSecret(r))}
                    \cup KeeperOps(r, spec) \cup ClickhouseOps(r, spec)
  PROVE  Writing(r, op)
<1>1. Writing(r, ClaimOp(r, spec, "prometheus", <<>>, {"prometheusClass", "prometheusSize"}))
  BY NoElements, ClaimsAreProper
<1>2. ASSUME NEW i
      PROVE  Writing(r, ClaimOp(r, spec, "clickhouse-keeper", <<i>>, {"class", "keeperSize"}))
  BY OneElement, ClaimsAreProper
<1>3. ASSUME NEW s, NEW i
      PROVE  Writing(r, ClaimOp(r, spec, "clickhouse", <<"shard", s, i>>,
                               {"class", "clickhouseSize"}))
  BY ThreeElements, ClaimsAreProper
<1>4. ASSUME NEW i PROVE Writing(r, ShardSet(r, i))
  BY DEF ShardSet, Writing, Proper, Run, Op, Object, HolderOf, Shared, IsRequest
<1>5. Writing(r, Ensure(PasswordSecret(r)))
  BY DEF PasswordSecret, Writing, Proper, Ensure, Op, Object, HolderOf, Shared, IsRequest
<1>6. CASE op \in PrometheusOps(r, spec)
  <2>1. Writing(r, Run(Object(r, "Deployment", <<r.name, "prometheus">>), {"settings"}))
    BY WorkloadsAreProper
  <2>2. Writing(r, Apply(Object(r, "Service", <<r.name, "prometheus">>), {}))
    BY WorkloadsAreProper
  <2>3. \A x \in AccountOps(r, "prometheus", "nonroot") : Writing(r, x)
    BY AccountsAreProper
  <2> QED BY <1>1, <1>6, <2>1, <2>2, <2>3 DEF PrometheusOps
<1>7. CASE op \in KeeperOps(r, spec)
  <2>1. Writing(r, Run(Object(r, "StatefulSet", <<r.name, "clickhouse-keeper">>),
                      {"settings", "keepers"}))
    BY WorkloadsAreProper
  <2>2. Writing(r, Apply(Object(r, "Service", <<r.name, "clickhouse-keeper-headless">>), {}))
    BY WorkloadsAreProper
  <2>3. \A x \in AccountOps(r, "clickhouse-keeper", "nonroot") : Writing(r, x)
    BY AccountsAreProper
  <2> QED BY <1>2, <1>7, <2>1, <2>2, <2>3 DEF KeeperOps
<1>8. CASE op \in ClickhouseOps(r, spec)
  <2>1. Writing(r, Apply(Object(r, "Service", <<r.name, "clickhouse">>), {}))
    BY WorkloadsAreProper
  <2>2. Writing(r, Apply(Object(r, "Service", <<r.name, "clickhouse-headless">>), {}))
    BY WorkloadsAreProper
  <2>3. \A x \in AccountOps(r, "clickhouse", "nonroot") : Writing(r, x)
    BY AccountsAreProper
  <2> DEFINE claims == {ClaimOp(r, spec, "clickhouse", <<"shard", s, i>>,
                                {"class", "clickhouseSize"}) :
                          s \in 0 .. Times(OneIfZero(spec.shards)) - 1,
                          i \in 0 .. Times(OneIfZero(spec.clickhouseReplicas)) - 1}
             sets == {ShardSet(r, i) : i \in 0 .. OneIfUnset(spec.shards) - 1}
  <2>4. ASSUME NEW x \in claims PROVE Writing(r, x)
    <3>1. PICK s \in 0 .. Times(OneIfZero(spec.shards)) - 1,
               i \in 0 .. Times(OneIfZero(spec.clickhouseReplicas)) - 1 :
            x = ClaimOp(r, spec, "clickhouse", <<"shard", s, i>>, {"class", "clickhouseSize"})
      OBVIOUS
    <3>2. Writing(r, ClaimOp(r, spec, "clickhouse", <<"shard", s, i>>,
                            {"class", "clickhouseSize"}))
      BY <1>3
    <3> QED BY <3>1, <3>2
  <2>5. \A x \in sets : Writing(r, x)
    BY <1>4
  <2>6. ClickhouseOps(r, spec) =
          AccountOps(r, "clickhouse", "nonroot")
          \cup {Apply(Object(r, "Service", <<r.name, "clickhouse-headless">>), {})}
          \cup claims \cup sets
          \cup {Apply(Object(r, "Service", <<r.name, "clickhouse">>), {})}
    BY DEF ClickhouseOps
  <2> HIDE DEF claims, sets
  <2> QED BY <1>8, <2>1, <2>2, <2>3, <2>4, <2>5, <2>6
<1> QED BY <1>5, <1>6, <1>7, <1>8

(* Every operation of a plan is proper, and one of the agents alone writes *)
(* nothing that depends on anything but the fields of the agents.          *)
LEMMA PlanIsProper ==
  ASSUME NEW r, IsRequest(r), NEW spec, NEW op \in PlannedOps(r, spec)
  PROVE  Proper(r, op) /\ (spec.agentsOnly => op.reads \subseteq AgentFields)
<1>1. CASE op \in RoleOps(r, spec)
  BY <1>1, RolesAreProper
<1>2. CASE op \in NodeAgentOps(r) \cup ClusterAgentOps(r)
  BY <1>2, AgentsAreProper DEF Writing
<1>3. CASE ~spec.agentsOnly /\ op \in ServerOps(r, spec)
  BY <1>3, ServerIsProper
<1>4. CASE /\ ~spec.agentsOnly
           /\ op \in PrometheusOps(r, spec) \cup {Ensure(PasswordSecret(r))}
                     \cup KeeperOps(r, spec) \cup ClickhouseOps(r, spec)
  BY <1>4, DatabasesAreProper DEF Writing
<1> QED BY <1>1, <1>2, <1>3, <1>4 DEF PlannedOps

-----------------------------------------------------------------------------
(* The order of a plan: validation is its third operation and happens once,*)
(* and the attempt to delete the Deployment of former versions is recorded *)
(* right after it.                                                         *)
ValidatesThird(list) ==
  \A i \in DOMAIN list : list[i].verb = "validate" => i = 3

RecordsLegacy(list) ==
  \A i \in DOMAIN list : list[i].verb = "legacyDone" =>
    /\ i - 1 \in DOMAIN list
    /\ list[i - 1].verb = "legacy" /\ list[i - 1].object = list[i].object

Without(list, verb) == \A x \in ToSet(list) : x.verb # verb

LEMMA ConcatValidates ==
  ASSUME NEW a, NEW b, IsList(a), IsList(b), ValidatesThird(a), Without(b, "validate")
  PROVE  ValidatesThird(a \o b)
<1> DEFINE c == a \o b
<1> SUFFICES ASSUME NEW i \in DOMAIN c, c[i].verb = "validate" PROVE i = 3
  BY DEF ValidatesThird
<1>1. /\ Len(a) \in Nat /\ Len(b) \in Nat
      /\ DOMAIN a = 1 .. Len(a) /\ DOMAIN b = 1 .. Len(b)
      /\ DOMAIN c = 1 .. Len(a) + Len(b)
      /\ \A k \in 1 .. Len(a) + Len(b) : c[k] = IF k <= Len(a) THEN a[k] ELSE b[k - Len(a)]
  BY ConcatAt
<1> HIDE DEF c
<1>2. CASE i <= Len(a)
  BY <1>1, <1>2 DEF ValidatesThird
<1>3. CASE ~(i <= Len(a))
  <2>1. i - Len(a) \in DOMAIN b /\ c[i] = b[i - Len(a)]
    BY <1>1, <1>3
  <2> QED BY <2>1 DEF Without, ToSet
<1> QED BY <1>2, <1>3

LEMMA ConcatRecords ==
  ASSUME NEW a, NEW b, IsList(a), IsList(b), RecordsLegacy(a), RecordsLegacy(b)
  PROVE  RecordsLegacy(a \o b)
<1> DEFINE c == a \o b
<1> SUFFICES ASSUME NEW i \in DOMAIN c, c[i].verb = "legacyDone"
             PROVE  /\ i - 1 \in DOMAIN c
                    /\ c[i - 1].verb = "legacy" /\ c[i - 1].object = c[i].object
  BY DEF RecordsLegacy
<1>1. /\ Len(a) \in Nat /\ Len(b) \in Nat
      /\ DOMAIN a = 1 .. Len(a) /\ DOMAIN b = 1 .. Len(b)
      /\ DOMAIN c = 1 .. Len(a) + Len(b)
      /\ \A k \in 1 .. Len(a) + Len(b) : c[k] = IF k <= Len(a) THEN a[k] ELSE b[k - Len(a)]
  BY ConcatAt
<1> HIDE DEF c
<1>2. CASE i <= Len(a)
  <2>1. i \in DOMAIN a /\ c[i] = a[i]
    BY <1>1, <1>2
  <2>2. i - 1 \in 1 .. Len(a) /\ a[i - 1].verb = "legacy" /\ a[i - 1].object = a[i].object
    BY <1>1, <2>1 DEF RecordsLegacy
  <2>3. i - 1 \in DOMAIN c /\ c[i - 1] = a[i - 1]
    BY <1>1, <2>2
  <2> QED BY <2>1, <2>2, <2>3
<1>3. CASE ~(i <= Len(a))
  <2> DEFINE j == i - Len(a)
  <2>1. j \in DOMAIN b /\ c[i] = b[j]
    BY <1>1, <1>3
  <2>2. j - 1 \in 1 .. Len(b) /\ b[j - 1].verb = "legacy" /\ b[j - 1].object = b[j].object
    BY <1>1, <2>1 DEF RecordsLegacy
  <2>3. i - 1 \in 1 .. Len(a) + Len(b) /\ ~(i - 1 <= Len(a)) /\ (i - 1) - Len(a) = j - 1
    BY <1>1, <2>2
  <2>4. i - 1 \in DOMAIN c /\ c[i - 1] = b[j - 1]
    BY <1>1, <2>3
  <2> QED BY <2>1, <2>2, <2>4
<1> QED BY <1>2, <1>3

LEMMA OthersRecord ==
  ASSUME NEW list, Without(list, "legacyDone")
  PROVE  RecordsLegacy(list)
BY DEF Without, RecordsLegacy, ToSet

LEMMA CleanupRecords ==
  ASSUME NEW r
  PROVE  RecordsLegacy(LegacyCleanup(r))
<1> DEFINE first == Op("legacy", LegacyDeployment(r), {}, FALSE, FALSE)
           second == Op("legacyDone", LegacyDeployment(r), {}, FALSE, FALSE)
<1>1. /\ first.verb = "legacy" /\ second.verb = "legacyDone"
      /\ first.object = second.object
  BY DEF Op
<1>2. LegacyCleanup(r) = <<first, second>>
  BY DEF LegacyCleanup
<1> HIDE DEF first, second
<1> QED BY <1>1, <1>2 DEF RecordsLegacy

LEMMA WritesOnly ==
  ASSUME NEW r, NEW list, \A op \in ToSet(list) : Writing(r, op)
  PROVE  Without(list, "validate") /\ RecordsLegacy(list)
BY OthersRecord DEF Without, Writing

LEMMA RolesOrder ==
  ASSUME NEW r, NEW spec, IsFiniteSet(spec.apiKeySecrets)
  PROVE  /\ ValidatesThird(RolesAndValidation(r, spec))
         /\ RecordsLegacy(RolesAndValidation(r, spec))
<1> DEFINE names == SetToSeq(spec.apiKeySecrets)
           n == Cardinality(spec.apiKeySecrets)
           keys == [i \in 1 .. Len(names) |-> KeyOp(r, names[i])]
           x == Apply(Object(r, "Role", <<r.name, "nonroot">>), {})
           y == Apply(Object(r, "Role", <<r.name, "privileged">>), {})
           z == Op("validate", Object(r, "Coroot", <<r.name>>), {}, FALSE, FALSE)
           roles == <<x, y, z>>
<1>1. /\ names = [i \in 1 .. n |-> names[i]] /\ n \in Nat
      /\ ToSet(names) = spec.apiKeySecrets
  BY SetIsListed
<1>2. RolesAndValidation(r, spec) = roles \o keys
  BY DEF RolesAndValidation, KeyOp
<1>3. x.verb = "apply" /\ y.verb = "apply" /\ z.verb = "validate"
  BY DEF Apply, Op
<1> HIDE DEF names, n, x, y, z
<1>4. IsList(roles) /\ ToSet(roles) = {x, y, z}
  BY ThreeElements
<1>5. ValidatesThird(roles)
  BY <1>3 DEF ValidatesThird
<1>6. RecordsLegacy(roles)
  BY <1>3, <1>4, OthersRecord DEF Without
<1>7. IsList(names) /\ Len(names) = n
  BY <1>1, FunctionIsList
<1>8. keys = [i \in 1 .. n |-> keys[i]]
  BY <1>7
<1>9. IsList(keys)
  BY <1>1, <1>8, FunctionIsList
<1>10. \A i \in 1 .. n : keys[i].verb = "ensure"
  BY <1>7 DEF KeyOp, Op
<1>11. DOMAIN keys = 1 .. n
  BY <1>7
<1>12. Without(keys, "validate") /\ RecordsLegacy(keys)
  BY <1>10, <1>11 DEF Without, ToSet, RecordsLegacy
<1> HIDE DEF keys, roles
<1>13. ValidatesThird(roles \o keys)
  BY <1>4, <1>5, <1>9, <1>12, ConcatValidates
<1>14. RecordsLegacy(roles \o keys)
  BY <1>4, <1>6, <1>9, <1>12, ConcatRecords
<1> QED BY <1>2, <1>13, <1>14

LEMMA ServerOrder ==
  ASSUME NEW r, IsRequest(r), NEW spec, spec.replicas \in Int
  PROVE  Without(CorootServer(r, spec), "validate") /\ RecordsLegacy(CorootServer(r, spec))
<1>1. Without(CorootServer(r, spec), "validate")
  <2>1. ToSet(CorootServer(r, spec)) = ServerOps(r, spec)
    BY ServerList
  <2>2. \A op \in AccountOps(r, "coroot", "nonroot") : op.verb = "ensure"
    BY DEF AccountOps, Ensure, Op
  <2>3. \A i : ClaimOp(r, spec, "coroot", <<i>>, {"class", "size"}).verb = "apply"
    BY DEF ClaimOp, Op
  <2>4. CorootIngress(r, spec).verb # "validate"
    BY DEF CorootIngress, Op
  <2>5. /\ Apply(Object(r, "ConfigMap", <<r.name, "coroot">>),
                 {"settings", "readsSecret", "apiKeySecrets"}).verb = "apply"
        /\ CorootStatefulSet(r).verb = "apply"
        /\ Apply(Object(r, "Service", <<r.name, "coroot">>), {"settings"}).verb = "apply"
        /\ Op("legacy", LegacyDeployment(r), {}, FALSE, FALSE).verb = "legacy"
        /\ Op("legacyDone", LegacyDeployment(r), {}, FALSE, FALSE).verb = "legacyDone"
    BY DEF Apply, CorootStatefulSet, Run, Op
  <2> QED BY <2>1, <2>2, <2>3, <2>4, <2>5 DEF ServerOps, Without
<1> DEFINE replicas == OneIfZero(spec.replicas)
           accounts == ServiceAccount(r, "coroot", "nonroot")
           claims == CorootClaims(r, spec)
           workload == << Apply(Object(r, "ConfigMap", <<r.name, "coroot">>),
                                {"settings", "readsSecret", "apiKeySecrets"}),
                          CorootStatefulSet(r),
                          Apply(Object(r, "Service", <<r.name, "coroot">>), {"settings"}) >>
           cleanup == LegacyCleanup(r)
           ingress == << CorootIngress(r, spec) >>
<1>2. IsList(accounts) /\ RecordsLegacy(accounts)
  <2>1. \A op \in ToSet(accounts) : Writing(r, op)
    BY AccountList, AccountsAreProper
  <2> QED BY <2>1, AccountList, WritesOnly
<1>3. IsList(claims) /\ RecordsLegacy(claims)
  <2>1. replicas \in Int
    BY CountsAreNatural
  <2>2. IsList(Ordinals(replicas)) /\ ToSet(Ordinals(replicas)) = {<<i>> : i \in 0 .. replicas - 1}
    BY <2>1, OrdinalsList
  <2>3. claims = Claims(r, spec, "coroot", Ordinals(replicas), {"class", "size"})
    BY DEF CorootClaims
  <2> HIDE DEF claims, replicas
  <2>4. IsList(claims)
        /\ ToSet(claims) = {ClaimOp(r, spec, "coroot", x, {"class", "size"}) :
                              x \in ToSet(Ordinals(replicas))}
    BY <2>2, <2>3, ClaimsList
  <2>5. \A x : ClaimOp(r, spec, "coroot", x, {"class", "size"}).verb = "apply"
    BY DEF ClaimOp, Op
  <2>6. Without(claims, "legacyDone")
    BY <2>4, <2>5 DEF Without
  <2> QED BY <2>4, <2>6, OthersRecord
<1>4. IsList(workload) /\ RecordsLegacy(workload)
  <2>1. \A op \in ToSet(workload) : op.verb = "apply"
    BY ThreeElements DEF Apply, CorootStatefulSet, Run, Op
  <2> QED BY <2>1, ThreeElements, OthersRecord DEF Without
<1>5. IsList(cleanup) /\ RecordsLegacy(cleanup)
  BY TwoElements, CleanupRecords DEF LegacyCleanup
<1>6. IsList(ingress) /\ RecordsLegacy(ingress)
  <2>1. \A op \in ToSet(ingress) : op.verb # "legacyDone"
    BY OneElement DEF CorootIngress, Op
  <2> QED BY <2>1, OneElement, OthersRecord DEF Without
<1>7. CorootServer(r, spec) = (((accounts \o claims) \o workload) \o cleanup) \o ingress
  BY DEF CorootServer
<1> HIDE DEF accounts, claims, workload, cleanup, ingress, replicas
<1>8. IsList(accounts \o claims) /\ RecordsLegacy(accounts \o claims)
  BY <1>2, <1>3, ConcatList, ConcatRecords
<1>9. IsList((accounts \o claims) \o workload) /\ RecordsLegacy((accounts \o claims) \o workload)
  BY <1>4, <1>8, ConcatList, ConcatRecords
<1>10. IsList(((accounts \o claims) \o workload) \o cleanup)
       /\ RecordsLegacy(((accounts \o claims) \o workload) \o cleanup)
  BY <1>5, <1>9, ConcatList, ConcatRecords
<1>11. RecordsLegacy(CorootServer(r, spec))
  BY <1>6, <1>7, <1>10, ConcatRecords
<1> QED BY <1>1, <1>11

LEMMA PlanOrder ==
  ASSUME NEW r, IsRequest(r), NEW spec, IsSpec(spec)
  PROVE  ValidatesThird(Reconcile(r, spec)) /\ RecordsLegacy(Reconcile(r, spec))
<1>1. /\ spec.replicas \in Int /\ spec.shards \in Int /\ spec.clickhouseReplicas \in Int
      /\ spec.keepers \in Int /\ IsFiniteSet(spec.apiKeySecrets)
  BY DEF IsSpec
<1> DEFINE roles == RolesAndValidation(r, spec)
           node == NodeAgent(r)
           agent == ClusterAgent(r)
           server == CorootServer(r, spec)
           prometheus == If(~spec.externalPrometheus, Prometheus(r, spec))
           password == << Ensure(PasswordSecret(r)) >>
           keeper == ClickhouseKeeper(r, spec)
           click == Clickhouse(r, spec)
           databases == If(~spec.externalClickhouse, (password \o keeper) \o click)
           rest == If(~spec.agentsOnly, (server \o prometheus) \o databases)
           Follows(list) == IsList(list) /\ Without(list, "validate") /\ RecordsLegacy(list)
<1>2. IsList(roles) /\ ValidatesThird(roles) /\ RecordsLegacy(roles)
  BY <1>1, RolesList, RolesOrder
<1>3. Follows(<<>>)
  BY NoElements DEF Without, RecordsLegacy
<1>4. ASSUME NEW a, NEW b, Follows(a), Follows(b) PROVE Follows(a \o b)
  <2>1. IsList(a \o b) /\ ToSet(a \o b) = ToSet(a) \cup ToSet(b)
    BY <1>4, ConcatList
  <2>2. RecordsLegacy(a \o b)
    BY <1>4, ConcatRecords
  <2> QED BY <1>4, <2>1, <2>2 DEF Without
<1>5. Follows(node) /\ Follows(agent)
  <2>1. IsList(node) /\ \A op \in ToSet(node) : Writing(r, op)
    BY NodeAgentList, AgentsAreProper
  <2>2. IsList(agent) /\ \A op \in ToSet(agent) : Writing(r, op)
    BY ClusterAgentList, AgentsAreProper
  <2> QED BY <2>1, <2>2, WritesOnly
<1>6. Follows(server)
  BY <1>1, ServerList, ServerOrder
<1>7. Follows(prometheus)
  <2>1. IsList(Prometheus(r, spec)) /\ \A op \in ToSet(Prometheus(r, spec)) : Writing(r, op)
    BY PrometheusList, DatabasesAreProper
  <2> QED BY <1>3, <2>1, WritesOnly DEF If
<1>8. Follows(password)
  <2>1. IsList(password) /\ \A op \in ToSet(password) : Writing(r, op)
    BY OneElement, DatabasesAreProper
  <2> QED BY <2>1, WritesOnly
<1>9. Follows(keeper)
  <2>1. IsList(keeper) /\ \A op \in ToSet(keeper) : Writing(r, op)
    BY <1>1, KeeperList, DatabasesAreProper
  <2> QED BY <2>1, WritesOnly
<1>10. Follows(click)
  <2>1. IsList(click) /\ \A op \in ToSet(click) : Writing(r, op)
    BY <1>1, ClickhouseList, DatabasesAreProper
  <2> QED BY <2>1, WritesOnly
<1>11. Reconcile(r, spec) = ((roles \o node) \o agent) \o rest
  BY DEF Reconcile
<1> HIDE DEF roles, node, agent, server, prometheus, password, keeper, click, Follows
<1>12. Follows((password \o keeper) \o click)
  BY <1>4, <1>8, <1>9, <1>10
<1>13. Follows(databases)
  BY <1>3, <1>12 DEF If
<1> HIDE DEF databases
<1>14. Follows((server \o prometheus) \o databases)
  BY <1>4, <1>6, <1>7, <1>13
<1>15. Follows(rest)
  BY <1>3, <1>14 DEF If
<1> HIDE DEF rest
<1>16. ASSUME NEW a, NEW b, IsList(a), ValidatesThird(a), RecordsLegacy(a), Follows(b)
       PROVE  IsList(a \o b) /\ ValidatesThird(a \o b) /\ RecordsLegacy(a \o b)
  <2>1. IsList(b) /\ Without(b, "validate") /\ RecordsLegacy(b)
    BY <1>16 DEF Follows
  <2> QED BY <1>16, <2>1, ConcatList, ConcatValidates, ConcatRecords
<1>17. LET a == roles \o node
       IN  IsList(a) /\ ValidatesThird(a) /\ RecordsLegacy(a)
  BY <1>2, <1>5, <1>16
<1>18. LET a == (roles \o node) \o agent
       IN  IsList(a) /\ ValidatesThird(a) /\ RecordsLegacy(a)
  BY <1>5, <1>16, <1>17
<1> QED BY <1>11, <1>15, <1>16, <1>18
=============================================================================
