---------------------------- MODULE MCPodLayout ----------------------------
(***************************************************************************)
(* Every combination of small counts, negative ones included, and of the   *)
(* switches of a spec; and every combination of storage classes.           *)
(***************************************************************************)
EXTENDS PodLayout

MCResource == [namespace |-> "n", name |-> "a"]

SpecsWith(counts, switches, classes, secrets) ==
  [settings : {"any"}, agentsOnly : switches, replicas : counts, postgres : switches,
   ingress : {NoIngress}, externalPrometheus : switches, externalClickhouse : switches,
   shards : counts, clickhouseReplicas : counts, keepers : counts,
   class : classes, prometheusClass : classes, clickhouseClass : classes,
   keeperClass : classes, size : {0}, prometheusSize : {0}, clickhouseSize : {0},
   keeperSize : {0}, retain : {{}}, apiKeySecrets : secrets, readsSecret : {FALSE}]

CountSpecs == SpecsWith(-1 .. 2, BOOLEAN, {"standard"}, {{"keys", "more-keys"}})

ClassSpecs == SpecsWith({0}, {FALSE}, {"standard", "fast"}, {{}})
=============================================================================
