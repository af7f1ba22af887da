---------------------------- MODULE ServerConfig ----------------------------
(***************************************************************************)
(* From a Coroot resource to the objects of its server: the part of one    *)
(* Reconcile that validates the resource reference by reference, in place  *)
(* (validateCoroot), and then writes the ConfigMap with the configuration  *)
(* file, the StatefulSet whose environment has the Secrets that the file   *)
(* names, and the Service.  The last two are merged into what is there     *)
(* (MergedSpec.tla).  The other objects of a Reconcile are left out.       *)
(*                                                                         *)
(* Around this goroutine users edit the resource and the Secrets, and      *)
(* other writers the objects.  A write is one step (see CreateOrUpdate.tla)*)
(* that may fail, and the error is dropped.                                *)
(***************************************************************************)
EXTENDS Naturals, SequencesExt

CONSTANTS
  Selectors,       \* the keys of Secrets that resources refer to
  Checksum(_),     \* the checksum of a selector, by which variables are named
  Projects,        \* how many projects a resource may have
  Resources,       \* the specs users give the resource
  SecretStates,    \* what users put into the Secrets
  Empty, Plain, Bad, Filled,  \* texts: "", a proper one, one that is not SAML
                   \* metadata; a map with the operator's own entries in it
  NoSelector, NoCopy, None,
  Limit            \* bound: how many edits, failures and interventions there are

Names == {Checksum(s) : s \in Selectors}

ASSUME NamesAssumption == Names \subseteq Nat
ASSUME ProjectsAssumption == Projects \in Nat
ASSUME TextsAssumption ==
  /\ {Empty, Plain, Bad, Filled} \cap Names = {}
  /\ Bad \notin {Empty, Plain, Filled}
ASSUME NothingAssumption == None \notin Selectors \cup {Empty, Plain, Bad, Filled}
                            /\ NoSelector \notin Selectors
ASSUME LimitAssumption == Limit \in Nat

-----------------------------------------------------------------------------
(* The parts of a resource that the operator changes in its copy.  Most    *)
(* have a text (a token, a key, a password, metadata) and perhaps a        *)
(* reference to a Secret that has it; flags are what else matters:         *)
(*   webhook      "url", "incidents", "incidentTemplate", "deployments", ..*)
(*   basicAuth    "username"           sso   "enabled"      ai  a provider *)
(* The last three are maps, of which only matters who has filled them.     *)
(* The API keys of a project are one part.                                 *)
Integrations == {"slack", "teams", "pagerduty", "opsgenie"}
Providers    == {"anthropic", "openai", "openaiCompatible"}
Maps         == {"podAnnotations", "params", "annotations"}
ProjectKinds == Integrations \cup {"apiKey", "basicAuth", "webhook"}
OtherKinds   == Providers \cup Maps \cup {"admin", "license", "sso", "saml", "ai"}

Parts == (ProjectKinds \X (1 .. Projects)) \cup {<<k>> : k \in OtherKinds}

Flags == Providers \cup
  {"url", "incidents", "incidentTemplate", "deployments", "deploymentTemplate",
   "username", "enabled"}

Texts == {Empty, Plain, Bad, Filled} \cup Names

Part == [text : Texts, secret : Selectors \cup {NoSelector}, flags : SUBSET Flags]

(* A resource has some of the parts, custom headers for Prometheus and the *)
(* port of its Service.                                                    *)
Headers == {r.headers : r \in Resources}
Ports   == {r.port : r \in Resources}

IsResource(r) ==
  /\ r = [parts |-> r.parts, headers |-> r.headers, port |-> r.port]
  /\ DOMAIN r.parts \subseteq Parts
  /\ r.parts = [p \in DOMAIN r.parts |-> r.parts[p]]
  /\ \A p \in DOMAIN r.parts : r.parts[p] \in Part
  /\ r.headers \in Headers /\ r.port \in Ports

ASSUME ResourcesAssumption == \A r \in Resources : IsResource(r)

(* Users write no placeholders, and name at most one provider.             *)
ASSUME UsersAssumption ==
  \A r \in Resources :
    /\ \A p \in DOMAIN r.parts : r.parts[p].text \notin Names
    /\ <<"ai">> \in DOMAIN r.parts =>
         \E provider \in Providers : r.parts[<<"ai">>].flags \subseteq {provider}

(* No copy, and no value, are none.                                        *)
ASSUME MarkersAssumption ==
  \A some \in SUBSET Parts :
    /\ NoCopy \notin [parts : [some -> Part], headers : Headers, port : Ports]
    /\ None \notin [some -> Part]

ASSUME SecretsAssumption ==
  SecretStates \subseteq [Selectors -> {None, Empty, Plain, Bad}]

Has(r, kind) == <<kind>> \in DOMAIN r.parts

(* The references (pointers, slices, maps) that lead to a part of each     *)
(* kind, and those in which the generated DeepCopyInto puts something new. *)
PathTo == [
  apiKey     |-> {"projects", "apiKeys"},
  slack      |-> {"projects", "notificationIntegrations", "slack"},
  teams      |-> {"projects", "notificationIntegrations", "teams"},
  pagerduty  |-> {"projects", "notificationIntegrations", "pagerduty"},
  opsgenie   |-> {"projects", "notificationIntegrations", "opsgenie"},
  webhook    |-> {"projects", "notificationIntegrations", "webhook"},
  basicAuth  |-> {"projects", "notificationIntegrations", "webhook", "basicAuth"},
  admin |-> {}, license |-> {"enterpriseEdition"},
  sso |-> {"sso"}, saml |-> {"sso", "saml"},
  ai |-> {"ai"}, anthropic |-> {"ai", "anthropic"}, openai |-> {"ai", "openai"},
  openaiCompatible |-> {"ai", "openaiCompatible"},
  podAnnotations |-> {"podAnnotations"}, params |-> {"postgres", "params"},
  annotations |-> {"annotations"}]

CorootSpecCopies == {"projects", "enterpriseEdition", "sso", "ai", "podAnnotations", "postgres"}

ProjectSpecCopiesButKeys == {"notificationIntegrations"}   \* mutant: *out = *in

ProjectSpecCopies == {"apiKeys", "notificationIntegrations"}

NotificationIntegrationsSpecCopies == {"slack", "teams", "pagerduty", "opsgenie", "webhook"}

WebhookSpecCopies == {"basicAuth"}

SSOSpecCopies == {"saml"}

AISpecCopies == Providers

PostgresSpecCopies == {"params"}

ServiceSpecCopies == {"annotations"}

Copied ==
  UNION {CorootSpecCopies, ProjectSpecCopies, NotificationIntegrationsSpecCopies,
         WebhookSpecCopies, SSOSpecCopies, AISpecCopies, PostgresSpecCopies, ServiceSpecCopies}

(* The parts that a copy of a resource shares with the original. *)
Shared == {p \in Parts : ~(PathTo[p[1]] \subseteq Copied)}

-----------------------------------------------------------------------------
(* The fields of the two merged objects.  "config" is the annotation with  *)
(* the checksum of the configuration file, and "order" the order of the    *)
(* variables for Secrets.                                                  *)
Objects == {"StatefulSet", "Service"}

Fields ==
  ({"env"} \X Names)
  \cup ({"admin", "license"} \X {"value", "valueFrom"})
  \cup ({"port"} \X Ports)
  \cup {<<"order">>, <<"headers">>, <<"config">>, <<"claims">>, <<"foreign">>}

Annotations == {<<"annotation", "ours">>, <<"annotation", "foreign">>}

M == INSTANCE MergedSpec

KeptFields(o) == IF o = "StatefulSet" THEN {<<"claims">>} ELSE {}
ReplacedFields(o) == IF o = "Service" THEN {"port"} \X Ports ELSE {}

(* A spec, or annotations, with these settings (pairs) and nothing else.   *)
ValueIn(settings, i) ==
  IF \E s \in settings : s[1] = i THEN (CHOOSE s \in settings : s[1] = i)[2] ELSE None

SpecOf(settings) == [f \in Fields |-> ValueIn(settings, f)]

AnnotationsOf(settings) == [a \in Annotations |-> ValueIn(settings, a)]

(* The parts that go into the configuration file.                          *)
ConfigOf(parts) ==
  [p \in {q \in DOMAIN parts : q[1] \notin Maps \cup {"admin", "license"}} |-> parts[p]]
-----------------------------------------------------------------------------
(* The steps of one Reconcile: the references that validateCoroot looks at *)
(* and what comes after, and their order.                                  *)
Turn ==
  [admin |-> 1,
   apiKey |-> 2, slack |-> 3, teams |-> 4, pagerduty |-> 5, opsgenie |-> 6, basicAuth |-> 7,
   webhook |-> 8,
   apiKeySecrets |-> 9, license |-> 10, sso |-> 11, ai |-> 12,
   configMap |-> 13, statefulSet |-> 14, service |-> 15]

Steps == (ProjectKinds \X (1 .. Projects)) \cup {<<k>> : k \in DOMAIN Turn \ ProjectKinds}

Precedes(a, b) ==
  IF a[1] \in ProjectKinds /\ b[1] \in ProjectKinds /\ a[2] # b[2]
  THEN a[2] < b[2] ELSE Turn[a[1]] < Turn[b[1]]

-----------------------------------------------------------------------------
VARIABLES
  \* The cluster.
  given,           \* the resource as users gave it
  secrets,         \* secrets[s]: the text under selector s, None if there is none
  configMap,       \* the configuration file: some of the parts, none at first
  objs,            \* objs[o]: the merged object o, if there is one
  \* The memory of the process.
  cache,           \* the resource in the informer's cache
  copy,            \* the copy this Reconcile works on, or NoCopy
  todo,            \* what it has yet to do: steps, which are tuples like parts
  envs,            \* the ConfigEnvs: a selector for each name
  keys,            \* the Secrets of API keys it has met
  errors,          \* the parts it has reported; when it is over, the status
  \* History.
  calm,            \* 0: something went wrong or came between; since then a
                   \* Reconcile has begun (1) or ended (2) undisturbed
  author,          \* author[o]: whether the operator was the last to write o
  forgotten,       \* forgotten[o]: the record of o is not all the operator set
  rejected,        \* the objects whose last write was turned down
  count            \* how many of them there have been

clusterVars == <<given, secrets, configMap, objs>>
passVars    == <<cache, copy, todo, envs, keys, errors>>
historyVars == <<calm, author, forgotten, rejected, count>>
vars == <<clusterVars, passVars, historyVars>>

IsItems(values, items) == values = [i \in items |-> values[i]]

IsObject(object) ==
  /\ object = [spec |-> object.spec, annotations |-> object.annotations, record |-> object.record]
  /\ IsItems(object.spec, Fields) /\ IsItems(object.annotations, Annotations)
  /\ LET r == object.record
     IN  /\ r = [readable |-> r.readable, annotations |-> r.annotations, spec |-> r.spec]
         /\ r.readable \in BOOLEAN
         /\ IsItems(r.spec, Fields) /\ IsItems(r.annotations, Annotations)

TypeOK ==
  /\ IsResource(given) /\ IsResource(cache)
  /\ copy # NoCopy => IsResource(copy)
  /\ DOMAIN secrets = Selectors
  /\ DOMAIN configMap \subseteq Parts /\ \A p \in DOMAIN configMap : configMap[p] \in Part
  /\ DOMAIN objs \subseteq Objects /\ \A o \in DOMAIN objs : IsObject(objs[o])
  /\ todo \subseteq Steps /\ (todo # {} => copy # NoCopy)
  /\ DOMAIN envs \subseteq Names /\ \A n \in DOMAIN envs : envs[n] \in Selectors
  /\ keys \subseteq Selectors
  /\ errors \subseteq Parts
  /\ calm \in 0 .. 2
  /\ author \in [Objects -> BOOLEAN] /\ forgotten \in [Objects -> BOOLEAN]
  /\ rejected \subseteq Objects
  /\ count \in Nat

-----------------------------------------------------------------------------
Nothing == [x \in {} |-> None]

(* A StatefulSet may be there that has no record: restored from a backup,  *)
(* say.  Its claim template and its password may be others than ours.      *)
Former ==
  [spec |-> SpecOf({<< <<"claims">>, "former">>, << <<"admin", "value">>, Plain>>}),
   annotations |-> AnnotationsOf({}), record |-> M!NoRecord]

Init ==
  /\ given \in Resources /\ cache = given
  /\ secrets \in SecretStates
  /\ configMap = Nothing
  /\ \E there \in SUBSET {"StatefulSet"} :
       /\ objs = [o \in there |-> Former]
       /\ forgotten = [o \in Objects |-> o \in there]
  /\ copy = NoCopy /\ todo = {} /\ envs = Nothing /\ keys = {} /\ errors = {}
  /\ calm = 0 /\ author = [o \in Objects |-> FALSE] /\ rejected = {}
  /\ count = 0

Disturbance ==
  /\ count < Limit
  /\ count' = count + 1
  /\ calm' = 0

-----------------------------------------------------------------------------
(* One Reconcile.  It starts with the cache's resource, deeply copied, and *)
(* then takes the steps whose conditions hold.                             *)
ProviderOf(r) == r.parts[<<"ai">>].flags \cap Providers

SSOEnabled(r) == Has(r, "sso") /\ "enabled" \in r.parts[<<"sso">>].flags

IsTaken(step, r) ==
  /\ step \in Parts => step \in DOMAIN r.parts
  /\ step[1] \in {"sso", "ai"} => Has(r, "license")
  /\ step[1] = "sso" => SSOEnabled(r)
  /\ step[1] = "ai" => ProviderOf(r) # {}

Begin ==
  /\ copy = NoCopy
  /\ copy' = cache
  /\ todo' = {step \in Steps : IsTaken(step, cache)}
  /\ envs' = Nothing /\ keys' = {} /\ errors' = {}
  /\ calm' = IF calm = 0 THEN 1 ELSE calm
  /\ UNCHANGED <<clusterVars, cache, author, forgotten, rejected, count>>

At(step) ==
  /\ step \in todo /\ \A other \in todo : ~Precedes(other, step)
  /\ todo' = todo \ {step}

(* Parts get new values, or are taken out of the resource; what the copy   *)
(* shares with the cache changes there too.                                *)
After(parts, changed, dropped) ==
  [p \in DOMAIN parts \ dropped |-> IF p \in DOMAIN changed THEN changed[p] ELSE parts[p]]

Store(changed, dropped) ==
  /\ copy' = [copy EXCEPT !.parts = After(@, changed, dropped)]
  /\ cache' = [cache EXCEPT !.parts =
       After(@, [p \in DOMAIN changed \cap Shared |-> changed[p]], dropped \cap Shared)]

Set(p, part) == Store([x \in {p} |-> part], {})

Drop(parts) == Store(Nothing, parts)

-----------------------------------------------------------------------------
(* validateCoroot.  GetSecret answers from the cache.                      *)
Found(selector) == secrets[selector] # None

AddNothing(selector) == envs   \* mutant: only the name is made, not the entry

Add(selector) ==
  [n \in DOMAIN envs \cup {Checksum(selector)} |->
     IF n = Checksum(selector) THEN selector ELSE envs[n]]

(* A part whose reference is looked up: the variable that it adds, and the *)
(* error if there is nothing.  An error leaves a text that was there.      *)
LookUpAndAdd(p) ==   \* mutant: the variable is added before the error is seen
  LET s == copy.parts[p].secret
  IN  /\ envs' = IF s # NoSelector THEN Add(s) ELSE envs
      /\ errors' = IF s # NoSelector /\ ~Found(s) THEN errors \cup {p} ELSE errors

LookUpInSilence(p) ==   \* mutant: the error is not reported
  LET s == copy.parts[p].secret
  IN  /\ envs' = IF s # NoSelector /\ Found(s) THEN Add(s) ELSE envs
      /\ errors' = errors

LookUp(p) ==
  LET s == copy.parts[p].secret
  IN  /\ envs' = IF s # NoSelector /\ Found(s) THEN Add(s) ELSE envs
      /\ errors' = IF s # NoSelector /\ ~Found(s) THEN errors \cup {p} ELSE errors

ResolvedToSelector(part) ==   \* mutant: the text is the selector, not a name
  [part EXCEPT !.secret = NoSelector,
               !.text = IF part.secret # NoSelector THEN part.secret ELSE @]

Resolved(part) ==
  [part EXCEPT !.secret = NoSelector,
               !.text = IF part.secret # NoSelector /\ Found(part.secret)
                        THEN Checksum(part.secret) ELSE @]

IsUsable(p, part) == part.text # Empty /\ (p[1] = "basicAuth" => "username" \in part.flags)

(* The bootstrap password keeps its reference, for the StatefulSet.        *)
CheckAdmin ==
  /\ At(<<"admin">>)
  /\ LET s == copy.parts[<<"admin">>].secret
     IN  IF s # NoSelector /\ ~Found(s)
         THEN errors' = errors \cup {<<"admin">>} /\ Drop({<<"admin">>})
         ELSE UNCHANGED <<errors, copy, cache>>
  /\ UNCHANGED <<clusterVars, envs, keys, historyVars>>

(* The Secret of an API key need not be there: it will be made.            *)
CheckApiKey ==
  /\ \E p \in {"apiKey"} \X (1 .. Projects) :
       LET s == copy.parts[p].secret
       IN  /\ At(p)
           /\ IF s = NoSelector
              THEN UNCHANGED <<envs, keys, copy, cache>>
              ELSE /\ envs' = Add(s)
                   /\ keys' = keys \cup {s}
                   /\ Set(p, [copy.parts[p] EXCEPT !.text = Checksum(s), !.secret = NoSelector])
  /\ UNCHANGED <<clusterVars, errors, historyVars>>

CheckIntegration ==
  /\ \E p \in (Integrations \cup {"basicAuth"}) \X (1 .. Projects) :
       LET part == Resolved(copy.parts[p])
       IN  /\ At(p)
           /\ LookUp(p)
           /\ IF IsUsable(p, part) THEN Set(p, part) ELSE Drop({p})
  /\ UNCHANGED <<clusterVars, keys, historyVars>>

Templates == [incidents |-> "incidentTemplate", deployments |-> "deploymentTemplate"]

CheckWebhook ==
  /\ \E p \in {"webhook"} \X (1 .. Projects) :
       LET flags == copy.parts[p].flags
           pointless == {f \in DOMAIN Templates : Templates[f] \notin flags}
       IN  /\ At(p)
           /\ IF "url" \in flags
              THEN Set(p, [copy.parts[p] EXCEPT !.flags = flags \ pointless])
              ELSE Drop({p, <<"basicAuth", p[2]>>})
  /\ UNCHANGED <<clusterVars, envs, keys, errors, historyVars>>

(* The missing keys get random strings; some of the writes may fail.       *)
FillApiKeySecrets ==
  /\ At(<<"apiKeySecrets">>)
  /\ LET missing == {s \in keys : ~Found(s)}
     IN  \E filled \in SUBSET missing :
           /\ secrets' = [s \in Selectors |-> IF s \in filled THEN Plain ELSE secrets[s]]
           /\ IF filled = missing THEN UNCHANGED <<calm, count>> ELSE Disturbance
  /\ UNCHANGED <<given, configMap, objs, cache, copy, envs, keys, errors,
                 author, forgotten, rejected>>

(* A missing license is reported, but the reference stays.                 *)
CheckLicense ==
  /\ At(<<"license">>)
  /\ LET s == copy.parts[<<"license">>].secret
     IN  errors' = IF s # NoSelector /\ ~Found(s) THEN errors \cup {<<"license">>} ELSE errors
  /\ UNCHANGED <<clusterVars, cache, copy, envs, keys, historyVars>>

(* What validateCoroot takes for the metadata: "" if the Secret is missing,*)
(* whatever the text is that stays then.                                   *)
MetadataOf(part) ==
  IF part.secret = NoSelector THEN part.text
  ELSE IF Found(part.secret) THEN secrets[part.secret] ELSE Empty

(* Metadata that cannot be parsed is taken out; the variable stays.        *)
ParsedNever(part) == Resolved(part)   \* mutant: the metadata is not looked at

Parsed(part) ==
  [Resolved(part) EXCEPT !.text = IF MetadataOf(part) = Bad THEN Empty ELSE @]

CheckSSO ==
  /\ At(<<"sso">>)
  /\ LET sso == copy.parts[<<"sso">>]
         off == [sso EXCEPT !.flags = @ \ {"enabled"}]
     IN  IF ~Has(copy, "saml")
         THEN Set(<<"sso">>, off) /\ UNCHANGED <<envs, errors>>
         ELSE LET before == copy.parts[<<"saml">>]
                  saml == Parsed(before)
                  missing == before.secret # NoSelector /\ ~Found(before.secret)
              IN  /\ envs' = IF before.secret # NoSelector /\ ~missing
                             THEN Add(before.secret) ELSE envs
                  /\ errors' = IF missing \/ MetadataOf(before) = Bad
                               THEN errors \cup {<<"saml">>} ELSE errors
                  /\ Store([p \in {<<"saml">>, <<"sso">>} |->
                              IF p = <<"saml">> THEN saml
                              ELSE IF saml.text = Empty THEN off ELSE sso], {})
  /\ UNCHANGED <<clusterVars, keys, historyVars>>

(* The CRD admits no other provider.                                       *)
CheckAI ==
  /\ At(<<"ai">>)
  /\ LET off == [copy.parts[<<"ai">>] EXCEPT !.flags = {}]
     IN  \E provider \in ProviderOf(copy) :
           IF ~Has(copy, provider)
           THEN Set(<<"ai">>, off) /\ UNCHANGED <<envs, errors>>
           ELSE LET p == <<provider>>
                    part == Resolved(copy.parts[p])
                IN  /\ LookUp(p)
                    /\ IF IsUsable(p, part) THEN Set(p, part)
                       ELSE Store([x \in {<<"ai">>} |-> off], {p})
  /\ UNCHANGED <<clusterVars, keys, historyVars>>

-----------------------------------------------------------------------------
(* The writes.                                                             *)
WriteConfigMap ==
  /\ At(<<"configMap">>)
  /\ \/ /\ configMap' = ConfigOf(copy.parts)
        /\ UNCHANGED <<calm, count>>
     \/ Disturbance /\ UNCHANGED configMap
  /\ UNCHANGED <<given, secrets, objs, cache, copy, envs, keys, errors,
                 author, forgotten, rejected>>

(* The API server turns a variable down that has a value and a source.     *)
Acceptable(object) ==
  \A v \in {"admin", "license"} :
    object.spec[<<v, "value">>] = None \/ object.spec[<<v, "valueFrom">>] = None

Exists(o) == o \in DOMAIN objs

Merged(o, target, annotations) ==
  M!Callback(IF Exists(o) THEN objs[o] ELSE M!Built(target, annotations),
             target, annotations, KeptFields(o), ReplacedFields(o))

Merges(o) == Exists(o) => M!Mergeable(objs[o])

(* CreateOrUpdateStatefulSet and CreateOrUpdateService: MergeSpecs inside  *)
(* CreateOrUpdate.  They may be without effect for three reasons.          *)
CreateOrUpdate(o, target, annotations) ==
  LET merged == Merged(o, target, annotations)
      accepted == Merges(o) /\ Acceptable(merged)
  IN  \/ /\ accepted
         /\ objs' = [x \in DOMAIN objs \cup {o} |-> IF x = o THEN merged ELSE objs[x]]
         /\ author' = [author EXCEPT ![o] = TRUE]
         /\ rejected' = rejected \ {o}
         /\ UNCHANGED <<calm, forgotten, count>>
      \/ /\ ~accepted
         /\ rejected' = rejected \cup {o} /\ calm' = 0
         /\ UNCHANGED <<objs, author, forgotten, count>>
      \/ /\ Disturbance
         /\ UNCHANGED <<objs, author, forgotten, rejected>>

(* ConfigEnvs.List: the order of its variables.                            *)
ListingsUnsorted(names) == SetToSeqs(names)   \* mutant: as Go ranges over the map

Listings(names) == {SetToSortSeq(names, <)}

(* Custom headers are joined in the order in which Go ranges over the map. *)
JoinedHeaders(headers) == SetToSeqs(headers)

(* A variable with a plain value or, if there is one, a reference; an empty*)
(* value is the same as none.                                              *)
Variable(name, part) ==
  IF part.secret # NoSelector THEN {<< <<name, "valueFrom">>, part.secret>>}
  ELSE IF part.text # Empty THEN {<< <<name, "value">>, part.text>>} ELSE {}

VariablesFor(kind) == IF Has(copy, kind) THEN Variable(kind, copy.parts[<<kind>>]) ELSE {}

(* corootStatefulSet, as far as the validated parts reach.                 *)
StatefulSetSpec(listing, joined) == SpecOf(
  {<< <<"env", n>>, envs[n]>> : n \in DOMAIN envs}
  \cup VariablesFor("admin") \cup VariablesFor("license")
  \cup (IF listing # <<>> THEN {<< <<"order">>, listing>>} ELSE {})
  \cup (IF joined # <<>> THEN {<< <<"headers">>, joined>>} ELSE {})
  \cup {<< <<"config">>, ConfigOf(copy.parts)>>, << <<"claims">>, "current">>})

(* The operator puts its own entries into maps of its copy.                *)
Fill(maps) ==
  Store([p \in DOMAIN copy.parts \cap {<<k>> : k \in maps} |->
           [copy.parts[p] EXCEPT !.text = Filled]], {})

WriteStatefulSet ==
  /\ At(<<"statefulSet">>)
  /\ \E listing \in Listings(DOMAIN envs), joined \in JoinedHeaders(copy.headers) :
       CreateOrUpdate("StatefulSet", StatefulSetSpec(listing, joined), AnnotationsOf({}))
  /\ Fill({"podAnnotations", "params"})
  /\ UNCHANGED <<given, secrets, configMap, envs, keys, errors>>

(* When the Service is made, MergeSpecs writes the record into the very map*)
(* the annotations come from.                                              *)
WriteService ==
  /\ At(<<"service">>)
  /\ LET ours == IF Has(copy, "annotations") THEN {<< <<"annotation", "ours">>, Plain>>} ELSE {}
     IN  CreateOrUpdate("Service", SpecOf({<< <<"port", copy.port>>, "http">>}), AnnotationsOf(ours))
  /\ IF ~Exists("Service") THEN Fill({"annotations"}) ELSE UNCHANGED <<copy, cache>>
  /\ UNCHANGED <<given, secrets, configMap, envs, keys, errors>>

End ==
  /\ todo = {} /\ copy # NoCopy
  /\ copy' = NoCopy /\ envs' = Nothing /\ keys' = {}
  /\ calm' = IF calm = 1 THEN 2 ELSE calm
  /\ UNCHANGED <<clusterVars, cache, todo, errors, author, forgotten, rejected, count>>

Reconcile ==
  \/ Begin \/ End
  \/ CheckAdmin \/ CheckApiKey \/ CheckIntegration \/ CheckWebhook \/ FillApiKeySecrets
  \/ CheckLicense \/ CheckSSO \/ CheckAI
  \/ WriteConfigMap \/ WriteStatefulSet \/ WriteService

-----------------------------------------------------------------------------
(* The environment.                                                        *)
EditResource ==
  /\ Disturbance
  /\ given' \in Resources \ {given} /\ cache' = given'
  /\ UNCHANGED <<secrets, configMap, objs, copy, todo, envs, keys, errors,
                 author, forgotten, rejected>>

ChangeSecrets ==
  /\ Disturbance
  /\ secrets' \in SecretStates \ {secrets}
  /\ UNCHANGED <<given, configMap, objs, passVars, author, forgotten, rejected>>

(* Others may change some fields of the operator's objects, ours or theirs,*)
(* the annotations with the record, and delete an object.                  *)
Intervention(o) ==
  /\ Exists(o)
  /\ Disturbance
  /\ author' = [author EXCEPT ![o] = FALSE]
  /\ rejected' = rejected \ {o}
  /\ UNCHANGED <<given, secrets, configMap, passVars>>

Change(o, spec, annotations, record) ==
  LET object == [spec |-> spec, annotations |-> annotations, record |-> record]
  IN  object # objs[o] /\ objs' = [objs EXCEPT ![o] = object]

Contested(o) ==
  {<<"foreign">>} \cup (IF o = "Service" THEN {"port"} \X Ports ELSE {<<"headers">>})

ChangeItem(o) ==
  /\ Intervention(o)
  /\ LET was == objs[o]
     IN  \E value \in {None, Plain} :
           \/ \E f \in Contested(o) :
                Change(o, [was.spec EXCEPT ![f] = value], was.annotations, was.record)
           \/ \E a \in Annotations :
                Change(o, was.spec, [was.annotations EXCEPT ![a] = value], was.record)
  /\ UNCHANGED forgotten

ChangeRecord(o) ==
  /\ Intervention(o)
  /\ \E record \in {M!NoRecord, M!Unreadable} :
       Change(o, objs[o].spec, objs[o].annotations, record)
  /\ forgotten' = [forgotten EXCEPT ![o] = TRUE]

DeleteObject(o) ==
  /\ Intervention(o)
  /\ objs' = [x \in DOMAIN objs \ {o} |-> objs[x]]
  /\ forgotten' = [forgotten EXCEPT ![o] = FALSE]

Environment ==
  \/ EditResource \/ ChangeSecrets
  \/ \E o \in Objects : ChangeItem(o) \/ ChangeRecord(o) \/ DeleteObject(o)

Next == Reconcile \/ Environment

Spec == Init /\ [][Next]_vars

-----------------------------------------------------------------------------
(* validateCoroot writes through pointers, slices and maps of its copy: it *)
(* must not reach the resource in the informer's cache, which is what every*)
(* later Reconcile starts from.                                            *)
CacheIsUntouched == cache = given

(* What holds when the last thing that happened was an undisturbed         *)
(* Reconcile, from the reading of the resource to the Service.             *)
Settled == calm = 2

Pod == objs["StatefulSet"].spec

(* The server resolves every placeholder of its configuration file: its    *)
(* pods have the variable, with the selector the resource has for that     *)
(* part, or another one of the resource's with the same checksum; and they *)
(* are made for this very file.                                            *)
PlaceholdersResolve ==
  Settled /\ todo = {} =>
    /\ Pod[<<"config">>] = configMap
    /\ \A p \in DOMAIN configMap :
         configMap[p].text \in Names =>
           \E q \in DOMAIN given.parts :
             /\ Pod[<<"env", configMap[p].text>>] = given.parts[q].secret
             /\ Checksum(given.parts[q].secret) = configMap[p].text
             /\ Checksum(given.parts[p].secret) = configMap[p].text

(* No pod waits for a Secret that is not there, but for a license: missing *)
(* ones are left out, and those of API keys have been made.                *)
PodsFindTheirSecrets ==
  Settled /\ ~forgotten["StatefulSet"] =>
    \A f \in ({"env"} \X Names) \cup {<<"admin", "valueFrom">>} :
      Pod[f] # None => Found(Pod[f])

(* Whatever credential a user gives for an active part is the one in use,  *)
(* with a reference before a text, or it is reported.                      *)
Active(p) ==
  \/ p[1] \in Integrations \cup {"apiKey"}
  \/ p[1] = "basicAuth" /\ "username" \in given.parts[p].flags
                        /\ "url" \in given.parts[<<"webhook", p[2]>>].flags
  \/ Has(given, "license") /\ p[1] = "saml" /\ SSOEnabled(given)
  \/ Has(given, "license") /\ Has(given, "ai") /\ p[1] \in ProviderOf(given)

IsOn(p) ==
  /\ p[1] = "saml" => "enabled" \in configMap[<<"sso">>].flags
  /\ p[1] \in Providers => p[1] \in configMap[<<"ai">>].flags

CredentialsAreUsedOrReported ==
  Settled /\ todo = {} =>
    \A p \in DOMAIN given.parts :
      LET part == given.parts[p]
          expected == IF part.secret # NoSelector THEN Checksum(part.secret) ELSE part.text
      IN  Active(p) /\ p \notin errors /\ expected # Empty =>
            p \in DOMAIN configMap /\ configMap[p].text = expected /\ IsOn(p)

(* What is on in the configuration of the enterprise edition has what it   *)
(* needs: metadata that can be parsed, a key for the provider.  The        *)
(* exceptions are the code's: a Secret that has "", and metadata in the    *)
(* text of a part whose Secret is missing, are not parsed.                 *)
WhatIsOnWorks ==
  Settled /\ Has(given, "license") =>
    /\ \A p \in DOMAIN configMap :
         p[1] \in Integrations \cup {"basicAuth"} => configMap[p].text # Empty
    /\ <<"sso">> \in DOMAIN configMap /\ "enabled" \in configMap[<<"sso">>].flags =>
         /\ <<"saml">> \in DOMAIN configMap /\ configMap[<<"saml">>].text # Empty
         /\ MetadataOf(given.parts[<<"saml">>]) # Bad
    /\ <<"ai">> \in DOMAIN configMap =>
         \A provider \in configMap[<<"ai">>].flags :
           <<provider>> \in DOMAIN configMap /\ configMap[<<provider>>].text # Empty

(* A Reconcile that finds everything as the last one has left it writes    *)
(* nothing, although it ranges over maps: pods are not rolled.  Two custom *)
(* headers are an exception, and an API key that another part refers to as *)
(* well: that part finds the Secret one Reconcile after it was made.       *)
KeysAreOwn ==
  \A p, q \in DOMAIN given.parts :
    p[1] = "apiKey" /\ given.parts[p].secret = given.parts[q].secret
      => q[1] = "apiKey" \/ given.parts[q].secret = NoSelector

QuietWhenSettled ==
  [][Settled /\ Settled' /\ Cardinality(given.headers) <= 1 /\ KeysAreOwn
       => UNCHANGED <<secrets, configMap, objs>>]_vars

(* The API server takes every StatefulSet, also when a password moves      *)
(* from a plain value to a Secret or back, and no merge fails, unless the  *)
(* record of what the operator has set was lost.                           *)
RejectedOnlyIfForgotten == \A o \in rejected : forgotten[o]

(* MergeSpecs and its callbacks implement the ownership of fields: what    *)
(* the operator set and no longer wants goes, what others set stays.       *)
Items == Fields \cup Annotations

ItemsOf(o) ==
  [i \in Items |-> IF ~Exists(o) THEN None
                   ELSE IF i \in Fields THEN objs[o].spec[i] ELSE objs[o].annotations[i]]

AskedOf(o) ==
  [i \in Items |-> IF ~Exists(o) THEN None
                   ELSE IF i \in Fields THEN objs[o].record.spec[i]
                   ELSE objs[o].record.annotations[i]]

StatefulSetFields == INSTANCE FieldOwnership WITH
  Kept <- KeptFields("StatefulSet"), Replaced <- ReplacedFields("StatefulSet"),
  exists <- Exists("StatefulSet"), items <- ItemsOf("StatefulSet"),
  asked <- AskedOf("StatefulSet"), byOperator <- author["StatefulSet"]

ServiceFields == INSTANCE FieldOwnership WITH
  Kept <- KeptFields("Service"), Replaced <- ReplacedFields("Service"),
  exists <- Exists("Service"), items <- ItemsOf("Service"),
  asked <- AskedOf("Service"), byOperator <- author["Service"]

OwnedFields == StatefulSetFields!Spec /\ ServiceFields!Spec
=============================================================================
