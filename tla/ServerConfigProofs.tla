------------------------- MODULE ServerConfigProofs -------------------------
(***************************************************************************)
(* Theorems about ServerConfig, for any selectors, checksums, projects,    *)
(* resources, Secrets and number of disturbances.                          *)
(***************************************************************************)
EXTENDS ServerConfig, TLAPS

-----------------------------------------------------------------------------
(* The cache.                                                              *)

(* Every pointer, slice and map on the way to a part that the operator     *)
(* changes is a new one in a deep copy.                                    *)
LEMMA NothingIsShared == Shared = {}
<1>1. ASSUME NEW p \in Parts
      PROVE  PathTo[p[1]] \subseteq Copied
  <2>1. p[1] \in ProjectKinds \cup OtherKinds
    BY DEF Parts
  <2>2. p[1] \in Integrations \cup {"apiKey", "basicAuth", "webhook"}
        => PathTo[p[1]] \subseteq Copied
    BY DEF Integrations, PathTo, Copied, CorootSpecCopies, ProjectSpecCopies,
           NotificationIntegrationsSpecCopies, WebhookSpecCopies
  <2>3. p[1] \in {"admin", "license", "sso", "saml", "ai"} \cup Providers \cup Maps
        => PathTo[p[1]] \subseteq Copied
    BY DEF Providers, Maps, PathTo, Copied, CorootSpecCopies, SSOSpecCopies, AISpecCopies,
           PostgresSpecCopies, ServiceSpecCopies
  <2> QED
    BY <2>1, <2>2, <2>3 DEF ProjectKinds, OtherKinds
<1> QED
  BY <1>1 DEF Shared

LEMMA StoreKeepsCache ==
  ASSUME NEW changed, NEW dropped, IsResource(cache), Store(changed, dropped)
  PROVE  cache' = cache
<1> DEFINE none == [p \in DOMAIN changed \cap Shared |-> changed[p]]
<1>1. After(cache.parts, none, dropped \cap Shared) = cache.parts
  <2>1. DOMAIN none = {} /\ dropped \cap Shared = {}
    BY NothingIsShared
  <2>2. After(cache.parts, none, dropped \cap Shared) = [p \in DOMAIN cache.parts |-> cache.parts[p]]
    <3> HIDE DEF none
    <3> QED
      BY <2>1 DEF After
  <2> QED
    BY <2>2 DEF IsResource
<1>2. cache' = [cache EXCEPT !.parts = After(cache.parts, none, dropped \cap Shared)]
  BY DEF Store
<1>3. cache = [parts |-> cache.parts, headers |-> cache.headers, port |-> cache.port]
  BY DEF IsResource
<1>4. cache' = [cache EXCEPT !.parts = cache.parts]
  BY <1>1, <1>2
<1> QED
  BY <1>3, <1>4

CacheInv == given \in Resources /\ cache = given

LEMMA CacheInvStays ==
  ASSUME CacheInv, [Next]_vars
  PROVE  CacheInv'
<1>0. IsResource(cache)
  BY ResourcesAssumption DEF CacheInv
<1>1. ASSUME UNCHANGED given, cache' = cache
      PROVE  CacheInv'
  BY <1>1 DEF CacheInv
<1>2. ASSUME NEW changed, NEW dropped, Store(changed, dropped)
      PROVE  cache' = cache
  BY <1>0, <1>2, StoreKeepsCache
<1>3. CASE Begin \/ End
  BY <1>1, <1>3 DEF Begin, End, clusterVars
<1>4. CASE CheckAdmin
  BY <1>1, <1>2, <1>4 DEF CheckAdmin, clusterVars, Set, Drop
<1>5. CASE CheckApiKey
  BY <1>1, <1>2, <1>5 DEF CheckApiKey, clusterVars, Set, Drop
<1>6. CASE CheckIntegration
  BY <1>1, <1>2, <1>6 DEF CheckIntegration, clusterVars, Set, Drop
<1>7. CASE CheckWebhook
  BY <1>1, <1>2, <1>7 DEF CheckWebhook, clusterVars, Set, Drop
<1>8. CASE FillApiKeySecrets
  BY <1>1, <1>8 DEF FillApiKeySecrets
<1>9. CASE CheckLicense
  BY <1>1, <1>9 DEF CheckLicense, clusterVars
<1>10. CASE CheckSSO
  BY <1>1, <1>2, <1>10 DEF CheckSSO, clusterVars, Set, Drop
<1>11. CASE CheckAI
  BY <1>1, <1>2, <1>11 DEF CheckAI, clusterVars, Set, Drop
<1>12. CASE WriteConfigMap
  BY <1>1, <1>12 DEF WriteConfigMap
<1>13. CASE WriteStatefulSet
  BY <1>1, <1>2, <1>13 DEF WriteStatefulSet, Fill
<1>14. CASE WriteService
  BY <1>1, <1>2, <1>14 DEF WriteService, Fill
<1>15. CASE EditResource
  BY <1>15 DEF EditResource, CacheInv
<1>16. CASE ChangeSecrets
  BY <1>1, <1>16 DEF ChangeSecrets, passVars
<1>17. ASSUME NEW o \in Objects, ChangeItem(o) \/ ChangeRecord(o) \/ DeleteObject(o)
       PROVE  CacheInv'
  BY <1>1, <1>17 DEF ChangeItem, ChangeRecord, DeleteObject, Intervention, passVars
<1>18. CASE UNCHANGED vars
  BY <1>1, <1>18 DEF vars, clusterVars, passVars
<1> QED
  BY <1>3, <1>4, <1>5, <1>6, <1>7, <1>8, <1>9, <1>10, <1>11, <1>12, <1>13, <1>14, <1>15,
     <1>16, <1>17, <1>18 DEF Next, Reconcile, Environment

(* validateCoroot and the constructors after it change the copy of the     *)
(* resource in many places; the informer's cache keeps what users gave.    *)
THEOREM CacheStaysUntouched == Spec => []CacheIsUntouched
<1>1. Init => CacheInv
  BY DEF Init, CacheInv
<1>2. CacheInv /\ [Next]_vars => CacheInv'
  BY CacheInvStays
<1>3. CacheInv => CacheIsUntouched
  BY DEF CacheInv, CacheIsUntouched
<1> QED
  BY <1>1, <1>2, <1>3, PTL DEF Spec

-----------------------------------------------------------------------------
(* What a step does to one object.                                         *)

ObjectsInv ==
  /\ \A o \in Objects : Exists(o) => IsObject(objs[o])
  /\ author \in [Objects -> BOOLEAN] /\ forgotten \in [Objects -> BOOLEAN]

(* The variables, which only the operator writes.                          *)
Passwords == {"admin", "license"} \X {"value", "valueFrom"}

Variables == Passwords \cup ({"env"} \X Names)

(* Nothing, *)
Kept(o) ==
  /\ Exists(o)' = Exists(o)
  /\ Exists(o) => objs'[o] = objs[o]
  /\ author'[o] = author[o] /\ forgotten'[o] = forgotten[o]

(* or what CreateOrUpdate has made of it, *)
Written(o, target, annotations) ==
  /\ Exists(o)' = TRUE
  /\ objs'[o] = Merged(o, target, annotations)
  /\ author'[o] = TRUE /\ forgotten'[o] = forgotten[o]

(* or what another writer has.                                             *)
Changed(o) ==
  /\ Exists(o) /\ Exists(o)' = TRUE
  /\ IsObject(objs'[o])
  /\ \A f \in KeptFields(o) : objs'[o].spec[f] = objs[o].spec[f]
  /\ \/ objs'[o].record = objs[o].record /\ forgotten'[o] = forgotten[o]
     \/ objs'[o].record \in {M!NoRecord, M!Unreadable} /\ forgotten'[o] = TRUE
  /\ \A f \in Variables : objs'[o].spec[f] = objs[o].spec[f]
  /\ author'[o] = FALSE

Deleted(o) ==
  /\ Exists(o) /\ Exists(o)' = FALSE
  /\ author'[o] = FALSE /\ forgotten'[o] = FALSE

LEMMA SpecIsItems == \A values : IsItems(SpecOf(values), Fields)
BY DEF SpecOf, IsItems

LEMMA AnnotationsAreItems == \A values : IsItems(AnnotationsOf(values), Annotations)
BY DEF AnnotationsOf, IsItems

LEMMA CallWrites ==
  ASSUME ObjectsInv, NEW o \in Objects, NEW target, NEW annotations,
         CreateOrUpdate(o, target, annotations), NEW x \in Objects
  PROVE  Kept(x) \/ (x = o /\ Written(o, target, annotations))
<1>1. CASE UNCHANGED <<objs, author, forgotten>>
  BY <1>1 DEF Kept, Exists
<1>2. CASE /\ objs' = [y \in DOMAIN objs \cup {o} |->
                     IF y = o THEN Merged(o, target, annotations) ELSE objs[y]]
           /\ author' = [author EXCEPT ![o] = TRUE] /\ UNCHANGED forgotten
  <2> DEFINE merged == Merged(o, target, annotations)
  <2>1. objs' = [y \in DOMAIN objs \cup {o} |-> IF y = o THEN merged ELSE objs[y]]
    BY <1>2
  <2> HIDE DEF merged
  <2>2. author' = [author EXCEPT ![o] = TRUE] /\ UNCHANGED forgotten
    BY <1>2
  <2>3. CASE x = o
    BY <2>1, <2>2, <2>3 DEF Written, Exists, ObjectsInv, merged
  <2>4. CASE x # o
    BY <2>1, <2>2, <2>4 DEF Kept, Exists, ObjectsInv
  <2> QED
    BY <2>3, <2>4
<1> QED
  BY <1>1, <1>2 DEF CreateOrUpdate

LEMMA NoRecordIsRecord ==
  \A r \in {M!NoRecord, M!Unreadable} :
    /\ r = [readable |-> r.readable, annotations |-> r.annotations, spec |-> r.spec]
    /\ r.readable \in BOOLEAN
    /\ IsItems(r.spec, Fields) /\ IsItems(r.annotations, Annotations)
<1> DEFINE notes == [a \in Annotations |-> None]
           spec == [f \in Fields |-> None]
<1>1. IsItems(spec, Fields) /\ IsItems(notes, Annotations)
  BY DEF IsItems
<1>2. M!NoRecord = [readable |-> TRUE, annotations |-> notes, spec |-> spec]
  BY DEF M!NoRecord
<1>3. M!NoRecord.annotations = notes /\ M!NoRecord.spec = spec
  BY <1>2
<1> HIDE DEF notes, spec
<1>4. M!Unreadable = [readable |-> FALSE, annotations |-> notes, spec |-> spec]
  BY <1>3 DEF M!Unreadable
<1>5. ASSUME NEW readable \in BOOLEAN, NEW r,
             r = [readable |-> readable, annotations |-> notes, spec |-> spec]
      PROVE  /\ r = [readable |-> r.readable, annotations |-> r.annotations, spec |-> r.spec]
             /\ r.readable \in BOOLEAN
             /\ IsItems(r.spec, Fields) /\ IsItems(r.annotations, Annotations)
  BY <1>1, <1>5
<1>6. ASSUME NEW r \in {M!NoRecord, M!Unreadable}
      PROVE  \E readable \in BOOLEAN :
               r = [readable |-> readable, annotations |-> notes, spec |-> spec]
  BY <1>2, <1>4
<1> QED
  BY <1>5, <1>6

LEMMA ChangeIsForeign ==
  ASSUME ObjectsInv, NEW o \in Objects, ChangeItem(o) \/ ChangeRecord(o), NEW x \in Objects
  PROVE  Kept(x) \/ (x = o /\ Changed(o))
<1> DEFINE was == objs[o]
<1>1. IsObject(was) /\ Exists(o) /\ author' = [author EXCEPT ![o] = FALSE]
  BY DEF ChangeItem, ChangeRecord, Intervention, ObjectsInv, Exists
<1>2. ASSUME NEW spec, NEW annotations, NEW record, Change(o, spec, annotations, record),
             forgotten' \in {forgotten, [forgotten EXCEPT ![o] = TRUE]}
      PROVE  /\ x # o => Kept(x)
             /\ Exists(o)'
             /\ objs'[o] = [spec |-> spec, annotations |-> annotations, record |-> record]
  <2> DEFINE object == [spec |-> spec, annotations |-> annotations, record |-> record]
  <2>1. objs' = [objs EXCEPT ![o] = object]
    BY <1>2 DEF Change
  <2> HIDE DEF object
  <2>2. Exists(o)' /\ objs'[o] = object
    BY <1>1, <2>1 DEF Exists
  <2>3. x # o => Kept(x)
    BY <1>1, <1>2, <2>1 DEF Kept, Exists, ObjectsInv
  <2> QED
    BY <2>2, <2>3 DEF object
<1>3. CASE ChangeItem(o)
  <2>1. ASSUME NEW value, NEW f \in Contested(o),
               Change(o, [was.spec EXCEPT ![f] = value], was.annotations, was.record)
        PROVE  Kept(x) \/ (x = o /\ Changed(o))
    <3>1. UNCHANGED forgotten
      BY <1>3 DEF ChangeItem
    <3>2. f \in Fields /\ f \notin KeptFields(o) /\ f \notin Variables
      BY DEF Contested, Fields, KeptFields, Variables, Passwords
    <3>3. IsItems(was.spec, Fields)
      BY <1>1 DEF IsObject
    <3>4. IsItems([was.spec EXCEPT ![f] = value], Fields)
      BY <3>3 DEF IsItems
    <3>5. \A g \in KeptFields(o) \cup Variables : [was.spec EXCEPT ![f] = value][g] = was.spec[g]
      BY <3>2, <3>3 DEF IsItems, KeptFields, Fields
    <3> DEFINE new == [was.spec EXCEPT ![f] = value]
    <3>6. x # o => Kept(x)
      BY <1>2, <2>1, <3>1
    <3>7. Exists(o)'
          /\ objs'[o] = [spec |-> new, annotations |-> was.annotations, record |-> was.record]
      BY <1>2, <2>1, <3>1
    <3> HIDE DEF new
    <3>8. IsObject(objs'[o])
      BY <1>1, <3>4, <3>7 DEF IsObject, new
    <3>9. Changed(o)
      BY <1>1, <3>1, <3>5, <3>7, <3>8 DEF Changed, ObjectsInv, new
    <3> QED
      BY <3>6, <3>9
  <2>2. ASSUME NEW value, NEW a \in Annotations,
               Change(o, was.spec, [was.annotations EXCEPT ![a] = value], was.record)
        PROVE  Kept(x) \/ (x = o /\ Changed(o))
    <3>1. UNCHANGED forgotten
      BY <1>3 DEF ChangeItem
    <3> DEFINE new == [was.annotations EXCEPT ![a] = value]
    <3>2. IsItems(was.annotations, Annotations)
      BY <1>1 DEF IsObject
    <3>3. IsItems(new, Annotations)
      BY <3>2 DEF IsItems
    <3>4. x # o => Kept(x)
      BY <1>2, <2>2, <3>1
    <3>5. Exists(o)' /\ objs'[o] = [spec |-> was.spec, annotations |-> new, record |-> was.record]
      BY <1>2, <2>2, <3>1
    <3> HIDE DEF new
    <3>6. IsObject(objs'[o])
      BY <1>1, <3>3, <3>5 DEF IsObject
    <3>7. Changed(o)
      BY <1>1, <3>1, <3>5, <3>6 DEF Changed, ObjectsInv
    <3> QED
      BY <3>4, <3>7
  <2> QED
    BY <1>3, <2>1, <2>2 DEF ChangeItem
<1>4. CASE ChangeRecord(o)
  <2>1. PICK record \in {M!NoRecord, M!Unreadable} :
          Change(o, was.spec, was.annotations, record)
    BY <1>4 DEF ChangeRecord
  <2>2. forgotten' = [forgotten EXCEPT ![o] = TRUE]
    BY <1>4 DEF ChangeRecord
  <2> DEFINE object == [spec |-> was.spec, annotations |-> was.annotations, record |-> record]
  <2>4. object.spec = was.spec /\ object.annotations = was.annotations /\ object.record = record
    OBVIOUS
  <2>5. IsItems(was.spec, Fields) /\ IsItems(was.annotations, Annotations)
    BY <1>1 DEF IsObject
  <2>6. IsObject(object)
    BY <2>1, <2>5, NoRecordIsRecord DEF IsObject
  <2>7. /\ x # o => Kept(x)
        /\ Exists(o)'
        /\ objs'[o] = object
    BY <1>2, <2>1, <2>2
  <2> HIDE DEF object
  <2>8. Changed(o)
    BY <1>1, <2>1, <2>2, <2>4, <2>6, <2>7 DEF Changed, ObjectsInv
  <2> QED
    BY <2>7, <2>8
<1> QED
  BY <1>3, <1>4

LEMMA DeleteIsForeign ==
  ASSUME ObjectsInv, NEW o \in Objects, DeleteObject(o), NEW x \in Objects
  PROVE  Kept(x) \/ (x = o /\ Deleted(o))
<1>1. /\ objs' = [y \in DOMAIN objs \ {o} |-> objs[y]]
      /\ author' = [author EXCEPT ![o] = FALSE] /\ forgotten' = [forgotten EXCEPT ![o] = FALSE]
      /\ Exists(o)
  BY DEF DeleteObject, Intervention
<1>2. DOMAIN objs' = DOMAIN objs \ {o}
  BY <1>1
<1>3. CASE x = o
  BY <1>1, <1>2, <1>3 DEF Deleted, Exists, ObjectsInv
<1>4. CASE x # o
  <2>1. x \in DOMAIN objs' <=> x \in DOMAIN objs
    BY <1>2, <1>4
  <2>2. x \in DOMAIN objs => objs'[x] = objs[x]
    BY <1>1, <1>4
  <2>3. author'[x] = author[x] /\ forgotten'[x] = forgotten[x]
    BY <1>1, <1>4 DEF ObjectsInv
  <2> QED
    BY <2>1, <2>2, <2>3 DEF Kept, Exists
<1> QED
  BY <1>3, <1>4

(* What the operator asks for: a variable has a value or a source.         *)
IsTarget(target, annotations) ==
  /\ IsItems(target, Fields) /\ IsItems(annotations, Annotations)
  /\ \A v \in {"admin", "license"} :
       target[<<v, "value">>] = None \/ target[<<v, "valueFrom">>] = None

LEMMA ValueIsSet ==
  ASSUME NEW settings, NEW f \in Fields, SpecOf(settings)[f] # None
  PROVE  \E s \in settings : s[1] = f
BY DEF SpecOf, ValueIn

LEMMA StatefulSetSpecIsTarget ==
  ASSUME NEW listing, NEW joined
  PROVE  IsTarget(StatefulSetSpec(listing, joined), AnnotationsOf({}))
<1> DEFINE settings ==
      {<< <<"env", n>>, envs[n]>> : n \in DOMAIN envs}
      \cup VariablesFor("admin") \cup VariablesFor("license")
      \cup (IF listing # <<>> THEN {<< <<"order">>, listing>>} ELSE {})
      \cup (IF joined # <<>> THEN {<< <<"headers">>, joined>>} ELSE {})
      \cup {<< <<"config">>, ConfigOf(copy.parts)>>, << <<"claims">>, "current">>}
<1>1. StatefulSetSpec(listing, joined) = SpecOf(settings)
  BY DEF StatefulSetSpec
<1>2. ASSUME NEW v \in {"admin", "license"}, NEW of \in {"value", "valueFrom"},
             NEW s \in settings, s[1] = <<v, of>>
      PROVE  /\ of = "value" => copy.parts[<<v>>].secret = NoSelector
             /\ of = "valueFrom" => copy.parts[<<v>>].secret # NoSelector
  <2>1. s \in VariablesFor("admin") \cup VariablesFor("license")
    BY <1>2
  <2>2. PICK kind \in {"admin", "license"} : s \in Variable(kind, copy.parts[<<kind>>])
    BY <2>1 DEF VariablesFor
  <2>3. \/ s[1] = <<kind, "valueFrom">> /\ copy.parts[<<kind>>].secret # NoSelector
        \/ s[1] = <<kind, "value">> /\ copy.parts[<<kind>>].secret = NoSelector
    BY <2>2 DEF Variable
  <2> QED
    BY <1>2, <2>3
<1>3. ASSUME NEW v \in {"admin", "license"}
      PROVE  \/ SpecOf(settings)[<<v, "value">>] = None
             \/ SpecOf(settings)[<<v, "valueFrom">>] = None
  <2>1. <<v, "value">> \in Fields /\ <<v, "valueFrom">> \in Fields
    BY DEF Fields
  <2> HIDE DEF settings
  <2> QED
    BY <1>2, <2>1, ValueIsSet
<1> QED
  BY <1>1, <1>3, SpecIsItems, AnnotationsAreItems DEF IsTarget

LEMMA ServiceSpecIsTarget ==
  ASSUME NEW port, NEW ours
  PROVE  IsTarget(SpecOf({<< <<"port", port>>, "http">>}), AnnotationsOf(ours))
<1> DEFINE settings == {<< <<"port", port>>, "http">>}
<1>1. ASSUME NEW v \in {"admin", "license"}
      PROVE  SpecOf(settings)[<<v, "value">>] = None
  <2>1. <<v, "value">> \in Fields
    BY DEF Fields
  <2>2. \A s \in settings : s[1] # <<v, "value">>
    OBVIOUS
  <2> HIDE DEF settings
  <2> QED
    BY <2>1, <2>2, ValueIsSet
<1> QED
  BY <1>1, SpecIsItems, AnnotationsAreItems DEF IsTarget

StepOf(x) ==
  \/ Kept(x)
  \/ \E target, annotations :
       IsTarget(target, annotations) /\ Written(x, target, annotations)
  \/ Changed(x)
  \/ Deleted(x)

(* The three kinds of steps, as far as objects are concerned.              *)
Elsewhere == UNCHANGED <<objs, author, forgotten, rejected>>

Call(o) ==
  \E target, annotations :
    IsTarget(target, annotations) /\ CreateOrUpdate(o, target, annotations)

Meddling(o) == ChangeItem(o) \/ ChangeRecord(o) \/ DeleteObject(o)

LEMMA KindsOfSteps ==
  ASSUME [Next]_vars
  PROVE  Elsewhere \/ \E o \in Objects : Call(o) \/ Meddling(o)
<1>1. CASE Begin \/ End
  BY <1>1 DEF Begin, End, clusterVars, Elsewhere
<1>2. CASE CheckAdmin \/ CheckApiKey \/ CheckIntegration \/ CheckWebhook
  BY <1>2 DEF CheckAdmin, CheckApiKey, CheckIntegration, CheckWebhook, clusterVars, historyVars,
              Elsewhere
<1>3. CASE FillApiKeySecrets \/ WriteConfigMap
  BY <1>3 DEF FillApiKeySecrets, WriteConfigMap, Elsewhere
<1>4. CASE CheckLicense \/ CheckSSO \/ CheckAI
  BY <1>4 DEF CheckLicense, CheckSSO, CheckAI, clusterVars, historyVars, Elsewhere
<1>5. CASE WriteStatefulSet
  <2>1. PICK listing, joined :
          CreateOrUpdate("StatefulSet", StatefulSetSpec(listing, joined), AnnotationsOf({}))
    BY <1>5 DEF WriteStatefulSet
  <2> QED
    BY <2>1, StatefulSetSpecIsTarget DEF Call, Objects
<1>6. CASE WriteService
  <2>1. PICK ours :
          CreateOrUpdate("Service", SpecOf({<< <<"port", copy.port>>, "http">>}), AnnotationsOf(ours))
    BY <1>6 DEF WriteService
  <2> QED
    BY <2>1, ServiceSpecIsTarget DEF Call, Objects
<1>7. CASE EditResource \/ ChangeSecrets
  BY <1>7 DEF EditResource, ChangeSecrets, Elsewhere
<1>8. ASSUME NEW o \in Objects, ChangeItem(o) \/ ChangeRecord(o) \/ DeleteObject(o)
      PROVE  Meddling(o)
  BY <1>8 DEF Meddling
<1>9. CASE UNCHANGED vars
  BY <1>9 DEF vars, clusterVars, historyVars, Elsewhere
<1> QED
  BY <1>1, <1>2, <1>3, <1>4, <1>5, <1>6, <1>7, <1>8, <1>9 DEF Next, Reconcile, Environment

LEMMA EveryStep ==
  ASSUME ObjectsInv, [Next]_vars, NEW x \in Objects
  PROVE  StepOf(x)
<1>1. CASE Elsewhere
  BY <1>1 DEF StepOf, Kept, Exists, Elsewhere
<1>2. ASSUME NEW o \in Objects, Call(o)
      PROVE  StepOf(x)
  BY <1>2, CallWrites DEF StepOf, Call
<1>3. ASSUME NEW o \in Objects, Meddling(o)
      PROVE  StepOf(x)
  BY <1>3, ChangeIsForeign, DeleteIsForeign DEF StepOf, Meddling
<1> QED
  BY <1>1, <1>2, <1>3, KindsOfSteps

-----------------------------------------------------------------------------
(* What CreateOrUpdate makes of an object.                                 *)

Overlay(asked, owned, value) ==
  IF asked # None THEN asked ELSE IF owned # None THEN None ELSE value

Before(o, target, annotations) ==
  IF Exists(o) THEN objs[o] ELSE M!Built(target, annotations)

IsMergeOf(merged, before, o, target, annotations) ==
  /\ IsObject(merged)
  /\ merged.record = [readable |-> TRUE, annotations |-> annotations, spec |-> target]
  /\ \A f \in Fields : merged.spec[f] =
       IF f \in KeptFields(o) THEN before.spec[f]
       ELSE IF f \in ReplacedFields(o) THEN target[f]
       ELSE Overlay(target[f], before.record.spec[f], before.spec[f])
  /\ \A a \in Annotations : merged.annotations[a] =
       Overlay(annotations[a], before.record.annotations[a], before.annotations[a])

LEMMA MergedIs ==
  ASSUME NEW o, NEW target, NEW annotations, IsTarget(target, annotations)
  PROVE  IsMergeOf(Merged(o, target, annotations), Before(o, target, annotations),
                   o, target, annotations)
<1> DEFINE before == Before(o, target, annotations)
           new == [readable |-> TRUE, annotations |-> annotations, spec |-> target]
           patch == M!ThreeWayPatch(before.record.spec, target, before.spec)
           spec == [f \in Fields |-> IF f \in KeptFields(o) THEN before.spec[f]
                      ELSE IF f \in ReplacedFields(o) THEN target[f]
                      ELSE M!Patched(before.spec, patch)[f]]
           notes == M!MergedAnnotations(before.record.annotations, annotations, before.annotations)
<1>1. Merged(o, target, annotations) = [spec |-> spec, annotations |-> notes, record |-> new]
  BY DEF Merged, Before, M!Callback, M!MergeSpecs
<1>2. ASSUME NEW f \in Fields
      PROVE  M!Patched(before.spec, patch)[f] =
               Overlay(target[f], before.record.spec[f], before.spec[f])
  <2>1. f \in DOMAIN patch <=>
          \/ target[f] # None /\ target[f] # before.spec[f]
          \/ target[f] = None /\ before.record.spec[f] # None
    BY DEF M!ThreeWayPatch
  <2>2. f \in DOMAIN patch => patch[f] = target[f]
    BY DEF M!ThreeWayPatch
  <2>3. M!Patched(before.spec, patch)[f] = IF f \in DOMAIN patch THEN patch[f] ELSE before.spec[f]
    BY DEF M!Patched
  <2> HIDE DEF patch, before
  <2> QED
    BY <2>1, <2>2, <2>3 DEF Overlay
<1>3. \A a \in Annotations : notes[a] =
        Overlay(annotations[a], before.record.annotations[a], before.annotations[a])
  BY DEF M!MergedAnnotations, Overlay
<1>4. IsItems(spec, Fields) /\ IsItems(notes, Annotations)
  BY DEF IsItems, M!MergedAnnotations
<1>5. \A f \in Fields : spec[f] =
        IF f \in KeptFields(o) THEN before.spec[f]
        ELSE IF f \in ReplacedFields(o) THEN target[f]
        ELSE Overlay(target[f], before.record.spec[f], before.spec[f])
  BY <1>2
<1>6. IsItems(target, Fields) /\ IsItems(annotations, Annotations)
  BY DEF IsTarget
<1> HIDE DEF spec, notes, before
<1>7. IsObject([spec |-> spec, annotations |-> notes, record |-> new])
  BY <1>4, <1>6 DEF IsObject
<1> QED
  BY <1>1, <1>3, <1>5, <1>7 DEF before, IsMergeOf

LEMMA HistoriesStay ==
  ASSUME ObjectsInv, [Next]_vars
  PROVE  author' \in [Objects -> BOOLEAN] /\ forgotten' \in [Objects -> BOOLEAN]
<1>1. CASE Elsewhere
  BY <1>1 DEF Elsewhere, ObjectsInv
<1>2. ASSUME NEW o \in Objects, Call(o)
      PROVE  author' \in [Objects -> BOOLEAN] /\ forgotten' \in [Objects -> BOOLEAN]
  BY <1>2 DEF Call, CreateOrUpdate, ObjectsInv
<1>3. ASSUME NEW o \in Objects, Meddling(o)
      PROVE  author' \in [Objects -> BOOLEAN] /\ forgotten' \in [Objects -> BOOLEAN]
  BY <1>3 DEF Meddling, ChangeItem, ChangeRecord, DeleteObject, Intervention, ObjectsInv
<1> QED
  BY <1>1, <1>2, <1>3, KindsOfSteps

LEMMA ObjectsStay ==
  ASSUME ObjectsInv, [Next]_vars
  PROVE  ObjectsInv'
<1>1. ASSUME NEW o \in Objects, Exists(o)'
      PROVE  IsObject(objs'[o])
  <2>1. ASSUME Kept(o)
        PROVE  IsObject(objs'[o])
    BY <1>1, <2>1 DEF Kept, ObjectsInv
  <2>2. ASSUME NEW target, NEW annotations,
               IsTarget(target, annotations), Written(o, target, annotations)
        PROVE  IsObject(objs'[o])
    <3>1. IsObject(Merged(o, target, annotations))
      BY <2>2, MergedIs DEF IsMergeOf
    <3> QED
      BY <2>2, <3>1 DEF Written
  <2>3. Changed(o) => IsObject(objs'[o])
    BY DEF Changed
  <2>4. ~Deleted(o)
    BY <1>1 DEF Deleted
  <2> QED
    BY <2>1, <2>2, <2>3, <2>4, EveryStep DEF StepOf
<1> QED
  BY <1>1, HistoriesStay DEF ObjectsInv

LEMMA ObjectsStart == Init => ObjectsInv
<1> SUFFICES ASSUME Init
             PROVE  ObjectsInv
  OBVIOUS
<1>1. PICK there \in SUBSET {"StatefulSet"} :
        /\ objs = [o \in there |-> Former]
        /\ forgotten = [o \in Objects |-> o \in there]
  BY DEF Init
<1>2. IsObject(Former)
  <2> DEFINE spec == SpecOf({<< <<"claims">>, "former">>, << <<"admin", "value">>, Plain>>})
             notes == AnnotationsOf({})
  <2>1. IsItems(spec, Fields) /\ IsItems(notes, Annotations)
    BY SpecIsItems, AnnotationsAreItems
  <2>2. Former = [spec |-> spec, annotations |-> notes, record |-> M!NoRecord]
    BY DEF Former
  <2> HIDE DEF spec, notes
  <2> QED
    BY <2>1, <2>2, NoRecordIsRecord DEF IsObject
<1> QED
  BY <1>1, <1>2 DEF Init, ObjectsInv, Exists

-----------------------------------------------------------------------------
(* No StatefulSet is turned down.                                          *)

(* The record of an object has every variable that is on it.               *)
Remembered(o) ==
  ~forgotten[o] /\ Exists(o) =>
    /\ objs[o].record.readable
    /\ \A f \in Variables : objs[o].spec[f] # None => objs[o].record.spec[f] # None

RejectedInv ==
  /\ ObjectsInv
  /\ \A o \in Objects : Remembered(o)
  /\ rejected \subseteq Objects
  /\ RejectedOnlyIfForgotten

LEMMA TargetIsAccepted ==
  ASSUME NEW o \in Objects, Remembered(o), ~forgotten[o],
         NEW target, NEW annotations, IsTarget(target, annotations)
  PROVE  /\ Merges(o) /\ Acceptable(Merged(o, target, annotations))
         /\ \A f \in Variables :
              Merged(o, target, annotations).spec[f] # None => target[f] # None
<1> DEFINE before == Before(o, target, annotations)
           merged == Merged(o, target, annotations)
<1>1. Merges(o)
  BY DEF Merges, Remembered, M!Mergeable
<1>2. ASSUME NEW f \in Variables
      PROVE  merged.spec[f] # None => target[f] # None
  <2>1. f \in Fields /\ f \notin KeptFields(o) /\ f \notin ReplacedFields(o)
    BY DEF Variables, Passwords, Fields, KeptFields, ReplacedFields
  <2>2. merged.spec[f] = Overlay(target[f], before.record.spec[f], before.spec[f])
    <3>1. IsMergeOf(merged, before, o, target, annotations)
      BY MergedIs
    <3> HIDE DEF before, merged
    <3> QED
      BY <2>1, <3>1 DEF IsMergeOf
  <2>3. CASE Exists(o)
    <3>1. before.spec[f] # None => before.record.spec[f] # None
      BY <2>3 DEF Before, Remembered
    <3> QED
      BY <2>2, <3>1 DEF Overlay
  <2>4. CASE ~Exists(o)
    <3>1. before.spec = target
      BY <2>4 DEF Before, M!Built
    <3> HIDE DEF before, merged
    <3> QED
      BY <2>2, <3>1 DEF Overlay
  <2> QED
    BY <2>3, <2>4
<1>3. Acceptable(merged)
  <2> HIDE DEF merged
  <2>1. \A v \in {"admin", "license"} :
          <<v, "value">> \in Variables /\ <<v, "valueFrom">> \in Variables
    BY DEF Variables, Passwords
  <2> QED
    BY <1>2, <2>1 DEF Acceptable, IsTarget
<1> QED
  BY <1>1, <1>2, <1>3

LEMMA MemoryStays ==
  ASSUME RejectedInv, [Next]_vars, NEW o \in Objects
  PROVE  Remembered(o)'
<1>0. ObjectsInv /\ Remembered(o)
  BY DEF RejectedInv
<1>1. CASE Kept(o)
  BY <1>0, <1>1 DEF Kept, Remembered
<1>2. ASSUME NEW target, NEW annotations,
             IsTarget(target, annotations), Written(o, target, annotations)
      PROVE  Remembered(o)'
  <2> DEFINE merged == Merged(o, target, annotations)
  <2>1. objs'[o] = merged /\ forgotten'[o] = forgotten[o]
    BY <1>2 DEF Written
  <2>2. merged.record = [readable |-> TRUE, annotations |-> annotations, spec |-> target]
    BY <1>2, MergedIs DEF IsMergeOf
  <2>3. ~forgotten[o] => \A f \in Variables : merged.spec[f] # None => target[f] # None
    BY <1>0, <1>2, TargetIsAccepted
  <2> HIDE DEF merged
  <2> QED
    BY <2>1, <2>2, <2>3 DEF Remembered
<1>3. CASE Changed(o)
  BY <1>0, <1>3 DEF Changed, Remembered
<1>4. CASE Deleted(o)
  BY <1>4 DEF Deleted, Remembered
<1> QED
  BY <1>0, <1>1, <1>2, <1>3, <1>4, EveryStep DEF StepOf

LEMMA RejectedStays ==
  ASSUME RejectedInv, [Next]_vars
  PROVE  rejected' \subseteq Objects /\ RejectedOnlyIfForgotten'
<1>1. CASE Elsewhere
  BY <1>1 DEF Elsewhere, RejectedInv, RejectedOnlyIfForgotten
<1>2. ASSUME NEW o \in Objects, Call(o)
      PROVE  rejected' \subseteq Objects /\ RejectedOnlyIfForgotten'
  <2>1. PICK target, annotations :
          IsTarget(target, annotations) /\ CreateOrUpdate(o, target, annotations)
    BY <1>2 DEF Call
  <2>2. ~forgotten[o] => Merges(o) /\ Acceptable(Merged(o, target, annotations))
    BY <2>1, TargetIsAccepted DEF RejectedInv
  <2>3. forgotten' = forgotten
    BY <2>1 DEF CreateOrUpdate
  <2>4. rejected' \subseteq rejected \/ (rejected' = rejected \cup {o} /\ forgotten[o])
    BY <2>1, <2>2 DEF CreateOrUpdate
  <2> QED
    BY <2>3, <2>4 DEF RejectedInv, RejectedOnlyIfForgotten
<1>3. ASSUME NEW o \in Objects, Meddling(o)
      PROVE  rejected' \subseteq Objects /\ RejectedOnlyIfForgotten'
  <2>1. rejected' = rejected \ {o}
    BY <1>3 DEF Meddling, ChangeItem, ChangeRecord, DeleteObject, Intervention
  <2>2. \A x \in Objects \ {o} : forgotten'[x] = forgotten[x]
    BY <1>3 DEF Meddling, ChangeItem, ChangeRecord, DeleteObject, RejectedInv, ObjectsInv
  <2> QED
    BY <2>1, <2>2 DEF RejectedInv, RejectedOnlyIfForgotten
<1> QED
  BY <1>1, <1>2, <1>3, KindsOfSteps

(* As long as nobody touches the record, neither the API server nor the    *)
(* merge turns an object of the operator down, whatever users do to the    *)
(* references and whatever others do to fields (MergeSpecs of utils.go,    *)
(* which removes the variable's old value or source).                      *)
THEOREM NothingIsRejected == Spec => []RejectedOnlyIfForgotten
<1>1. Init => RejectedInv
  <2> SUFFICES ASSUME Init
               PROVE  RejectedInv
    OBVIOUS
  <2>1. \A o \in Objects : Exists(o) => forgotten[o]
    BY DEF Init, Exists
  <2> QED
    BY <2>1, ObjectsStart DEF Init, RejectedInv, Remembered, RejectedOnlyIfForgotten
<1>2. RejectedInv /\ [Next]_vars => RejectedInv'
  BY ObjectsStay, MemoryStays, RejectedStays DEF RejectedInv
<1>3. RejectedInv => RejectedOnlyIfForgotten
  BY DEF RejectedInv
<1> QED
  BY <1>1, <1>2, <1>3, PTL DEF Spec

-----------------------------------------------------------------------------
(* The ownership of fields.                                                *)

Nobody == [i \in Items |-> None]

(* The steps of FieldOwnership.tla, for an object o.                       *)
CreateStep(o) ==
  /\ ~Exists(o) /\ Exists(o)'
  /\ ItemsOf(o)' = AskedOf(o)'
  /\ author'[o] = TRUE

ApplyStep(o) ==
  /\ Exists(o) /\ Exists(o)'
  /\ ItemsOf(o)' = [i \in Items |->
       IF i \in KeptFields(o) THEN ItemsOf(o)[i]
       ELSE IF AskedOf(o)'[i] # None \/ i \in ReplacedFields(o) THEN AskedOf(o)'[i]
       ELSE IF AskedOf(o)[i] # None THEN None ELSE ItemsOf(o)[i]]
  /\ author'[o] = TRUE

OtherStep(o) ==
  /\ AskedOf(o)' \in {AskedOf(o), Nobody}
  /\ Exists(o) /\ Exists(o)' => \A i \in KeptFields(o) : ItemsOf(o)'[i] = ItemsOf(o)[i]
  /\ author'[o] = FALSE

NoStep(o) ==
  /\ Exists(o)' = Exists(o)
  /\ ItemsOf(o)' = ItemsOf(o) /\ AskedOf(o)' = AskedOf(o)
  /\ author'[o] = author[o]

LEMMA FieldsAreNoAnnotations == Fields \cap Annotations = {}
BY DEF Fields, Annotations

LEMMA ForeignOrNoStep ==
  ASSUME ObjectsInv, NEW o \in Objects
  PROVE  /\ Kept(o) => NoStep(o)
         /\ Changed(o) => OtherStep(o)
         /\ Deleted(o) => OtherStep(o)
<1>1. ASSUME Kept(o)
      PROVE  NoStep(o)
  BY <1>1 DEF Kept, NoStep, ItemsOf, AskedOf, Exists
<1>2. ASSUME Changed(o)
      PROVE  OtherStep(o)
  <2>1. Exists(o) /\ Exists(o)' /\ author'[o] = FALSE
    BY <1>2 DEF Changed
  <2>2. KeptFields(o) \subseteq Fields
    BY DEF KeptFields, Fields
  <2>3. \A i \in KeptFields(o) : ItemsOf(o)'[i] = ItemsOf(o)[i]
    BY <1>2, <2>1, <2>2 DEF Changed, ItemsOf, Items, Exists
  <2>4. ASSUME objs'[o].record = objs[o].record
        PROVE  AskedOf(o)' = AskedOf(o)
    BY <2>1, <2>4 DEF AskedOf, Exists
  <2>5. ASSUME objs'[o].record \in {M!NoRecord, M!Unreadable}
        PROVE  AskedOf(o)' = Nobody
    <3>1. \A r \in {M!NoRecord, M!Unreadable} :
            r.spec = [f \in Fields |-> None] /\ r.annotations = [a \in Annotations |-> None]
      BY DEF M!NoRecord, M!Unreadable
    <3>2. \A i \in Items : AskedOf(o)'[i] = None
      BY <2>1, <2>5, <3>1 DEF AskedOf, Exists, Items
    <3> QED
      BY <3>2 DEF AskedOf, Nobody
  <2> QED
    BY <1>2, <2>1, <2>3, <2>4, <2>5 DEF Changed, OtherStep
<1>3. ASSUME Deleted(o)
      PROVE  OtherStep(o)
  BY <1>3 DEF Deleted, OtherStep, AskedOf, Exists, Nobody
<1> QED
  BY <1>1, <1>2, <1>3

LEMMA WrittenIsCreatedOrApplied ==
  ASSUME ObjectsInv, NEW o \in Objects, NEW target, NEW annotations,
         IsTarget(target, annotations), Written(o, target, annotations)
  PROVE  CreateStep(o) \/ ApplyStep(o)
<1> DEFINE before == Before(o, target, annotations)
           merged == Merged(o, target, annotations)
           AskedNow(i) == IF i \in Fields THEN target[i] ELSE annotations[i]
           MergedNow(i) == IF i \in Fields THEN merged.spec[i] ELSE merged.annotations[i]
<1>1. Exists(o)' /\ objs'[o] = merged /\ author'[o] = TRUE
  BY DEF Written
<1>2. IsMergeOf(merged, before, o, target, annotations)
  BY MergedIs
<1>3. ItemsOf(o)' = [i \in Items |-> MergedNow(i)]
  <2> HIDE DEF merged
  <2> QED
    BY <1>1 DEF ItemsOf, Exists
<1>4. AskedOf(o)' = [i \in Items |-> AskedNow(i)]
  <2> HIDE DEF merged, before
  <2> QED
    BY <1>1, <1>2 DEF AskedOf, Exists, IsMergeOf
<1>5. KeptFields(o) \cup ReplacedFields(o) \subseteq Fields
  BY DEF KeptFields, ReplacedFields, Fields
<1>6. CASE ~Exists(o)
  <2>1. before = [spec |-> target, annotations |-> annotations, record |-> M!NoRecord]
    BY <1>6 DEF Before, M!Built
  <2>2. /\ \A f \in Fields : before.record.spec[f] = None
        /\ \A a \in Annotations : before.record.annotations[a] = None
    BY <2>1 DEF M!NoRecord
  <2>3. before.spec = target /\ before.annotations = annotations
    BY <2>1
  <2>4. ASSUME NEW i \in Items
        PROVE  MergedNow(i) = AskedNow(i)
    <3> HIDE DEF before, merged
    <3> QED
      BY <1>2, <2>2, <2>3 DEF IsMergeOf, Overlay, Items
  <2> HIDE DEF MergedNow, AskedNow
  <2> QED
    BY <1>1, <1>3, <1>4, <1>6, <2>4 DEF CreateStep
<1>7. CASE Exists(o)
  <2>1. before = objs[o]
    BY <1>7 DEF Before
  <2>2. ASSUME NEW i \in Items
        PROVE  MergedNow(i) =
                 IF i \in KeptFields(o) THEN ItemsOf(o)[i]
                 ELSE IF AskedNow(i) # None \/ i \in ReplacedFields(o) THEN AskedNow(i)
                 ELSE IF AskedOf(o)[i] # None THEN None ELSE ItemsOf(o)[i]
    <3>1. CASE i \in Fields
      <4>1. ItemsOf(o)[i] = before.spec[i] /\ AskedOf(o)[i] = before.record.spec[i]
        BY <1>7, <2>1, <3>1 DEF ItemsOf, AskedOf
      <4> HIDE DEF before, merged
      <4> QED
        BY <1>2, <3>1, <4>1 DEF IsMergeOf, Overlay
    <3>2. CASE i \notin Fields
      <4>1. ItemsOf(o)[i] = before.annotations[i] /\ AskedOf(o)[i] = before.record.annotations[i]
        BY <1>7, <2>1, <3>2 DEF ItemsOf, AskedOf
      <4>2. i \in Annotations
        BY <3>2 DEF Items
      <4> HIDE DEF before, merged
      <4> QED
        BY <1>2, <1>5, <3>2, <4>1, <4>2 DEF IsMergeOf, Overlay
    <3> QED
      BY <3>1, <3>2
  <2> HIDE DEF MergedNow, AskedNow
  <2> QED
    BY <1>1, <1>3, <1>4, <1>7, <2>2 DEF ApplyStep
<1> QED
  BY <1>6, <1>7

LEMMA EveryStepIsOwnership ==
  ASSUME ObjectsInv, [Next]_vars, NEW o \in Objects
  PROVE  CreateStep(o) \/ ApplyStep(o) \/ OtherStep(o) \/ NoStep(o)
BY EveryStep, ForeignOrNoStep, WrittenIsCreatedOrApplied DEF StepOf

LEMMA OwnershipStarts ==
  ASSUME Init, NEW o \in Objects
  PROVE  AskedOf(o) = Nobody /\ author[o] = FALSE
<1>1. PICK there \in SUBSET {"StatefulSet"} : objs = [x \in there |-> Former]
  BY DEF Init
<1>2. CASE ~Exists(o)
  BY <1>2 DEF Init, AskedOf, Nobody
<1>3. CASE Exists(o)
  <2>1. objs[o].record = M!NoRecord
    BY <1>1, <1>3 DEF Exists, Former
  <2>2. \A i \in Items : AskedOf(o)[i] = None
    BY <1>3, <2>1 DEF AskedOf, Items, M!NoRecord
  <2> QED
    BY <2>2 DEF AskedOf, Nobody, Init
<1> QED
  BY <1>2, <1>3

(* MergeSpecs with its callbacks, and the annotation in which it remembers *)
(* what it has asked for, implement the ownership of fields, for the       *)
(* StatefulSet and the Service: what the operator does not ask for any     *)
(* more goes, what it asks for is set, and what others set stays, whatever *)
(* they change, delete or take out of the record in between.               *)
THEOREM FieldsAreOwned == Spec => OwnedFields
<1>1. Init => StatefulSetFields!Init /\ ServiceFields!Init
  BY OwnershipStarts
     DEF StatefulSetFields!Init, ServiceFields!Init, StatefulSetFields!Forgotten,
         ServiceFields!Forgotten, Nobody, Objects
<1>2. ObjectsInv /\ [Next]_vars => [StatefulSetFields!Next]_(StatefulSetFields!vars)
  <2> SUFFICES ASSUME ObjectsInv, [Next]_vars
               PROVE  [StatefulSetFields!Next]_(StatefulSetFields!vars)
    OBVIOUS
  <2> DEFINE o == "StatefulSet"
  <2>1. CreateStep(o) => StatefulSetFields!Create
    BY DEF CreateStep, StatefulSetFields!Create
  <2>2. ApplyStep(o) => StatefulSetFields!Apply
    BY DEF ApplyStep, StatefulSetFields!Apply, StatefulSetFields!Owned
  <2>3. OtherStep(o) => StatefulSetFields!Other
    BY DEF OtherStep, StatefulSetFields!Other, StatefulSetFields!Forgotten, Nobody
  <2>4. NoStep(o) => UNCHANGED StatefulSetFields!vars
    BY DEF NoStep, StatefulSetFields!vars
  <2> QED
    BY <2>1, <2>2, <2>3, <2>4, EveryStepIsOwnership DEF StatefulSetFields!Next, Objects
<1>3. ObjectsInv /\ [Next]_vars => [ServiceFields!Next]_(ServiceFields!vars)
  <2> SUFFICES ASSUME ObjectsInv, [Next]_vars
               PROVE  [ServiceFields!Next]_(ServiceFields!vars)
    OBVIOUS
  <2> DEFINE o == "Service"
  <2>1. CreateStep(o) => ServiceFields!Create
    BY DEF CreateStep, ServiceFields!Create
  <2>2. ApplyStep(o) => ServiceFields!Apply
    BY DEF ApplyStep, ServiceFields!Apply, ServiceFields!Owned
  <2>3. OtherStep(o) => ServiceFields!Other
    BY DEF OtherStep, ServiceFields!Other, ServiceFields!Forgotten, Nobody
  <2>4. NoStep(o) => UNCHANGED ServiceFields!vars
    BY DEF NoStep, ServiceFields!vars
  <2> QED
    BY <2>1, <2>2, <2>3, <2>4, EveryStepIsOwnership DEF ServiceFields!Next, Objects
<1>4. Spec => []ObjectsInv
  <2>1. ObjectsInv /\ [Next]_vars => ObjectsInv'
    BY ObjectsStay
  <2> QED
    BY <2>1, ObjectsStart, PTL DEF Spec
<1> QED
  BY <1>1, <1>2, <1>3, <1>4, PTL DEF Spec, OwnedFields, StatefulSetFields!Spec, ServiceFields!Spec
-----------------------------------------------------------------------------
(* One Reconcile.                                                          *)

(* The step in which it looks at a part.                                   *)
StepOn(p) ==
  IF p[1] = "saml" THEN <<"sso">> ELSE IF p[1] \in Providers THEN <<"ai">> ELSE p

Pending(p) == StepOn(p) \in todo

StepsHaveParts == \A step \in todo : step \in Parts => step \in DOMAIN copy.parts

TypeInv == TypeOK /\ CacheInv /\ StepsHaveParts

(* A part of the copy is one of the resource, and unchanged until its step.*)
(* A placeholder in it stands for its own reference, and has a variable.   *)
Fits(p) ==
  /\ p \in DOMAIN copy.parts => p \in DOMAIN given.parts
  /\ Pending(p) /\ p \in DOMAIN given.parts =>
       p \in DOMAIN copy.parts /\ copy.parts[p] = given.parts[p]
  /\ p \in DOMAIN copy.parts /\ copy.parts[p].text \in Names =>
       /\ given.parts[p].secret \in Selectors
       /\ Checksum(given.parts[p].secret) = copy.parts[p].text
       /\ copy.parts[p].text \in DOMAIN envs

Expected(p) ==
  IF given.parts[p].secret # NoSelector THEN Checksum(given.parts[p].secret)
  ELSE given.parts[p].text

IsOnIn(p, parts) ==
  /\ p[1] = "saml" => <<"sso">> \in DOMAIN parts /\ "enabled" \in parts[<<"sso">>].flags
  /\ p[1] \in Providers => <<"ai">> \in DOMAIN parts /\ p[1] \in parts[<<"ai">>].flags

(* What has become of a part in its step.                                  *)
Used(p) ==
  p \in DOMAIN given.parts /\ Active(p) /\ p \notin errors /\ Expected(p) # Empty =>
    p \in DOMAIN copy.parts /\ copy.parts[p].text = Expected(p) /\ IsOnIn(p, copy.parts)

NotEmpty(p) ==
  p \in DOMAIN copy.parts /\ p[1] \in Integrations \cup {"basicAuth"} =>
    copy.parts[p].text # Empty

SSOWorks ==
  <<"sso">> \in DOMAIN copy.parts /\ "enabled" \in copy.parts[<<"sso">>].flags =>
    /\ <<"saml">> \in DOMAIN copy.parts /\ copy.parts[<<"saml">>].text # Empty
    /\ MetadataOf(given.parts[<<"saml">>]) # Bad

AIWorks ==
  <<"ai">> \in DOMAIN copy.parts =>
    \A provider \in copy.parts[<<"ai">>].flags :
      /\ provider \in Providers
      /\ <<provider>> \in DOMAIN copy.parts /\ copy.parts[<<provider>>].text # Empty

AdminWorks ==
  <<"admin">> \in DOMAIN copy.parts =>
    copy.parts[<<"admin">>].secret = NoSelector \/ Found(copy.parts[<<"admin">>].secret)

(* A variable is for a reference of the resource, and its Secret is there, *)
(* or will be.                                                             *)
IsEnv(n) ==
  /\ \E q \in DOMAIN given.parts : given.parts[q].secret = envs[n]
  /\ Checksum(envs[n]) = n
  /\ Found(envs[n]) \/ (envs[n] \in keys /\ <<"apiKeySecrets">> \in todo)

InOrder ==
  /\ <<"apiKeySecrets">> \notin todo => \A step \in todo : step[1] # "apiKey"
  /\ <<"configMap">> \notin todo => todo \subseteq {<<"statefulSet">>, <<"service">>}
  /\ <<"statefulSet">> \notin todo => todo \subseteq {<<"service">>}

References == ({"env"} \X Names) \cup {<<"admin", "valueFrom">>}

PodFinds ==
  ~forgotten["StatefulSet"] =>
    \A f \in References : Pod[f] # None => Pod[f] \in Selectors /\ Found(Pod[f])

PodFits ==
  /\ Exists("StatefulSet")
  /\ Pod[<<"config">>] = configMap
  /\ \A n \in DOMAIN envs : Pod[<<"env", n>>] = envs[n]
  /\ PodFinds

PartsFit ==
  \A p \in Parts : Fits(p) /\ (~Pending(p) => Used(p) /\ NotEmpty(p))

EnvsFit == \A n \in DOMAIN envs : IsEnv(n)

EnterpriseFits ==
  Has(given, "license") =>
    (<<"sso">> \notin todo => SSOWorks) /\ (<<"ai">> \notin todo => AIWorks)

WritesFit ==
  /\ <<"admin">> \notin todo => AdminWorks
  /\ <<"configMap">> \notin todo => configMap = ConfigOf(copy.parts)
  /\ <<"statefulSet">> \notin todo => PodFits

Pass == PartsFit /\ EnvsFit /\ EnterpriseFits /\ WritesFit /\ InOrder

(* What they promise of a settled resource, for a configuration file.      *)
Works(config) ==
  /\ \A p \in DOMAIN config : p[1] \in Integrations \cup {"basicAuth"} => config[p].text # Empty
  /\ <<"sso">> \in DOMAIN config /\ "enabled" \in config[<<"sso">>].flags =>
       /\ <<"saml">> \in DOMAIN config /\ config[<<"saml">>].text # Empty
       /\ MetadataOf(given.parts[<<"saml">>]) # Bad
  /\ <<"ai">> \in DOMAIN config =>
       \A provider \in config[<<"ai">>].flags :
         <<provider>> \in DOMAIN config /\ config[<<provider>>].text # Empty

Resolves ==
  /\ Pod[<<"config">>] = configMap
  /\ \A p \in DOMAIN configMap :
       configMap[p].text \in Names =>
         \E q \in DOMAIN given.parts :
           /\ Pod[<<"env", configMap[p].text>>] = given.parts[q].secret
           /\ Checksum(given.parts[q].secret) = configMap[p].text
           /\ Checksum(given.parts[p].secret) = configMap[p].text

UsedOrReported ==
  \A p \in DOMAIN given.parts :
    Active(p) /\ p \notin errors /\ Expected(p) # Empty =>
      p \in DOMAIN configMap /\ configMap[p].text = Expected(p) /\ IsOn(p)

Known ==
  /\ Exists("StatefulSet") /\ PodFinds
  /\ DOMAIN configMap \subseteq DOMAIN given.parts
  /\ Has(given, "license") => Works(configMap)

ResultInv ==
  /\ copy # NoCopy /\ calm >= 1 => Pass
  /\ calm = 2 => Known
  /\ calm = 2 /\ copy = NoCopy => Resolves /\ UsedOrReported

-----------------------------------------------------------------------------
(* What the steps of validateCoroot do to the copy.                        *)

LEMMA ResourceIsNotNothing ==
  ASSUME NEW r, IsResource(r)
  PROVE  r # NoCopy
<1> DEFINE some == DOMAIN r.parts
<1>1. some \in SUBSET Parts /\ r.parts \in [some -> Part]
  BY DEF IsResource
<1>2. r \in [parts : [some -> Part], headers : Headers, port : Ports]
  BY <1>1 DEF IsResource
<1> QED
  BY <1>1, <1>2, MarkersAssumption

(* The copy has new values for some parts, and others no more.             *)
CopyHas(changed, dropped) ==
  /\ IsResource(copy)'
  /\ DOMAIN copy'.parts = DOMAIN copy.parts \ dropped
  /\ \A p \in DOMAIN copy'.parts :
       copy'.parts[p] = IF p \in DOMAIN changed THEN changed[p] ELSE copy.parts[p]

LEMMA StoreIs ==
  ASSUME IsResource(copy), IsResource(cache), NEW changed, NEW dropped,
         \A p \in DOMAIN changed : changed[p] \in Part,
         Store(changed, dropped)
  PROVE  cache' = cache /\ CopyHas(changed, dropped)
<1> DEFINE after == After(copy.parts, changed, dropped)
<1>1. cache' = cache
  BY StoreKeepsCache
<1>2. copy' = [parts |-> after, headers |-> copy.headers, port |-> copy.port]
  <2>1. copy' = [copy EXCEPT !.parts = after]
    BY DEF Store
  <2> HIDE DEF after
  <2> QED
    BY <2>1 DEF IsResource
<1>3. DOMAIN after = DOMAIN copy.parts \ dropped
  BY DEF After
<1>4. \A p \in DOMAIN after :
        after[p] = IF p \in DOMAIN changed THEN changed[p] ELSE copy.parts[p]
  BY DEF After
<1>5. after = [p \in DOMAIN after |-> after[p]]
  BY DEF After
<1> HIDE DEF after
<1>6. copy'.parts = after /\ copy'.headers = copy.headers /\ copy'.port = copy.port
  BY <1>2
<1>7. \A p \in DOMAIN after : after[p] \in Part
  BY <1>3, <1>4 DEF IsResource
<1>8. copy' = [parts |-> copy'.parts, headers |-> copy'.headers, port |-> copy'.port]
  BY <1>2, <1>6
<1>9. IsResource(copy)'
  BY <1>3, <1>5, <1>6, <1>7, <1>8 DEF IsResource
<1> QED
  BY <1>1, <1>3, <1>4, <1>6, <1>9 DEF CopyHas

LEMMA SetIs ==
  ASSUME IsResource(copy), IsResource(cache), NEW p, NEW part \in Part, Set(p, part)
  PROVE  cache' = cache /\ CopyHas([x \in {p} |-> part], {})
BY StoreIs DEF Set

LEMMA DropIs ==
  ASSUME IsResource(copy), IsResource(cache), NEW dropped, Drop(dropped)
  PROVE  cache' = cache /\ CopyHas(Nothing, dropped)
<1>1. \A p \in DOMAIN Nothing : Nothing[p] \in Part
  BY DEF Nothing
<1> QED
  BY <1>1, StoreIs DEF Drop

LEMMA AddedIs ==
  ASSUME NEW s
  PROVE  /\ DOMAIN Add(s) = DOMAIN envs \cup {Checksum(s)}
         /\ Add(s)[Checksum(s)] = s
         /\ \A n \in DOMAIN envs : n # Checksum(s) => Add(s)[n] = envs[n]
BY DEF Add

LEMMA ResolvedIs ==
  ASSUME NEW part \in Part
  PROVE  /\ Resolved(part) \in Part
         /\ Resolved(part).flags = part.flags
         /\ Resolved(part).secret = NoSelector
         /\ Resolved(part).text =
              IF part.secret # NoSelector /\ Found(part.secret) THEN Checksum(part.secret)
              ELSE part.text
<1>1. part = [text |-> part.text, secret |-> part.secret, flags |-> part.flags]
  BY DEF Part
<1>2. part.secret # NoSelector => Checksum(part.secret) \in Texts
  BY DEF Part, Texts, Names
<1> DEFINE text == IF part.secret # NoSelector /\ Found(part.secret) THEN Checksum(part.secret)
                   ELSE part.text
<1>3. Resolved(part) = [text |-> text, secret |-> NoSelector, flags |-> part.flags]
  <2>1. PICK t \in Texts, s \in Selectors \cup {NoSelector}, f \in SUBSET Flags :
          part = [text |-> t, secret |-> s, flags |-> f]
    BY DEF Part
  <2>2. part.text = t /\ part.secret = s /\ part.flags = f
    BY <2>1
  <2>3. Resolved(part) = [part EXCEPT !.secret = NoSelector, !.text = text]
    BY DEF Resolved
  <2> HIDE DEF text
  <2>4. Resolved(part) = [text |-> text, secret |-> NoSelector, flags |-> f]
    BY <2>1, <2>3
  <2> QED
    BY <2>2, <2>4
<1>4. text \in Texts
  BY <1>2 DEF Part
<1> HIDE DEF text
<1>5. /\ Resolved(part) \in Part
      /\ Resolved(part).flags = part.flags /\ Resolved(part).secret = NoSelector
      /\ Resolved(part).text = text
  BY <1>3, <1>4 DEF Part
<1> QED
  BY <1>5 DEF text

-----------------------------------------------------------------------------
(* A step of validateCoroot changes some parts of the copy, at most, and   *)
(* adds at most one variable.                                              *)
Adds(step, s) ==
  /\ s \in Selectors /\ envs' = Add(s)
  /\ Found(s) \/ (s \in keys' /\ step[1] = "apiKey")
  /\ \E p \in DOMAIN copy.parts : StepOn(p) = step /\ copy.parts[p].secret = s

Look(step, touched) ==
  /\ At(step)
  /\ cache' = cache /\ UNCHANGED <<clusterVars, historyVars>>
  /\ IsResource(copy)'
  /\ DOMAIN copy'.parts \subseteq DOMAIN copy.parts
  /\ \A p \in DOMAIN copy.parts \ touched :
       p \in DOMAIN copy'.parts /\ copy'.parts[p] = copy.parts[p]
  /\ touched \cap todo' = {}
  /\ envs' = envs \/ \E s : Adds(step, s)
  /\ keys \subseteq keys' /\ keys' \subseteq Selectors
  /\ errors \subseteq errors' /\ errors' \subseteq Parts

LEMMA Ready ==
  ASSUME TypeInv, NEW step, At(step)
  PROVE  /\ IsResource(copy) /\ IsResource(cache) /\ step \in todo /\ todo' = todo \ {step}
         /\ keys \subseteq Selectors /\ errors \subseteq Parts
         /\ step \in Parts => step \in DOMAIN copy.parts /\ copy.parts[step] \in Part
<1>1. step \in todo /\ copy # NoCopy
  BY DEF At, TypeInv, TypeOK
<1>2. IsResource(copy) /\ IsResource(cache)
  BY <1>1 DEF TypeInv, TypeOK
<1>3. step \in Parts => step \in DOMAIN copy.parts
  BY <1>1 DEF TypeInv, StepsHaveParts
<1> QED
  BY <1>1, <1>2, <1>3 DEF At, TypeInv, TypeOK, IsResource

LEMMA HasPart ==
  ASSUME NEW kind
  PROVE  /\ kind \in OtherKinds => <<kind>> \in Parts
         /\ \A q \in 1 .. Projects : kind \in ProjectKinds => <<kind, q>> \in Parts
BY DEF Parts

LEMMA LooksUp ==
  ASSUME NEW p \in DOMAIN copy.parts, copy.parts[p] \in Part, LookUp(p), p \in Parts,
         errors \subseteq Parts
  PROVE  /\ envs' = envs \/ Adds(StepOn(p), copy.parts[p].secret)
         /\ errors \subseteq errors' /\ errors' \subseteq Parts
<1> DEFINE s == copy.parts[p].secret
<1>1. s # NoSelector => s \in Selectors
  BY DEF Part
<1>2. CASE s # NoSelector /\ Found(s)
  <2>1. envs' = Add(s)
    BY <1>2 DEF LookUp
  <2>2. Adds(StepOn(p), s)
    BY <1>1, <1>2, <2>1 DEF Adds
  <2> QED
    BY <2>2 DEF LookUp
<1>3. CASE ~(s # NoSelector /\ Found(s))
  BY <1>3 DEF LookUp
<1> QED
  BY <1>2, <1>3

AdminChecked ==
  LET p == <<"admin">>
      s == copy.parts[p].secret
  IN  IF s # NoSelector /\ ~Found(s) THEN p \notin DOMAIN copy'.parts ELSE copy' = copy

LEMMA AdminLooks ==
  ASSUME TypeInv, CheckAdmin
  PROVE  Look(<<"admin">>, {<<"admin">>}) /\ AdminChecked
<1> DEFINE p == <<"admin">>
<1>1. At(p)
  BY DEF CheckAdmin
<1>2. /\ IsResource(copy) /\ IsResource(cache) /\ todo' = todo \ {p}
      /\ keys \subseteq Selectors /\ errors \subseteq Parts
  BY <1>1, Ready
<1>3. p \in Parts
  BY HasPart DEF OtherKinds
<1> DEFINE s == copy.parts[p].secret
<1>4. CASE ~(s # NoSelector /\ ~Found(s))
  <2>1. UNCHANGED <<errors, copy, cache>>
    BY <1>4 DEF CheckAdmin
  <2> QED
    BY <1>1, <1>2, <1>4, <2>1 DEF Look, CheckAdmin, IsResource, AdminChecked
<1>5. CASE s # NoSelector /\ ~Found(s)
  <2>0. errors' = errors \cup {p} /\ Drop({p})
    BY <1>5 DEF CheckAdmin
  <2>1. cache' = cache /\ CopyHas(Nothing, {p})
    BY <1>2, <2>0, DropIs
  <2>2. DOMAIN Nothing = {}
    BY DEF Nothing
  <2> QED
    BY <1>1, <1>2, <1>3, <1>5, <2>0, <2>1, <2>2 DEF Look, CheckAdmin, CopyHas, AdminChecked
<1> QED
  BY <1>4, <1>5

LEMMA LicenseLooks ==
  ASSUME TypeInv, CheckLicense
  PROVE  Look(<<"license">>, {})
<1> DEFINE p == <<"license">>
<1>1. At(p)
  BY DEF CheckLicense
<1>2. /\ IsResource(copy) /\ todo' = todo \ {p}
      /\ keys \subseteq Selectors /\ errors \subseteq Parts
  BY <1>1, Ready
<1>3. p \in Parts
  BY HasPart DEF OtherKinds
<1>4. UNCHANGED <<copy, cache, envs, keys, clusterVars, historyVars>>
  BY DEF CheckLicense
<1>5. errors' \in {errors, errors \cup {p}}
  BY DEF CheckLicense
<1> QED
  BY <1>1, <1>2, <1>3, <1>4, <1>5 DEF Look, IsResource

(* The parts themselves.                                                   *)
KeyTaken(p) ==
  LET s == copy.parts[p].secret
  IN  /\ p \in DOMAIN copy'.parts
      /\ s = NoSelector => copy'.parts[p] = copy.parts[p] /\ envs' = envs
      /\ s # NoSelector => copy'.parts[p].text = Checksum(s) /\ envs' = Add(s) /\ s \in keys'

LookedUp(p) ==
  LET part == Resolved(copy.parts[p])
  IN  /\ LookUp(p)
      /\ IsUsable(p, part) => p \in DOMAIN copy'.parts /\ copy'.parts[p] = part
      /\ ~IsUsable(p, part) => p \notin DOMAIN copy'.parts

WebhookChecked(q) ==
  LET p == <<"webhook", q>>
      auth == <<"basicAuth", q>>
  IN  /\ envs' = envs
      /\ "url" \in copy.parts[p].flags =>
           /\ p \in DOMAIN copy'.parts => copy'.parts[p].text = copy.parts[p].text
           /\ auth \in DOMAIN copy.parts =>
                auth \in DOMAIN copy'.parts /\ copy'.parts[auth] = copy.parts[auth]
      /\ "url" \notin copy.parts[p].flags =>
           p \notin DOMAIN copy'.parts /\ auth \notin DOMAIN copy'.parts

ProjectParts(kinds) == kinds \X (1 .. Projects)

LEMMA ProjectPartIs ==
  ASSUME TypeInv, NEW kind \in ProjectKinds, NEW p \in ProjectParts({kind}), At(p)
  PROVE  /\ IsResource(copy) /\ IsResource(cache) /\ todo' = todo \ {p}
         /\ keys \subseteq Selectors /\ errors \subseteq Parts
         /\ p \in DOMAIN copy.parts /\ p \in Parts /\ copy.parts[p] \in Part
         /\ p[1] = kind /\ StepOn(p) = p
<1>1. p \in Parts /\ p[1] = kind
  BY DEF ProjectParts, Parts
<1>2. StepOn(p) = p
  BY <1>1 DEF StepOn, ProjectKinds, Integrations, Providers
<1> QED
  BY <1>1, <1>2, Ready

LEMMA ApiKeyLooks ==
  ASSUME TypeInv, CheckApiKey
  PROVE  \E p \in ProjectParts({"apiKey"}) : Look(p, {p}) /\ KeyTaken(p)
<1>1. PICK p \in ProjectParts({"apiKey"}) :
        LET s == copy.parts[p].secret
        IN  /\ At(p)
            /\ IF s = NoSelector
               THEN UNCHANGED <<envs, keys, copy, cache>>
               ELSE /\ envs' = Add(s)
                    /\ keys' = keys \cup {s}
                    /\ Set(p, [copy.parts[p] EXCEPT !.text = Checksum(s), !.secret = NoSelector])
  BY DEF CheckApiKey, ProjectParts
<1> DEFINE s == copy.parts[p].secret
           part == [copy.parts[p] EXCEPT !.text = Checksum(s), !.secret = NoSelector]
<1>2. /\ IsResource(copy) /\ IsResource(cache) /\ todo' = todo \ {p}
      /\ keys \subseteq Selectors /\ errors \subseteq Parts
      /\ p \in DOMAIN copy.parts /\ p \in Parts /\ copy.parts[p] \in Part
      /\ p[1] = "apiKey" /\ StepOn(p) = p
  BY <1>1, ProjectPartIs DEF ProjectKinds
<1>3. UNCHANGED <<clusterVars, errors, historyVars>> /\ At(p)
  BY <1>1 DEF CheckApiKey
<1>4. CASE s = NoSelector
  <2>1. UNCHANGED <<envs, keys, copy, cache>>
    BY <1>1, <1>4
  <2> QED
    BY <1>2, <1>3, <1>4, <2>1 DEF Look, KeyTaken, IsResource
<1>5. CASE s # NoSelector
  <2>1. envs' = Add(s) /\ keys' = keys \cup {s} /\ Set(p, part)
    BY <1>1, <1>5
  <2>2. s \in Selectors
    BY <1>2, <1>5 DEF Part
  <2>3. part \in Part /\ part.text = Checksum(s)
    BY <1>2, <2>2 DEF Part, Texts, Names
  <2> HIDE DEF part
  <2> DEFINE changed == [x \in {p} |-> part]
  <2>4. cache' = cache /\ CopyHas(changed, {})
    BY <1>2, <2>1, <2>3, SetIs
  <2>5. DOMAIN changed = {p} /\ changed[p] = part
    OBVIOUS
  <2> HIDE DEF changed
  <2>6. /\ IsResource(copy)' /\ DOMAIN copy'.parts = DOMAIN copy.parts /\ copy'.parts[p] = part
        /\ \A x \in DOMAIN copy.parts \ {p} : copy'.parts[x] = copy.parts[x]
    BY <1>2, <2>4, <2>5 DEF CopyHas
  <2>7. Adds(p, s)
    BY <1>2, <2>1, <2>2 DEF Adds
  <2>8. Look(p, {p})
    BY <1>2, <1>3, <2>1, <2>2, <2>4, <2>6, <2>7 DEF Look
  <2>9. KeyTaken(p)
    BY <1>2, <1>5, <2>1, <2>3, <2>6 DEF KeyTaken
  <2> QED
    BY <2>8, <2>9
<1> QED
  BY <1>4, <1>5

LEMMA IntegrationLooks ==
  ASSUME TypeInv, CheckIntegration
  PROVE  \E p \in ProjectParts(Integrations \cup {"basicAuth"}) : Look(p, {p}) /\ LookedUp(p)
<1>1. PICK p \in ProjectParts(Integrations \cup {"basicAuth"}) :
        /\ At(p) /\ LookUp(p)
        /\ IF IsUsable(p, Resolved(copy.parts[p]))
           THEN Set(p, Resolved(copy.parts[p])) ELSE Drop({p})
  BY DEF CheckIntegration, ProjectParts
<1> DEFINE part == Resolved(copy.parts[p])
<1>2. p \in ProjectParts({p[1]}) /\ p[1] \in ProjectKinds
  BY DEF ProjectParts, ProjectKinds
<1>3. /\ IsResource(copy) /\ IsResource(cache) /\ todo' = todo \ {p}
      /\ keys \subseteq Selectors /\ errors \subseteq Parts
      /\ p \in DOMAIN copy.parts /\ p \in Parts /\ copy.parts[p] \in Part
      /\ StepOn(p) = p
  BY <1>1, <1>2, ProjectPartIs
<1>4. UNCHANGED <<clusterVars, keys, historyVars>>
  BY DEF CheckIntegration
<1>5. /\ envs' = envs \/ Adds(p, copy.parts[p].secret)
      /\ errors \subseteq errors' /\ errors' \subseteq Parts
  BY <1>1, <1>3, LooksUp
<1>6. part \in Part
  BY <1>3, ResolvedIs
<1>7. CASE IsUsable(p, part)
  <2> DEFINE changed == [x \in {p} |-> part]
  <2>1. Set(p, part)
    BY <1>1, <1>7
  <2> HIDE DEF part
  <2>2. cache' = cache /\ CopyHas(changed, {})
    BY <1>3, <1>6, <2>1, SetIs
  <2>3. DOMAIN changed = {p} /\ changed[p] = part
    OBVIOUS
  <2> HIDE DEF changed
  <2>4. /\ IsResource(copy)' /\ DOMAIN copy'.parts = DOMAIN copy.parts /\ copy'.parts[p] = part
        /\ \A x \in DOMAIN copy.parts \ {p} : copy'.parts[x] = copy.parts[x]
    BY <1>3, <2>2, <2>3 DEF CopyHas
  <2>5. Look(p, {p})
    BY <1>1, <1>3, <1>4, <1>5, <2>2, <2>4 DEF Look
  <2>6. LookedUp(p)
    BY <1>1, <1>3, <1>7, <2>4 DEF LookedUp, part
  <2> QED
    BY <2>5, <2>6
<1>8. CASE ~IsUsable(p, part)
  <2>1. Drop({p})
    BY <1>1, <1>8
  <2>2. cache' = cache /\ CopyHas(Nothing, {p})
    BY <1>3, <2>1, DropIs
  <2>3. DOMAIN Nothing = {}
    BY DEF Nothing
  <2> HIDE DEF part
  <2>4. /\ IsResource(copy)' /\ DOMAIN copy'.parts = DOMAIN copy.parts \ {p}
        /\ \A x \in DOMAIN copy.parts \ {p} : copy'.parts[x] = copy.parts[x]
    BY <1>3, <2>2, <2>3 DEF CopyHas
  <2>5. Look(p, {p})
    BY <1>1, <1>3, <1>4, <1>5, <2>2, <2>4 DEF Look
  <2>6. LookedUp(p)
    BY <1>1, <1>8, <2>4 DEF LookedUp, part
  <2> QED
    BY <2>5, <2>6
<1> QED
  BY <1>7, <1>8

LEMMA WebhookLooks ==
  ASSUME TypeInv, CheckWebhook
  PROVE  \E q \in 1 .. Projects :
           Look(<<"webhook", q>>, {<<"webhook", q>>, <<"basicAuth", q>>}) /\ WebhookChecked(q)
<1>1. PICK p \in ProjectParts({"webhook"}) :
        LET flags == copy.parts[p].flags
            pointless == {f \in DOMAIN Templates : Templates[f] \notin flags}
        IN  /\ At(p)
            /\ IF "url" \in flags
               THEN Set(p, [copy.parts[p] EXCEPT !.flags = flags \ pointless])
               ELSE Drop({p, <<"basicAuth", p[2]>>})
  BY DEF CheckWebhook, ProjectParts
<1> DEFINE q == p[2]
           auth == <<"basicAuth", q>>
           flags == copy.parts[p].flags
           pointless == {f \in DOMAIN Templates : Templates[f] \notin flags}
           part == [copy.parts[p] EXCEPT !.flags = flags \ pointless]
<1>2. /\ IsResource(copy) /\ IsResource(cache) /\ todo' = todo \ {p}
      /\ keys \subseteq Selectors /\ errors \subseteq Parts
      /\ p \in DOMAIN copy.parts /\ copy.parts[p] \in Part
  BY <1>1, ProjectPartIs DEF ProjectKinds
<1>3. p = <<"webhook", q>> /\ q \in 1 .. Projects
  BY DEF ProjectParts
<1>4. UNCHANGED <<clusterVars, envs, keys, errors, historyVars>>
  BY DEF CheckWebhook
<1>5. auth \notin todo
  <2>1. Precedes(auth, p)
    BY <1>3 DEF Precedes, Turn
  <2> QED
    BY <1>1, <2>1 DEF At
<1>6. CASE "url" \in flags
  <2>1. Set(p, part)
    BY <1>1, <1>6
  <2>2. part \in Part /\ part.text = copy.parts[p].text
    BY <1>2 DEF Part
  <2> HIDE DEF part, pointless
  <2> DEFINE changed == [x \in {p} |-> part]
  <2>3. cache' = cache /\ CopyHas(changed, {})
    BY <1>2, <2>1, <2>2, SetIs
  <2>4. DOMAIN changed = {p} /\ changed[p] = part
    OBVIOUS
  <2> HIDE DEF changed
  <2>5. /\ IsResource(copy)' /\ DOMAIN copy'.parts = DOMAIN copy.parts /\ copy'.parts[p] = part
        /\ \A x \in DOMAIN copy.parts \ {p} : copy'.parts[x] = copy.parts[x]
    BY <1>2, <2>3, <2>4 DEF CopyHas
  <2>6. Look(p, {p, auth})
    BY <1>1, <1>2, <1>4, <1>5, <2>3, <2>5 DEF Look
  <2>7. auth # p
    BY <1>3
  <2>8. WebhookChecked(q)
    BY <1>2, <1>3, <1>4, <1>6, <2>2, <2>5, <2>7 DEF WebhookChecked
  <2> QED
    BY <1>3, <2>6, <2>8
<1>7. CASE "url" \notin flags
  <2>1. Drop({p, auth})
    BY <1>1, <1>7
  <2>2. cache' = cache /\ CopyHas(Nothing, {p, auth})
    BY <1>2, <2>1, DropIs
  <2>3. DOMAIN Nothing = {}
    BY DEF Nothing
  <2>4. /\ IsResource(copy)' /\ DOMAIN copy'.parts = DOMAIN copy.parts \ {p, auth}
        /\ \A x \in DOMAIN copy.parts \ {p, auth} : copy'.parts[x] = copy.parts[x]
    BY <1>2, <2>2, <2>3 DEF CopyHas
  <2>5. Look(p, {p, auth})
    BY <1>1, <1>2, <1>4, <1>5, <2>2, <2>4 DEF Look
  <2>6. WebhookChecked(q)
    BY <1>3, <1>4, <1>7, <2>4 DEF WebhookChecked
  <2> QED
    BY <1>3, <2>5, <2>6
<1> QED
  BY <1>6, <1>7

SSOParts == {<<"sso">>, <<"saml">>}

SSOChecked ==
  LET sso  == <<"sso">>
      saml == <<"saml">>
      part == Parsed(copy.parts[saml])
      s    == copy.parts[saml].secret
  IN  /\ DOMAIN copy'.parts = DOMAIN copy.parts
      /\ saml \notin DOMAIN copy.parts =>
           "enabled" \notin copy'.parts[sso].flags /\ copy'.parts[sso].text = copy.parts[sso].text
      /\ saml \in DOMAIN copy.parts =>
           /\ copy'.parts[saml] = part
           /\ s # NoSelector /\ Found(s) => envs' = Add(s)
           /\ (s # NoSelector /\ ~Found(s)) \/ MetadataOf(copy.parts[saml]) = Bad
                => saml \in errors'
           /\ part.text = Empty => "enabled" \notin copy'.parts[sso].flags
           /\ part.text # Empty => copy'.parts[sso].flags = copy.parts[sso].flags
           /\ copy'.parts[sso].text = copy.parts[sso].text

LEMMA ParsedIs ==
  ASSUME NEW part \in Part
  PROVE  /\ Parsed(part) \in Part
         /\ Parsed(part).text =
              IF MetadataOf(part) = Bad THEN Empty ELSE Resolved(part).text
<1> DEFINE resolved == Resolved(part)
           text == IF MetadataOf(part) = Bad THEN Empty ELSE resolved.text
<1>1. resolved \in Part
  BY ResolvedIs
<1>2. Parsed(part) = [resolved EXCEPT !.text = text]
  BY DEF Parsed
<1>3. text \in Texts
  BY <1>1 DEF Texts, Part
<1> HIDE DEF resolved, text
<1>4. Parsed(part) \in Part /\ Parsed(part).text = text
  BY <1>1, <1>2, <1>3 DEF Part
<1> QED
  BY <1>4 DEF resolved, text

LEMMA SSOLooks ==
  ASSUME TypeInv, CheckSSO
  PROVE  Look(<<"sso">>, SSOParts) /\ SSOChecked
<1> DEFINE p == <<"sso">>
           saml == <<"saml">>
           sso == copy.parts[p]
           off == [sso EXCEPT !.flags = @ \ {"enabled"}]
           before == copy.parts[saml]
           after == Parsed(before)
           s == before.secret
<1>1. At(p)
  BY DEF CheckSSO
<1>2. p \in Parts /\ saml \in Parts /\ saml \notin Steps /\ p # saml
  BY HasPart DEF OtherKinds, Steps, Turn
<1>3. /\ IsResource(copy) /\ IsResource(cache) /\ todo' = todo \ {p}
      /\ keys \subseteq Selectors /\ errors \subseteq Parts
      /\ p \in DOMAIN copy.parts /\ sso \in Part
  BY <1>1, <1>2, Ready
<1>4. UNCHANGED <<clusterVars, keys, historyVars>>
  BY DEF CheckSSO
<1>5. off \in Part /\ off.text = sso.text /\ "enabled" \notin off.flags
  BY <1>3 DEF Part
<1>6. SSOParts \cap todo' = {}
  BY <1>2, <1>3 DEF SSOParts, TypeInv, TypeOK
<1>7. CASE ~Has(copy, "saml")
  <2>1. Set(p, off) /\ UNCHANGED <<envs, errors>>
    BY <1>7 DEF CheckSSO
  <2> DEFINE changed == [x \in {p} |-> off]
  <2> HIDE DEF off
  <2>2. cache' = cache /\ CopyHas(changed, {})
    BY <1>3, <1>5, <2>1, SetIs
  <2>3. DOMAIN changed = {p} /\ changed[p] = off
    OBVIOUS
  <2> HIDE DEF changed
  <2>4. /\ IsResource(copy)' /\ DOMAIN copy'.parts = DOMAIN copy.parts /\ copy'.parts[p] = off
        /\ \A x \in DOMAIN copy.parts \ {p} : copy'.parts[x] = copy.parts[x]
    BY <1>3, <2>2, <2>3 DEF CopyHas
  <2>5. Look(p, SSOParts)
    BY <1>1, <1>3, <1>4, <1>6, <2>1, <2>2, <2>4 DEF Look, SSOParts
  <2>6. SSOChecked
    BY <1>5, <1>7, <2>4 DEF SSOChecked, Has
  <2> QED
    BY <2>5, <2>6
<1>8. CASE Has(copy, "saml")
  <2> DEFINE missing == s # NoSelector /\ ~Found(s)
             kept == IF after.text = Empty THEN off ELSE sso
             changed == [x \in {saml, p} |-> IF x = saml THEN after ELSE kept]
  <2>1. /\ envs' = IF s # NoSelector /\ ~missing THEN Add(s) ELSE envs
        /\ errors' = IF missing \/ MetadataOf(before) = Bad THEN errors \cup {saml} ELSE errors
        /\ Store(changed, {})
    BY <1>8 DEF CheckSSO
  <2>2. before \in Part /\ saml \in DOMAIN copy.parts
    BY <1>3, <1>8 DEF Has, IsResource
  <2>3. after \in Part
    BY <2>2, ParsedIs
  <2>4. kept \in Part /\ kept.text = sso.text
        /\ (after.text = Empty => "enabled" \notin kept.flags)
        /\ (after.text # Empty => kept.flags = sso.flags)
    BY <1>3, <1>5
  <2>5. envs' = envs \/ Adds(p, s)
    <3>1. CASE s # NoSelector /\ Found(s)
      <4>1. s \in Selectors
        BY <2>2, <3>1 DEF Part
      <4>2. StepOn(saml) = p
        BY DEF StepOn
      <4> QED
        BY <2>1, <2>2, <3>1, <4>1, <4>2 DEF Adds
    <3>2. CASE ~(s # NoSelector /\ Found(s))
      BY <2>1, <3>2
    <3> QED
      BY <3>1, <3>2
  <2>6. errors \subseteq errors' /\ errors' \subseteq Parts
    BY <1>2, <1>3, <2>1
  <2> HIDE DEF after, kept, off
  <2>7. DOMAIN changed = {saml, p} /\ changed[saml] = after /\ changed[p] = kept
    BY <1>2
  <2> HIDE DEF changed
  <2>8. \A x \in DOMAIN changed : changed[x] \in Part
    BY <2>3, <2>4, <2>7
  <2>9. cache' = cache /\ CopyHas(changed, {})
    BY <1>3, <2>1, <2>8, StoreIs
  <2>10. /\ IsResource(copy)' /\ DOMAIN copy'.parts = DOMAIN copy.parts
         /\ copy'.parts[p] = kept /\ copy'.parts[saml] = after
         /\ \A x \in DOMAIN copy.parts \ {p, saml} : copy'.parts[x] = copy.parts[x]
    BY <1>3, <2>2, <2>7, <2>9 DEF CopyHas
  <2>11. Look(p, SSOParts)
    BY <1>1, <1>3, <1>4, <1>6, <2>5, <2>6, <2>9, <2>10 DEF Look, SSOParts
  <2>12. SSOChecked
    BY <2>1, <2>2, <2>4, <2>10 DEF SSOChecked, after
  <2> QED
    BY <2>11, <2>12
<1> QED
  BY <1>7, <1>8

AIChecked(provider) ==
  LET p    == <<provider>>
      ai   == <<"ai">>
      part == Resolved(copy.parts[p])
  IN  /\ ai \in DOMAIN copy'.parts /\ copy'.parts[ai].text = copy.parts[ai].text
      /\ p \notin DOMAIN copy.parts => envs' = envs /\ copy'.parts[ai].flags = {}
      /\ p \in DOMAIN copy.parts =>
           /\ LookUp(p)
           /\ IsUsable(p, part) => /\ p \in DOMAIN copy'.parts /\ copy'.parts[p] = part
                                   /\ copy'.parts[ai] = copy.parts[ai]
           /\ ~IsUsable(p, part) => p \notin DOMAIN copy'.parts /\ copy'.parts[ai].flags = {}

LEMMA AILooks ==
  ASSUME TypeInv, CheckAI
  PROVE  \E provider \in ProviderOf(copy) :
           Look(<<"ai">>, {<<"ai">>, <<provider>>}) /\ AIChecked(provider)
<1> DEFINE ai == <<"ai">>
           off == [copy.parts[ai] EXCEPT !.flags = {}]
<1>1. PICK provider \in ProviderOf(copy) :
        IF ~Has(copy, provider)
        THEN Set(ai, off) /\ UNCHANGED <<envs, errors>>
        ELSE LET p == <<provider>>
                 part == Resolved(copy.parts[p])
             IN  /\ LookUp(p)
                 /\ IF IsUsable(p, part) THEN Set(p, part)
                    ELSE Store([x \in {ai} |-> off], {p})
  BY DEF CheckAI
<1> DEFINE p == <<provider>>
           part == Resolved(copy.parts[p])
<1>2. At(ai) /\ UNCHANGED <<clusterVars, keys, historyVars>>
  BY DEF CheckAI
<1>3. provider \in Providers
  BY DEF ProviderOf
<1>4. ai \in Parts /\ p \in Parts /\ p \notin Steps /\ p # ai /\ StepOn(p) = ai
  <2>1. provider \in OtherKinds /\ provider \notin DOMAIN Turn /\ provider # "saml" /\ provider # "ai"
    BY <1>3 DEF OtherKinds, Turn, Providers
  <2> QED
    BY <1>3, <2>1, HasPart DEF OtherKinds, Steps, StepOn
<1>5. /\ IsResource(copy) /\ IsResource(cache) /\ todo' = todo \ {ai}
      /\ keys \subseteq Selectors /\ errors \subseteq Parts
      /\ ai \in DOMAIN copy.parts /\ copy.parts[ai] \in Part
  BY <1>2, <1>4, Ready
<1>6. off \in Part /\ off.text = copy.parts[ai].text /\ off.flags = {}
  BY <1>5 DEF Part
<1>7. {ai, p} \cap todo' = {}
  BY <1>4, <1>5 DEF TypeInv, TypeOK
<1> HIDE DEF off
<1>8. CASE p \notin DOMAIN copy.parts
  <2>1. Set(ai, off) /\ UNCHANGED <<envs, errors>>
    BY <1>1, <1>8 DEF Has
  <2> DEFINE changed == [x \in {ai} |-> off]
  <2>2. cache' = cache /\ CopyHas(changed, {})
    BY <1>5, <1>6, <2>1, SetIs
  <2>3. DOMAIN changed = {ai} /\ changed[ai] = off
    OBVIOUS
  <2> HIDE DEF changed
  <2>4. /\ IsResource(copy)' /\ DOMAIN copy'.parts = DOMAIN copy.parts /\ copy'.parts[ai] = off
        /\ \A x \in DOMAIN copy.parts \ {ai} : copy'.parts[x] = copy.parts[x]
    BY <1>5, <2>2, <2>3 DEF CopyHas
  <2>5. Look(ai, {ai, p})
    BY <1>2, <1>5, <1>7, <2>1, <2>2, <2>4 DEF Look
  <2>6. AIChecked(provider)
    BY <1>5, <1>6, <1>8, <2>1, <2>4 DEF AIChecked
  <2> QED
    BY <2>5, <2>6
<1>9. CASE p \in DOMAIN copy.parts
  <2>1. /\ LookUp(p)
        /\ IF IsUsable(p, part) THEN Set(p, part) ELSE Store([x \in {ai} |-> off], {p})
    BY <1>1, <1>9 DEF Has
  <2>2. copy.parts[p] \in Part /\ part \in Part
    BY <1>5, <1>9, ResolvedIs DEF IsResource
  <2>3. /\ envs' = envs \/ Adds(ai, copy.parts[p].secret)
        /\ errors \subseteq errors' /\ errors' \subseteq Parts
    BY <1>4, <1>5, <1>9, <2>1, <2>2, LooksUp
  <2>4. CASE IsUsable(p, part)
    <3> DEFINE changed == [x \in {p} |-> part]
    <3>1. Set(p, part)
      BY <2>1, <2>4
    <3> HIDE DEF part
    <3>2. cache' = cache /\ CopyHas(changed, {})
      BY <1>5, <2>2, <3>1, SetIs
    <3>3. DOMAIN changed = {p} /\ changed[p] = part
      OBVIOUS
    <3> HIDE DEF changed
    <3>4. /\ IsResource(copy)' /\ DOMAIN copy'.parts = DOMAIN copy.parts /\ copy'.parts[p] = part
          /\ \A x \in DOMAIN copy.parts \ {p} : copy'.parts[x] = copy.parts[x]
      BY <1>9, <3>2, <3>3 DEF CopyHas
    <3>5. Look(ai, {ai, p})
      BY <1>2, <1>5, <1>7, <2>3, <3>2, <3>4 DEF Look
    <3>6. AIChecked(provider)
      BY <1>4, <1>5, <1>9, <2>1, <2>4, <3>4 DEF AIChecked, part
    <3> QED
      BY <3>5, <3>6
  <2>5. CASE ~IsUsable(p, part)
    <3> DEFINE changed == [x \in {ai} |-> off]
    <3>1. Store(changed, {p})
      BY <2>1, <2>5
    <3>2. DOMAIN changed = {ai} /\ changed[ai] = off
      OBVIOUS
    <3> HIDE DEF changed
    <3>3. cache' = cache /\ CopyHas(changed, {p})
      BY <1>5, <1>6, <3>1, <3>2, StoreIs
    <3>4. /\ IsResource(copy)' /\ DOMAIN copy'.parts = DOMAIN copy.parts \ {p}
          /\ copy'.parts[ai] = off
          /\ \A x \in DOMAIN copy.parts \ {ai, p} : copy'.parts[x] = copy.parts[x]
      BY <1>4, <1>5, <3>2, <3>3 DEF CopyHas
    <3>5. Look(ai, {ai, p})
      BY <1>2, <1>5, <1>7, <2>3, <3>3, <3>4 DEF Look
    <3>6. AIChecked(provider)
      BY <1>4, <1>5, <1>6, <1>9, <2>1, <2>5, <3>4 DEF AIChecked
    <3> QED
      BY <3>5, <3>6
  <2> QED
    BY <2>4, <2>5
<1> QED
  BY <1>8, <1>9

(* All of them together.                                                   *)
Validating ==
  CheckAdmin \/ CheckApiKey \/ CheckIntegration \/ CheckWebhook \/ CheckLicense \/ CheckSSO
  \/ CheckAI

LEMMA ValidatingLooks ==
  ASSUME TypeInv, Validating
  PROVE  \E step, touched : Look(step, touched)
<1>1. CASE CheckAdmin \/ CheckLicense
  BY <1>1, AdminLooks, LicenseLooks
<1>2. CASE CheckApiKey \/ CheckIntegration
  BY <1>2, ApiKeyLooks, IntegrationLooks
<1>3. CASE CheckWebhook
  BY <1>3, WebhookLooks
<1>4. CASE CheckSSO \/ CheckAI
  BY <1>4, SSOLooks, AILooks
<1> QED
  BY <1>1, <1>2, <1>3, <1>4 DEF Validating

-----------------------------------------------------------------------------
(* Types.                                                                  *)

(* The types but for the resource and the two merged objects.              *)
PassTyped ==
  /\ copy # NoCopy => IsResource(copy)
  /\ DOMAIN secrets = Selectors
  /\ DOMAIN configMap \subseteq Parts /\ \A p \in DOMAIN configMap : configMap[p] \in Part
  /\ todo \subseteq Steps /\ (todo # {} => copy # NoCopy)
  /\ DOMAIN envs \subseteq Names /\ \A n \in DOMAIN envs : envs[n] \in Selectors
  /\ keys \subseteq Selectors
  /\ errors \subseteq Parts
  /\ calm \in 0 .. 2
  /\ count \in Nat
  /\ StepsHaveParts

LEMMA LookKeepsTypes ==
  ASSUME TypeInv, NEW step, NEW touched, Look(step, touched)
  PROVE  PassTyped'
<1>1. /\ todo' = todo \ {step} /\ IsResource(copy)'
      /\ touched \cap todo' = {} /\ DOMAIN copy'.parts \subseteq DOMAIN copy.parts
      /\ \A p \in DOMAIN copy.parts \ touched : p \in DOMAIN copy'.parts
  BY DEF Look, At
<1>2. UNCHANGED <<secrets, configMap, calm, count>>
  BY DEF Look, clusterVars, historyVars
<1>3. copy' # NoCopy
  BY <1>1, ResourceIsNotNothing
<1>4. StepsHaveParts'
  BY <1>1 DEF StepsHaveParts, TypeInv
<1>5. DOMAIN envs' \subseteq Names /\ \A n \in DOMAIN envs' : envs'[n] \in Selectors
  <2>1. DOMAIN envs \subseteq Names /\ \A n \in DOMAIN envs : envs[n] \in Selectors
    BY DEF TypeInv, TypeOK
  <2>2. ASSUME NEW s, Adds(step, s)
        PROVE  DOMAIN envs' \subseteq Names /\ \A n \in DOMAIN envs' : envs'[n] \in Selectors
    <3>1. s \in Selectors /\ envs' = Add(s) /\ Checksum(s) \in Names
      BY <2>2 DEF Adds, Names
    <3>2. /\ DOMAIN Add(s) = DOMAIN envs \cup {Checksum(s)}
          /\ Add(s)[Checksum(s)] = s
          /\ \A n \in DOMAIN envs : n # Checksum(s) => Add(s)[n] = envs[n]
      BY AddedIs
    <3> QED
      BY <2>1, <3>1, <3>2
  <2> QED
    BY <2>1, <2>2 DEF Look
<1>6. keys' \subseteq Selectors /\ errors' \subseteq Parts
  BY DEF Look
<1> QED
  BY <1>1, <1>2, <1>3, <1>4, <1>5, <1>6 DEF PassTyped, TypeInv, TypeOK

LEMMA BeginKeepsTypes ==
  ASSUME TypeInv, Begin
  PROVE  PassTyped'
<1>1. IsResource(copy)' /\ copy' # NoCopy /\ copy' = cache
  BY ResourceIsNotNothing DEF Begin, TypeInv, TypeOK
<1>2. todo' \subseteq Steps /\ \A step \in todo' : IsTaken(step, cache)
  BY DEF Begin
<1>3. StepsHaveParts'
  BY <1>1, <1>2 DEF StepsHaveParts, IsTaken
<1>4. DOMAIN Nothing = {}
  BY DEF Nothing
<1> QED
  BY <1>1, <1>2, <1>3, <1>4 DEF Begin, PassTyped, TypeInv, TypeOK, clusterVars

(* Fill is Store of parts with another text.                               *)
FilledParts(maps) == DOMAIN copy.parts \cap {<<k>> : k \in maps}

LEMMA FillIs ==
  ASSUME TypeInv, copy # NoCopy, NEW maps, Fill(maps)
  PROVE  /\ cache' = cache /\ IsResource(copy)'
         /\ DOMAIN copy'.parts = DOMAIN copy.parts
         /\ \A p \in FilledParts(maps) : copy'.parts[p].text = Filled
         /\ \A p \in DOMAIN copy.parts \ FilledParts(maps) : copy'.parts[p] = copy.parts[p]
<1> DEFINE filled == FilledParts(maps)
           changed == [p \in filled |-> [copy.parts[p] EXCEPT !.text = Filled]]
<1>1. IsResource(copy) /\ IsResource(cache)
  BY DEF TypeInv, TypeOK
<1>2. Store(changed, {})
  BY DEF Fill, FilledParts
<1>3. DOMAIN changed = filled
  OBVIOUS
<1>4. \A p \in filled : changed[p] \in Part /\ changed[p].text = Filled
  BY <1>1 DEF IsResource, FilledParts, Part, Texts
<1> HIDE DEF changed
<1>5. cache' = cache /\ CopyHas(changed, {})
  BY <1>1, <1>2, <1>3, <1>4, StoreIs
<1>6. filled \subseteq DOMAIN copy.parts
  BY DEF FilledParts
<1> HIDE DEF filled
<1>7. /\ IsResource(copy)' /\ DOMAIN copy'.parts = DOMAIN copy.parts
      /\ \A p \in filled : copy'.parts[p] = changed[p]
      /\ \A p \in DOMAIN copy.parts \ filled : copy'.parts[p] = copy.parts[p]
  BY <1>3, <1>5, <1>6 DEF CopyHas
<1> QED
  BY <1>4, <1>5, <1>7 DEF filled

(* A write: nothing but one of the objects, and perhaps a part that is a   *)
(* map, changes.                                                           *)
Writing(step, maps) ==
  /\ At(step)
  /\ cache' = cache /\ UNCHANGED <<given, secrets, envs, keys, errors>>
  /\ IsResource(copy)'
  /\ DOMAIN copy'.parts = DOMAIN copy.parts
  /\ \A p \in FilledParts(maps) : copy'.parts[p] # copy.parts[p] => copy'.parts[p].text = Filled
  /\ \A p \in DOMAIN copy.parts \ FilledParts(maps) : copy'.parts[p] = copy.parts[p]
  /\ calm' \in {0, calm} /\ count' \in {count, count + 1}

LEMMA ConfigMapWrites ==
  ASSUME TypeInv, WriteConfigMap
  PROVE  Writing(<<"configMap">>, {})
<1>1. IsResource(copy)
  BY DEF TypeInv, TypeOK, WriteConfigMap, At
<1> QED
  BY <1>1 DEF WriteConfigMap, Writing, Disturbance, IsResource

LEMMA StatefulSetWrites ==
  ASSUME TypeInv, WriteStatefulSet
  PROVE  Writing(<<"statefulSet">>, {"podAnnotations", "params"}) /\ UNCHANGED configMap
<1>1. At(<<"statefulSet">>) /\ copy # NoCopy /\ Fill({"podAnnotations", "params"})
      /\ UNCHANGED <<given, secrets, configMap, envs, keys, errors>>
  BY DEF TypeInv, TypeOK, WriteStatefulSet, At
<1>2. calm' \in {0, calm} /\ count' \in {count, count + 1}
  BY DEF WriteStatefulSet, CreateOrUpdate, Disturbance
<1> QED
  BY <1>1, <1>2, FillIs DEF Writing

LEMMA ServiceWrites ==
  ASSUME TypeInv, WriteService
  PROVE  Writing(<<"service">>, {"annotations"}) /\ UNCHANGED configMap
<1>1. At(<<"service">>) /\ copy # NoCopy /\ IsResource(copy)
      /\ UNCHANGED <<given, secrets, configMap, envs, keys, errors>>
  BY DEF TypeInv, TypeOK, WriteService, At
<1>2. calm' \in {0, calm} /\ count' \in {count, count + 1}
  BY DEF WriteService, CreateOrUpdate, Disturbance
<1>3. CASE Fill({"annotations"})
  BY <1>1, <1>2, <1>3, FillIs DEF Writing
<1>4. CASE UNCHANGED <<copy, cache>>
  BY <1>1, <1>2, <1>4 DEF Writing
<1> QED
  BY <1>3, <1>4 DEF WriteService

LEMMA WritingKeepsTypes ==
  ASSUME TypeInv, NEW step, NEW maps, Writing(step, maps),
         DOMAIN configMap' \subseteq Parts, \A p \in DOMAIN configMap' : configMap'[p] \in Part
  PROVE  PassTyped'
<1>1. copy' # NoCopy
  BY ResourceIsNotNothing DEF Writing
<1>2. todo' \subseteq todo
  BY DEF Writing, At
<1>3. StepsHaveParts'
  BY <1>2 DEF StepsHaveParts, TypeInv, Writing
<1> QED
  BY <1>1, <1>2, <1>3 DEF Writing, PassTyped, TypeInv, TypeOK

LEMMA ConfigIsTyped ==
  ASSUME TypeInv, copy # NoCopy
  PROVE  /\ DOMAIN ConfigOf(copy.parts) \subseteq Parts
         /\ \A p \in DOMAIN ConfigOf(copy.parts) :
              ConfigOf(copy.parts)[p] = copy.parts[p] /\ copy.parts[p] \in Part
         /\ ConfigOf(copy.parts) # None
<1> DEFINE some == {q \in DOMAIN copy.parts : q[1] \notin Maps \cup {"admin", "license"}}
<1>1. IsResource(copy)
  BY DEF TypeInv, TypeOK
<1>2. some \in SUBSET Parts /\ \A p \in some : copy.parts[p] \in Part
  BY <1>1 DEF IsResource
<1>3. ConfigOf(copy.parts) = [p \in some |-> copy.parts[p]]
  BY DEF ConfigOf
<1> HIDE DEF some
<1>4. ConfigOf(copy.parts) \in [some -> Part]
  BY <1>2, <1>3
<1>5. ConfigOf(copy.parts) # None
  BY <1>2, <1>4, MarkersAssumption
<1> QED
  BY <1>2, <1>3, <1>5

LEMMA TypesOfPassStay ==
  ASSUME TypeInv, [Next]_vars
  PROVE  PassTyped'
<1>0. DOMAIN Nothing = {}
  BY DEF Nothing
<1>1. CASE Begin
  BY <1>1, BeginKeepsTypes
<1>2. CASE End
  BY <1>0, <1>2 DEF End, clusterVars, PassTyped, TypeInv, TypeOK, StepsHaveParts
<1>3. CASE Validating
  BY <1>3, ValidatingLooks, LookKeepsTypes
<1>4. CASE FillApiKeySecrets
  <2>1. /\ UNCHANGED <<configMap, copy, envs, keys, errors>>
        /\ todo' \subseteq todo /\ todo # {} /\ DOMAIN secrets' = Selectors
    BY <1>4 DEF FillApiKeySecrets, At
  <2>2. calm' \in {0, calm} /\ count' \in {count, count + 1}
    BY <1>4 DEF FillApiKeySecrets, Disturbance
  <2> QED
    BY <2>1, <2>2 DEF PassTyped, TypeInv, TypeOK, StepsHaveParts
<1>5. CASE WriteConfigMap
  <2>1. configMap' \in {configMap, ConfigOf(copy.parts)} /\ copy # NoCopy
    BY <1>5 DEF WriteConfigMap, At, TypeInv, TypeOK
  <2>2. DOMAIN configMap' \subseteq Parts /\ \A p \in DOMAIN configMap' : configMap'[p] \in Part
    BY <2>1, ConfigIsTyped DEF TypeInv, TypeOK
  <2> QED
    BY <1>5, <2>2, ConfigMapWrites, WritingKeepsTypes
<1>6. CASE WriteStatefulSet \/ WriteService
  <2>1. DOMAIN configMap \subseteq Parts /\ \A p \in DOMAIN configMap : configMap[p] \in Part
    BY DEF TypeInv, TypeOK
  <2>2. UNCHANGED configMap /\ \E step, maps : Writing(step, maps)
    BY <1>6, StatefulSetWrites, ServiceWrites
  <2> QED
    BY <2>1, <2>2, WritingKeepsTypes
<1>7. CASE EditResource
  BY <1>7 DEF EditResource, Disturbance, PassTyped, TypeInv, TypeOK, StepsHaveParts
<1>8. CASE ChangeSecrets
  <2>1. DOMAIN secrets' = Selectors
    BY <1>8, SecretsAssumption DEF ChangeSecrets
  <2> QED
    BY <1>8, <2>1
       DEF ChangeSecrets, Disturbance, passVars, PassTyped, TypeInv, TypeOK, StepsHaveParts
<1>9. ASSUME NEW o \in Objects, ChangeItem(o) \/ ChangeRecord(o) \/ DeleteObject(o)
      PROVE  PassTyped'
  BY <1>9 DEF ChangeItem, ChangeRecord, DeleteObject, Intervention, Disturbance, passVars,
              PassTyped, TypeInv, TypeOK, StepsHaveParts
<1>10. CASE UNCHANGED vars
  BY <1>10 DEF vars, clusterVars, passVars, historyVars, PassTyped, TypeInv, TypeOK,
               StepsHaveParts
<1> QED
  BY <1>1, <1>2, <1>3, <1>4, <1>5, <1>6, <1>7, <1>8, <1>9, <1>10
     DEF Next, Reconcile, Environment, Validating

LEMMA NoOtherObjects ==
  ASSUME DOMAIN objs \subseteq Objects, [Next]_vars
  PROVE  DOMAIN objs' \subseteq Objects
<1>1. CASE Elsewhere
  BY <1>1 DEF Elsewhere
<1>2. ASSUME NEW o \in Objects, Call(o)
      PROVE  DOMAIN objs' \subseteq Objects
  BY <1>2 DEF Call, CreateOrUpdate
<1>3. ASSUME NEW o \in Objects, Meddling(o)
      PROVE  DOMAIN objs' \subseteq Objects
  BY <1>3 DEF Meddling, ChangeItem, ChangeRecord, DeleteObject, Change
<1> QED
  BY <1>1, <1>2, <1>3, KindsOfSteps

TypeAndHistoryInv == TypeInv /\ RejectedInv

LEMMA TypesStart == Init => TypeAndHistoryInv
<1> SUFFICES ASSUME Init
             PROVE  TypeAndHistoryInv
  OBVIOUS
<1>1. RejectedInv
  <2>1. \A o \in Objects : Exists(o) => forgotten[o]
    BY DEF Init, Exists
  <2> QED
    BY <2>1, ObjectsStart DEF Init, RejectedInv, Remembered, RejectedOnlyIfForgotten
<1>2. DOMAIN objs \subseteq Objects /\ \A o \in DOMAIN objs : IsObject(objs[o])
  <2>1. DOMAIN objs \subseteq Objects
    BY DEF Init, Objects
  <2> QED
    BY <1>1, <2>1 DEF RejectedInv, ObjectsInv, Exists
<1>3. DOMAIN secrets = Selectors
  BY SecretsAssumption DEF Init
<1>4. IsResource(given)
  BY ResourcesAssumption DEF Init
<1>5. DOMAIN Nothing = {}
  BY DEF Nothing
<1>6. PassTyped
  BY <1>3, <1>5 DEF Init, PassTyped, StepsHaveParts
<1>7. CacheInv /\ IsResource(cache)
  BY <1>4 DEF Init, CacheInv
<1>8. TypeOK
  BY <1>1, <1>2, <1>4, <1>6, <1>7 DEF TypeOK, PassTyped, RejectedInv, ObjectsInv
<1> QED
  BY <1>1, <1>6, <1>7, <1>8 DEF TypeAndHistoryInv, TypeInv, PassTyped

LEMMA TypesStay ==
  ASSUME TypeAndHistoryInv, [Next]_vars
  PROVE  TypeAndHistoryInv'
<1>1. RejectedInv'
  BY ObjectsStay, MemoryStays, RejectedStays DEF RejectedInv, TypeAndHistoryInv
<1>2. CacheInv'
  BY CacheInvStays DEF TypeAndHistoryInv, TypeInv
<1>3. IsResource(given)' /\ IsResource(cache)'
  BY <1>2, ResourcesAssumption DEF CacheInv
<1>4. DOMAIN objs' \subseteq Objects /\ \A o \in DOMAIN objs' : IsObject(objs'[o])
  BY <1>1, NoOtherObjects DEF RejectedInv, ObjectsInv, Exists, TypeAndHistoryInv, TypeInv, TypeOK
<1>5. PassTyped'
  BY TypesOfPassStay DEF TypeAndHistoryInv
<1> QED
  BY <1>1, <1>2, <1>3, <1>4, <1>5
     DEF TypeAndHistoryInv, TypeInv, TypeOK, PassTyped, RejectedInv, ObjectsInv

(* The types, in particular: the texts of a validated resource are texts   *)
(* of users or names of variables, variables are for references to Secrets,*)
(* and every step that is left finds its part in the copy.                 *)
THEOREM TypesCorrect == Spec => []TypeOK
<1>1. TypeAndHistoryInv /\ [Next]_vars => TypeAndHistoryInv'
  BY TypesStay
<1>2. TypeAndHistoryInv => TypeOK
  BY DEF TypeAndHistoryInv, TypeInv
<1> QED
  BY <1>1, <1>2, TypesStart, PTL DEF Spec

-----------------------------------------------------------------------------
(* The validation, part by part.                                           *)

(* A step looks at its own parts; only a webhook takes another with it.    *)
Local(step, touched) ==
  /\ step \in Parts
  /\ \A p \in touched : StepOn(p) = step \/ p[1] = "basicAuth"

LEMMA WritesAreNoParts ==
  \A kind \in {"apiKeySecrets", "configMap", "statefulSet", "service"} : <<kind>> \notin Parts
BY DEF Parts, OtherKinds, Providers, Maps

LEMMA VariablesStay ==
  ASSUME NEW step, NEW touched, Look(step, touched)
  PROVE  /\ DOMAIN envs \subseteq DOMAIN envs'
         /\ \A n \in DOMAIN envs' : (n \in DOMAIN envs /\ envs'[n] = envs[n])
                                    \/ \E s : Adds(step, s) /\ envs'[n] = s /\ n = Checksum(s)
<1>1. CASE envs' = envs
  BY <1>1
<1>2. ASSUME NEW s, Adds(step, s)
      PROVE  /\ DOMAIN envs \subseteq DOMAIN envs'
             /\ \A n \in DOMAIN envs' : (n \in DOMAIN envs /\ envs'[n] = envs[n])
                                        \/ \E x : Adds(step, x) /\ envs'[n] = x /\ n = Checksum(x)
  <2>1. envs' = Add(s)
    BY <1>2 DEF Adds
  <2>2. /\ DOMAIN Add(s) = DOMAIN envs \cup {Checksum(s)}
        /\ Add(s)[Checksum(s)] = s
        /\ \A n \in DOMAIN envs : n # Checksum(s) => Add(s)[n] = envs[n]
    BY AddedIs
  <2> QED
    BY <1>2, <2>1, <2>2
<1> QED
  BY <1>1, <1>2 DEF Look

LEMMA LookKeepsUntouched ==
  ASSUME TypeInv, Pass, NEW step, NEW touched, Look(step, touched), Local(step, touched),
         NEW p \in Parts, p \notin touched
  PROVE  /\ Fits(p)'
         /\ StepOn(p) # step /\ ~Pending(p)' => Used(p)' /\ NotEmpty(p)'
<1>1. /\ todo' = todo \ {step} /\ given' = given /\ errors \subseteq errors'
      /\ DOMAIN copy'.parts \subseteq DOMAIN copy.parts
      /\ \A x \in DOMAIN copy.parts \ touched :
           x \in DOMAIN copy'.parts /\ copy'.parts[x] = copy.parts[x]
  BY DEF Look, At, clusterVars
<1>2. DOMAIN envs \subseteq DOMAIN envs'
  BY VariablesStay
<1>3. Fits(p) /\ (~Pending(p) => Used(p) /\ NotEmpty(p))
  BY DEF Pass, PartsFit
<1>4. Fits(p)'
  BY <1>1, <1>2, <1>3 DEF Fits, Pending
<1>5. ASSUME StepOn(p) # step, ~Pending(p)'
      PROVE  Used(p)' /\ NotEmpty(p)'
  <2>1. Used(p) /\ NotEmpty(p)
    BY <1>1, <1>3, <1>5 DEF Pending
  <2>2. NotEmpty(p)'
    BY <1>1, <2>1 DEF NotEmpty
  <2>3. p[1] = "saml" => <<"sso">> \notin touched
    <3>1. StepOn(<<"sso">>) = <<"sso">>
      BY DEF StepOn, Providers
    <3>2. p[1] = "saml" => StepOn(p) = <<"sso">>
      BY DEF StepOn
    <3> QED
      BY <1>5, <3>1, <3>2 DEF Local
  <2>4. p[1] \in Providers => <<"ai">> \notin touched
    <3>1. StepOn(<<"ai">>) = <<"ai">>
      BY DEF StepOn, Providers
    <3>2. p[1] \in Providers => StepOn(p) = <<"ai">>
      BY DEF StepOn, Providers
    <3> QED
      BY <1>5, <3>1, <3>2 DEF Local
  <2>5. IsOnIn(p, copy.parts) => IsOnIn(p, copy'.parts)
    BY <1>1, <2>3, <2>4 DEF IsOnIn
  <2>6. Active(p)' <=> Active(p)
    BY <1>1 DEF Active, ProviderOf, SSOEnabled, Has
  <2>7. Expected(p)' = Expected(p)
    BY <1>1 DEF Expected
  <2>8. Used(p)'
    BY <1>1, <2>1, <2>5, <2>6, <2>7 DEF Used
  <2> QED
    BY <2>2, <2>8
<1> QED
  BY <1>4, <1>5

LEMMA LookKeepsRest ==
  ASSUME TypeInv, Pass, NEW step, NEW touched, Look(step, touched), Local(step, touched)
  PROVE  /\ EnvsFit' /\ InOrder'
         /\ step # <<"admin">> => WritesFit'
         /\ step = <<"admin">> /\ AdminWorks' => WritesFit'
         /\ step # <<"sso">> /\ <<"sso">> \notin todo' /\ Has(given, "license") => SSOWorks'
         /\ step # <<"ai">> /\ <<"ai">> \notin todo' /\ Has(given, "license") => AIWorks'
<1>1. /\ step \in todo /\ todo' = todo \ {step}
      /\ UNCHANGED <<given, secrets, configMap, objs, forgotten>>
      /\ keys \subseteq keys'
      /\ DOMAIN copy'.parts \subseteq DOMAIN copy.parts
      /\ \A x \in DOMAIN copy.parts \ touched :
           x \in DOMAIN copy'.parts /\ copy'.parts[x] = copy.parts[x]
  BY DEF Look, At, clusterVars, historyVars
<1>2. step \notin {<<"apiKeySecrets">>, <<"configMap">>, <<"statefulSet">>, <<"service">>}
  BY WritesAreNoParts DEF Local
<1>3. <<"configMap">> \in todo' /\ <<"statefulSet">> \in todo'
  BY <1>1, <1>2 DEF Pass, InOrder
<1>4. InOrder'
  BY <1>1, <1>2, <1>3 DEF Pass, InOrder
<1>5. EnvsFit'
  <2> SUFFICES ASSUME NEW n \in DOMAIN envs'
               PROVE  IsEnv(n)'
    BY DEF EnvsFit
  <2>1. CASE n \in DOMAIN envs /\ envs'[n] = envs[n]
    <3>1. IsEnv(n)
      BY <2>1 DEF Pass, EnvsFit
    <3> QED
      BY <1>1, <1>2, <2>1, <3>1 DEF IsEnv, Found
  <2>2. ASSUME NEW s, Adds(step, s), envs'[n] = s, n = Checksum(s)
        PROVE  IsEnv(n)'
    <3>1. PICK p \in DOMAIN copy.parts : StepOn(p) = step /\ copy.parts[p].secret = s
      BY <2>2 DEF Adds
    <3>2. p \in Parts
      <4>1. IsResource(copy)
        BY <1>1 DEF TypeInv, TypeOK
      <4> QED
        BY <4>1 DEF IsResource
    <3>3. p \in DOMAIN given.parts /\ copy.parts[p] = given.parts[p]
      BY <1>1, <3>1, <3>2 DEF Pass, PartsFit, Fits, Pending
    <3>4. Found(s)' \/ (s \in keys' /\ <<"apiKeySecrets">> \in todo')
      BY <1>1, <1>2, <2>2 DEF Adds, Found, Pass, InOrder
    <3> QED
      BY <1>1, <2>2, <3>1, <3>3, <3>4 DEF IsEnv
  <2> QED
    BY <2>1, <2>2, VariablesStay
<1>6. ASSUME step # <<"admin">>, <<"admin">> \notin todo'
      PROVE  AdminWorks'
  <2>1. AdminWorks
    BY <1>1, <1>6 DEF Pass, WritesFit
  <2>2. <<"admin">> \notin touched
    BY <1>6 DEF Local, StepOn, Providers
  <2> QED
    BY <1>1, <2>1, <2>2 DEF AdminWorks, Found
<1>7. (<<"admin">> \notin todo' => AdminWorks') => WritesFit'
  BY <1>3 DEF WritesFit
<1>8. ASSUME step # <<"sso">>, <<"sso">> \notin todo', Has(given, "license")
      PROVE  SSOWorks'
  <2>1. SSOWorks
    BY <1>1, <1>8 DEF Pass, EnterpriseFits
  <2>2. <<"sso">> \notin touched /\ <<"saml">> \notin touched
    BY <1>8 DEF Local, StepOn, Providers
  <2>3. MetadataOf(given.parts[<<"saml">>])' = MetadataOf(given.parts[<<"saml">>])
    BY <1>1 DEF MetadataOf, Found
  <2> QED
    BY <1>1, <2>1, <2>2, <2>3 DEF SSOWorks
<1>9. ASSUME step # <<"ai">>, <<"ai">> \notin todo', Has(given, "license")
      PROVE  AIWorks'
  <2>1. AIWorks
    BY <1>1, <1>9 DEF Pass, EnterpriseFits
  <2>2. <<"ai">> \notin touched /\ \A provider \in Providers : <<provider>> \notin touched
    BY <1>9 DEF Local, StepOn, Providers
  <2> QED
    BY <1>1, <2>1, <2>2 DEF AIWorks
<1> QED
  BY <1>4, <1>5, <1>6, <1>7, <1>8, <1>9

(* What is left to show of a step, for all of Pass.                        *)
Looked(step, touched) ==
  /\ \A p \in Parts : p \in touched => Fits(p)'
  /\ \A p \in Parts : p \in touched \/ StepOn(p) = step => Used(p)' /\ NotEmpty(p)'
  /\ step = <<"admin">> => AdminWorks'
  /\ step = <<"sso">> => SSOWorks'
  /\ step = <<"ai">> => AIWorks'

LEMMA LookKeepsPass ==
  ASSUME TypeInv, Pass, NEW step, NEW touched, Look(step, touched), Local(step, touched),
         Looked(step, touched)
  PROVE  Pass'
<1>1. PartsFit'
  <2> SUFFICES ASSUME NEW p \in Parts
               PROVE  Fits(p)' /\ (~Pending(p)' => Used(p)' /\ NotEmpty(p)')
    BY DEF PartsFit
  <2>1. CASE p \in touched
    BY <2>1 DEF Looked
  <2>2. CASE p \notin touched
    BY <2>2, LookKeepsUntouched DEF Looked
  <2> QED
    BY <2>1, <2>2
<1>2. EnvsFit' /\ InOrder' /\ WritesFit'
  BY LookKeepsRest DEF Looked
<1>3. given' = given
  BY DEF Look, clusterVars
<1>4. EnterpriseFits'
  BY <1>3, LookKeepsRest DEF Looked, EnterpriseFits, Has
<1> QED
  BY <1>1, <1>2, <1>4 DEF Pass

(* A part that a step looks at is still as users gave it.                  *)
LEMMA PendingIsGiven ==
  ASSUME TypeInv, Pass, copy # NoCopy, NEW p \in Parts, Pending(p)
  PROVE  /\ p \in DOMAIN copy.parts <=> p \in DOMAIN given.parts
         /\ p \in DOMAIN given.parts =>
              /\ copy.parts[p] = given.parts[p] /\ given.parts[p] \in Part
              /\ given.parts[p].text \notin Names
<1>1. Fits(p)
  BY DEF Pass, PartsFit
<1>2. given \in Resources
  BY DEF TypeInv, CacheInv
<1> QED
  BY <1>1, <1>2, UsersAssumption DEF Fits, TypeInv, TypeOK, IsResource

LEMMA AdminKeepsPass ==
  ASSUME TypeInv, Pass, CheckAdmin
  PROVE  Pass'
<1> DEFINE p == <<"admin">>
<1>1. Look(p, {p}) /\ AdminChecked
  BY AdminLooks
<1>2. /\ p \in todo /\ todo' = todo \ {p} /\ given' = given /\ secrets' = secrets
      /\ copy # NoCopy
  BY <1>1 DEF Look, At, clusterVars, TypeInv, TypeOK
<1>3. p \in Parts /\ StepOn(p) = p
  BY HasPart DEF OtherKinds, StepOn, Providers
<1>4. \A x \in Parts : StepOn(x) = p => x = p
  BY DEF StepOn
<1>5. p \in DOMAIN copy.parts => p \in DOMAIN given.parts /\ copy.parts[p].text \notin Names
  BY <1>2, <1>3, PendingIsGiven DEF Pending
<1>6. DOMAIN copy'.parts \subseteq DOMAIN copy.parts
      /\ (p \in DOMAIN copy'.parts => copy'.parts = copy.parts)
  BY <1>1 DEF Look, AdminChecked
<1>7. Fits(p)'
  BY <1>2, <1>3, <1>5, <1>6 DEF Fits, Pending
<1>8. Used(p)' /\ NotEmpty(p)'
  BY DEF Used, NotEmpty, Active, Integrations, ProviderOf, Providers
<1>9. AdminWorks'
  BY <1>1, <1>2, <1>6 DEF AdminWorks, AdminChecked, Found
<1>10. Looked(p, {p})
  BY <1>4, <1>7, <1>8, <1>9 DEF Looked
<1> QED
  BY <1>1, <1>3, <1>10, LookKeepsPass DEF Local

LEMMA LicenseKeepsPass ==
  ASSUME TypeInv, Pass, CheckLicense
  PROVE  Pass'
<1> DEFINE p == <<"license">>
<1>1. p \in Parts /\ \A x \in Parts : StepOn(x) = p => x = p
  BY HasPart DEF OtherKinds, StepOn
<1>2. Used(p)' /\ NotEmpty(p)'
  BY DEF Used, NotEmpty, Active, Integrations, ProviderOf, Providers
<1>3. Looked(p, {})
  BY <1>1, <1>2 DEF Looked
<1> QED
  BY <1>1, <1>3, LicenseLooks, LookKeepsPass DEF Local

LEMMA ApiKeyKeepsPass ==
  ASSUME TypeInv, Pass, CheckApiKey
  PROVE  Pass'
<1>1. PICK p \in ProjectParts({"apiKey"}) : Look(p, {p}) /\ KeyTaken(p)
  BY ApiKeyLooks
<1>2. p \in Parts /\ p[1] = "apiKey" /\ StepOn(p) = p /\ p \in DOMAIN copy.parts
  BY <1>1, ProjectPartIs DEF Look, ProjectKinds
<1>3. p \in todo /\ todo' = todo \ {p} /\ given' = given /\ copy # NoCopy
  BY <1>1 DEF Look, At, clusterVars, TypeInv, TypeOK
<1>4. \A x \in Parts : StepOn(x) = p => x = p
  BY <1>2 DEF StepOn
<1>5. /\ p \in DOMAIN given.parts /\ copy.parts[p] = given.parts[p] /\ given.parts[p] \in Part
      /\ given.parts[p].text \notin Names
  BY <1>2, <1>3, PendingIsGiven DEF Pending
<1>6. p \in DOMAIN copy'.parts /\ copy'.parts[p].text = Expected(p)
  BY <1>1, <1>5 DEF KeyTaken, Expected
<1>7. given.parts[p].secret # NoSelector =>
        given.parts[p].secret \in Selectors /\ Checksum(given.parts[p].secret) \in DOMAIN envs'
  BY <1>1, <1>5, AddedIs DEF KeyTaken, Part
<1>8. Fits(p)'
  BY <1>2, <1>3, <1>5, <1>6, <1>7 DEF Fits, Pending, Expected
<1>9. Used(p)' /\ NotEmpty(p)'
  BY <1>2, <1>3, <1>6 DEF Used, NotEmpty, Integrations, IsOnIn, Providers, Expected
<1>10. Looked(p, {p})
  <2>1. p \notin {<<"admin">>, <<"sso">>, <<"ai">>}
    BY <1>2
  <2> QED
    BY <1>4, <1>8, <1>9, <2>1 DEF Looked
<1> QED
  BY <1>1, <1>2, <1>10, LookKeepsPass DEF Local

(* A part whose reference is looked up has the name of the variable, or the*)
(* text if there was nothing.                                              *)
LEMMA LookedUpIs ==
  ASSUME NEW p, copy.parts[p] \in Part, copy.parts[p] = given.parts[p],
         given.parts[p].text \notin Names, given' = given, LookUp(p)
  PROVE  LET text == Resolved(copy.parts[p]).text
             s == given.parts[p].secret
         IN  /\ p \notin errors' => text = Expected(p)
             /\ text \in Names => s \in Selectors /\ Checksum(s) = text /\ text \in DOMAIN envs'
<1> DEFINE s == given.parts[p].secret
           text == Resolved(copy.parts[p]).text
<1>1. text = IF s # NoSelector /\ Found(s) THEN Checksum(s) ELSE given.parts[p].text
  BY ResolvedIs
<1>2. s # NoSelector => s \in Selectors
  BY DEF Part
<1>3. s # NoSelector /\ ~Found(s) => p \in errors'
  BY DEF LookUp
<1>4. s # NoSelector /\ Found(s) => envs' = Add(s)
  BY DEF LookUp
<1>5. Checksum(s) \in DOMAIN Add(s)
  BY AddedIs
<1> HIDE DEF text
<1>6. p \notin errors' => text = Expected(p)
  BY <1>1, <1>3 DEF Expected
<1>7. text \in Names => s \in Selectors /\ Checksum(s) = text /\ text \in DOMAIN envs'
  BY <1>1, <1>2, <1>4, <1>5
<1> QED
  BY <1>6, <1>7 DEF text

LEMMA IntegrationKeepsPass ==
  ASSUME TypeInv, Pass, CheckIntegration
  PROVE  Pass'
<1>1. PICK p \in ProjectParts(Integrations \cup {"basicAuth"}) : Look(p, {p}) /\ LookedUp(p)
  BY IntegrationLooks
<1>2. p \in ProjectParts({p[1]}) /\ p[1] \in Integrations \cup {"basicAuth"}
  BY DEF ProjectParts
<1>3. p \in Parts /\ StepOn(p) = p /\ p \in DOMAIN copy.parts /\ copy.parts[p] \in Part
  BY <1>1, <1>2, ProjectPartIs DEF Look, ProjectKinds
<1>4. p \in todo /\ todo' = todo \ {p} /\ given' = given /\ copy # NoCopy
  BY <1>1 DEF Look, At, clusterVars, TypeInv, TypeOK
<1>5. \A x \in Parts : StepOn(x) = p => x = p
  BY <1>2 DEF StepOn, Integrations
<1>6. /\ p \in DOMAIN given.parts /\ copy.parts[p] = given.parts[p] /\ given.parts[p] \in Part
      /\ given.parts[p].text \notin Names
  BY <1>3, <1>4, PendingIsGiven DEF Pending
<1> DEFINE part == Resolved(copy.parts[p])
<1>7. /\ p \notin errors' => part.text = Expected(p)
      /\ part.text \in Names => /\ given.parts[p].secret \in Selectors
                                /\ Checksum(given.parts[p].secret) = part.text
                                /\ part.text \in DOMAIN envs'
  BY <1>1, <1>3, <1>4, <1>6, LookedUpIs DEF LookedUp
<1>8. part.flags = given.parts[p].flags
  BY <1>6, ResolvedIs
<1>9. /\ IsUsable(p, part) => p \in DOMAIN copy'.parts /\ copy'.parts[p] = part
      /\ ~IsUsable(p, part) => p \notin DOMAIN copy'.parts
  BY <1>1 DEF LookedUp
<1> HIDE DEF part
<1>10. Fits(p)'
  BY <1>3, <1>4, <1>6, <1>7, <1>9 DEF Fits, Pending
<1>11. Used(p)'
  <2>1. ASSUME Active(p), p \notin errors', Expected(p) # Empty
        PROVE  p \in DOMAIN copy'.parts /\ copy'.parts[p].text = Expected(p)
    <3>1. p[1] = "basicAuth" => "username" \in part.flags
      BY <1>8, <2>1 DEF Active, Integrations, Providers, ProviderOf
    <3> QED
      BY <1>7, <1>9, <2>1, <3>1 DEF IsUsable
  <2>2. IsOnIn(p, copy'.parts)
    BY <1>2 DEF IsOnIn, Integrations, Providers
  <2>3. (Active(p)' <=> Active(p)) /\ Expected(p)' = Expected(p)
    BY <1>4 DEF Active, Expected, ProviderOf, SSOEnabled, Has
  <2> QED
    BY <2>1, <2>2, <2>3 DEF Used
<1>12. NotEmpty(p)'
  BY <1>9 DEF NotEmpty, IsUsable
<1>13. Looked(p, {p})
  <2>1. p \notin {<<"admin">>, <<"sso">>, <<"ai">>}
    BY <1>2 DEF Integrations
  <2> QED
    BY <1>5, <1>10, <1>11, <1>12, <2>1 DEF Looked
<1> QED
  BY <1>1, <1>3, <1>13, LookKeepsPass DEF Local

(* Basic authentication without a URL is the one thing that goes although  *)
(* it was in order.                                                        *)
LEMMA WebhookKeepsPass ==
  ASSUME TypeInv, Pass, CheckWebhook
  PROVE  Pass'
<1>1. PICK q \in 1 .. Projects :
        Look(<<"webhook", q>>, {<<"webhook", q>>, <<"basicAuth", q>>}) /\ WebhookChecked(q)
  BY WebhookLooks
<1> DEFINE p == <<"webhook", q>>
           auth == <<"basicAuth", q>>
<1>2. p \in Parts /\ auth \in Parts /\ StepOn(p) = p /\ StepOn(auth) = auth /\ p # auth
  BY HasPart DEF ProjectKinds, StepOn, Providers
<1>3. /\ p \in todo /\ todo' = todo \ {p} /\ given' = given /\ copy # NoCopy
      /\ DOMAIN copy'.parts \subseteq DOMAIN copy.parts
      /\ errors \subseteq errors' /\ auth \notin todo'
  BY <1>1 DEF Look, At, clusterVars, TypeInv, TypeOK
<1>4. \A x \in Parts : StepOn(x) = p => x = p
  BY DEF StepOn
<1>5. p \in DOMAIN copy.parts
  BY <1>2, <1>3 DEF TypeInv, StepsHaveParts
<1>6. /\ p \in DOMAIN given.parts /\ copy.parts[p] = given.parts[p]
      /\ given.parts[p].text \notin Names
  BY <1>2, <1>3, <1>5, PendingIsGiven DEF Pending
<1>7. auth \notin todo
  BY <1>2, <1>3
<1>8. Fits(auth) /\ Used(auth) /\ NotEmpty(auth) /\ Fits(p)
  BY <1>2, <1>7 DEF Pass, PartsFit, Pending
<1>9. envs' = envs
  BY <1>1 DEF WebhookChecked
<1>10. (Active(auth)' <=> Active(auth)) /\ Expected(auth)' = Expected(auth)
  BY <1>3 DEF Active, Expected, ProviderOf, SSOEnabled, Has
<1>11. IsOnIn(auth, copy'.parts)
  BY DEF IsOnIn, Providers
<1>12. Used(p)' /\ NotEmpty(p)'
  BY DEF Used, NotEmpty, Active, Integrations, ProviderOf, Providers
<1>13. CASE "url" \in copy.parts[p].flags
  <2>1. /\ p \in DOMAIN copy'.parts => copy'.parts[p].text = copy.parts[p].text
        /\ auth \in DOMAIN copy.parts =>
             auth \in DOMAIN copy'.parts /\ copy'.parts[auth] = copy.parts[auth]
    BY <1>1, <1>13 DEF WebhookChecked
  <2>2. Fits(p)'
    BY <1>2, <1>3, <1>5, <1>6, <2>1 DEF Fits, Pending
  <2>3. Fits(auth)' /\ NotEmpty(auth)'
    BY <1>2, <1>3, <1>8, <1>9, <2>1 DEF Fits, NotEmpty, Pending
  <2>4. Used(auth)'
    BY <1>3, <1>8, <1>10, <1>11, <2>1 DEF Used
  <2> QED
    BY <1>1, <1>2, <1>4, <1>12, <2>2, <2>3, <2>4, LookKeepsPass DEF Looked, Local
<1>14. CASE "url" \notin copy.parts[p].flags
  <2>1. p \notin DOMAIN copy'.parts /\ auth \notin DOMAIN copy'.parts
    BY <1>1, <1>14 DEF WebhookChecked
  <2>2. Fits(p)' /\ Fits(auth)' /\ NotEmpty(auth)'
    BY <1>2, <1>3, <2>1 DEF Fits, NotEmpty, Pending
  <2>3. ~Active(auth)
    BY <1>6, <1>14 DEF Active, Integrations, ProviderOf, Providers
  <2>4. Used(auth)'
    BY <1>10, <2>3 DEF Used
  <2> QED
    BY <1>1, <1>2, <1>4, <1>12, <2>2, <2>4, LookKeepsPass DEF Looked, Local
<1> QED
  BY <1>13, <1>14

LEMMA SSOKeepsPass ==
  ASSUME TypeInv, Pass, CheckSSO
  PROVE  Pass'
<1> DEFINE p == <<"sso">>
           saml == <<"saml">>
           part == Parsed(copy.parts[saml])
           s == given.parts[saml].secret
<1>1. Look(p, SSOParts) /\ SSOChecked
  BY SSOLooks
<1>2. p \in Parts /\ saml \in Parts /\ StepOn(p) = p /\ StepOn(saml) = p /\ p # saml
  BY HasPart DEF OtherKinds, StepOn, Providers
<1>3. /\ p \in todo /\ todo' = todo \ {p} /\ copy # NoCopy
      /\ UNCHANGED <<given, secrets>> /\ errors \subseteq errors'
  BY <1>1 DEF Look, At, clusterVars, TypeInv, TypeOK
<1>4. \A x \in Parts : StepOn(x) = p => x \in SSOParts
  <2> SUFFICES ASSUME NEW x \in Parts, StepOn(x) = p
               PROVE  x \in SSOParts
    OBVIOUS
  <2>1. x = p \/ x[1] = "saml"
    BY DEF StepOn
  <2>2. x[1] = "saml" => x = saml
    BY DEF Parts, ProjectKinds, Integrations
  <2> QED
    BY <2>1, <2>2 DEF SSOParts
<1>5. DOMAIN copy'.parts = DOMAIN copy.parts /\ p \in DOMAIN copy.parts
  BY <1>1, <1>2, <1>3 DEF SSOChecked, TypeInv, StepsHaveParts
<1>6. /\ p \in DOMAIN given.parts /\ copy.parts[p] = given.parts[p]
      /\ given.parts[p].text \notin Names
  BY <1>2, <1>3, <1>5, PendingIsGiven DEF Pending
<1>7. /\ saml \in DOMAIN copy.parts <=> saml \in DOMAIN given.parts
      /\ saml \in DOMAIN given.parts =>
           /\ copy.parts[saml] = given.parts[saml] /\ given.parts[saml] \in Part
           /\ given.parts[saml].text \notin Names
  BY <1>2, <1>3, PendingIsGiven DEF Pending
<1>8. copy'.parts[p].text = copy.parts[p].text
  BY <1>1 DEF SSOChecked
<1>9. Fits(p)'
  BY <1>2, <1>3, <1>5, <1>6, <1>8 DEF Fits, Pending
<1>10. saml \in DOMAIN copy.parts => copy'.parts[saml] = part
  BY <1>1 DEF SSOChecked
<1>11. saml \in DOMAIN copy.parts =>
         /\ MetadataOf(given.parts[saml]) = Bad => part.text = Empty
         /\ MetadataOf(given.parts[saml]) # Bad =>
              part.text = IF s # NoSelector /\ Found(s) THEN Checksum(s)
                          ELSE given.parts[saml].text
  BY <1>7, ParsedIs, ResolvedIs
<1>12. Empty \notin Names
  BY TextsAssumption
<1>13. saml \in DOMAIN copy.parts /\ s # NoSelector =>
         /\ s \in Selectors
         /\ Found(s) => Checksum(s) \in DOMAIN envs'
         /\ ~Found(s) => saml \in errors'
  BY <1>1, <1>7, AddedIs DEF SSOChecked, Part
<1>14. saml \in DOMAIN copy.parts =>
         /\ MetadataOf(given.parts[saml]) = Bad => saml \in errors'
         /\ part.text = Empty => "enabled" \notin copy'.parts[p].flags
         /\ part.text # Empty => copy'.parts[p].flags = given.parts[p].flags
  BY <1>1, <1>6, <1>7 DEF SSOChecked
<1>15. saml \notin DOMAIN copy.parts => "enabled" \notin copy'.parts[p].flags
  BY <1>1 DEF SSOChecked
<1> HIDE DEF part
<1>16. Fits(saml)'
  <2>1. Pending(saml)' <=> FALSE
    BY <1>2, <1>3 DEF Pending
  <2> QED
    BY <1>3, <1>5, <1>7, <1>10, <1>11, <1>12, <1>13, <2>1 DEF Fits
<1>17. Used(saml)'
  <2>1. ASSUME saml \in DOMAIN given.parts, Active(saml), saml \notin errors',
               Expected(saml) # Empty
        PROVE  /\ saml \in DOMAIN copy'.parts /\ copy'.parts[saml].text = Expected(saml)
               /\ "enabled" \in copy'.parts[p].flags
    <3>1. SSOEnabled(given)
      BY <2>1 DEF Active, Integrations, ProviderOf, Providers
    <3>2. part.text = Expected(saml)
      BY <1>7, <1>11, <1>13, <1>14, <2>1 DEF Expected
    <3> QED
      BY <1>5, <1>7, <1>10, <1>14, <2>1, <3>1, <3>2 DEF SSOEnabled
  <2>2. (Active(saml)' <=> Active(saml)) /\ Expected(saml)' = Expected(saml)
    BY <1>3 DEF Active, Expected, ProviderOf, SSOEnabled, Has
  <2> QED
    BY <1>3, <1>5, <2>1, <2>2 DEF Used, IsOnIn, Providers
<1>18. Used(p)' /\ NotEmpty(p)' /\ NotEmpty(saml)'
  BY DEF Used, NotEmpty, Active, Integrations, ProviderOf, Providers
<1>19. SSOWorks'
  <2>1. MetadataOf(given.parts[saml])' = MetadataOf(given.parts[saml])
    BY <1>3 DEF MetadataOf, Found
  <2> QED
    BY <1>5, <1>10, <1>11, <1>14, <1>15, <2>1 DEF SSOWorks
<1>20. \A x \in SSOParts : Fits(x)' /\ Used(x)' /\ NotEmpty(x)'
  BY <1>9, <1>16, <1>17, <1>18 DEF SSOParts
<1>21. Looked(p, SSOParts)
  BY <1>4, <1>19, <1>20 DEF Looked
<1>22. Local(p, SSOParts)
  BY <1>2 DEF Local, SSOParts
<1> QED
  BY <1>1, <1>21, <1>22, LookKeepsPass

LEMMA AIKeepsPass ==
  ASSUME TypeInv, Pass, CheckAI
  PROVE  Pass'
<1> DEFINE ai == <<"ai">>
<1>1. PICK provider \in ProviderOf(copy) :
        Look(ai, {ai, <<provider>>}) /\ AIChecked(provider)
  BY AILooks
<1> DEFINE p == <<provider>>
           part == Resolved(copy.parts[p])
<1>2. provider \in Providers /\ provider \in copy.parts[ai].flags
  BY DEF ProviderOf
<1>3. ai \in Parts /\ p \in Parts /\ StepOn(ai) = ai /\ StepOn(p) = ai /\ p # ai
  BY <1>2, HasPart DEF OtherKinds, StepOn, Providers
<1>4. /\ ai \in todo /\ todo' = todo \ {ai} /\ copy # NoCopy
      /\ UNCHANGED <<given, secrets>>
      /\ DOMAIN copy'.parts \subseteq DOMAIN copy.parts
      /\ \A x \in DOMAIN copy.parts \ {ai, p} :
           x \in DOMAIN copy'.parts /\ copy'.parts[x] = copy.parts[x]
  BY <1>1 DEF Look, At, clusterVars, TypeInv, TypeOK
<1>5. \A x \in Parts : StepOn(x) = ai => x = ai \/ \E other \in Providers : x = <<other>>
  <2> SUFFICES ASSUME NEW x \in Parts, StepOn(x) = ai
               PROVE  x = ai \/ \E other \in Providers : x = <<other>>
    OBVIOUS
  <2>1. x = ai \/ x[1] \in Providers
    BY DEF StepOn
  <2>2. x[1] \in Providers => x = <<x[1]>>
    BY DEF Parts, ProjectKinds, Integrations, Providers
  <2> QED
    BY <2>1, <2>2
<1>6. ai \in DOMAIN copy.parts
  BY <1>3, <1>4 DEF TypeInv, StepsHaveParts
<1>7. /\ ai \in DOMAIN given.parts /\ copy.parts[ai] = given.parts[ai]
      /\ given.parts[ai].text \notin Names
  BY <1>3, <1>4, <1>6, PendingIsGiven DEF Pending
<1>8. /\ p \in DOMAIN copy.parts <=> p \in DOMAIN given.parts
      /\ p \in DOMAIN given.parts =>
           /\ copy.parts[p] = given.parts[p] /\ given.parts[p] \in Part
           /\ given.parts[p].text \notin Names
  BY <1>3, <1>4, PendingIsGiven DEF Pending
<1>9. given.parts[ai].flags = {provider}
  BY <1>2, <1>7, UsersAssumption DEF TypeInv, CacheInv
<1>10. ai \in DOMAIN copy'.parts /\ copy'.parts[ai].text = copy.parts[ai].text
  BY <1>1 DEF AIChecked
<1>11. p \in DOMAIN copy.parts =>
         /\ p \notin errors' => part.text = Expected(p)
         /\ part.text \in Names => /\ given.parts[p].secret \in Selectors
                                   /\ Checksum(given.parts[p].secret) = part.text
                                   /\ part.text \in DOMAIN envs'
  BY <1>1, <1>4, <1>8, LookedUpIs DEF AIChecked
<1>12. /\ p \notin DOMAIN copy.parts => copy'.parts[ai].flags = {}
       /\ p \in DOMAIN copy.parts =>
            /\ part.text # Empty => /\ p \in DOMAIN copy'.parts /\ copy'.parts[p] = part
                                    /\ copy'.parts[ai] = copy.parts[ai]
            /\ part.text = Empty => p \notin DOMAIN copy'.parts /\ copy'.parts[ai].flags = {}
  <2>1. IsUsable(p, part) <=> part.text # Empty
    BY <1>2 DEF IsUsable, Providers
  <2> QED
    BY <1>1, <2>1 DEF AIChecked
<1> HIDE DEF part
<1>13. Fits(ai)'
  BY <1>3, <1>4, <1>7, <1>10 DEF Fits, Pending
<1>14. Fits(p)'
  <2>1. Pending(p)' <=> FALSE
    BY <1>3, <1>4 DEF Pending
  <2> QED
    BY <1>4, <1>8, <1>11, <1>12, <2>1 DEF Fits
<1>15. Used(p)'
  <2>1. ASSUME p \in DOMAIN given.parts, p \notin errors', Expected(p) # Empty
        PROVE  /\ p \in DOMAIN copy'.parts /\ copy'.parts[p].text = Expected(p)
               /\ provider \in copy'.parts[ai].flags
    BY <1>2, <1>8, <1>11, <1>12, <2>1
  <2>2. Expected(p)' = Expected(p)
    BY <1>4 DEF Expected
  <2>3. p[1] # "saml" /\ p[1] = provider
    BY <1>2 DEF Providers
  <2> QED
    BY <1>4, <1>10, <2>1, <2>2, <2>3 DEF Used, IsOnIn
<1>16. ASSUME NEW other \in Providers, other # provider
       PROVE  Used(<<other>>)'
  <2>1. ~Active(<<other>>)'
    BY <1>4, <1>9, <1>16 DEF Active, ProviderOf, Integrations, Providers
  <2> QED
    BY <2>1 DEF Used
<1>17. Used(ai)'
  BY DEF Used, Active, Integrations, ProviderOf, Providers
<1>18. NotEmpty(ai)' /\ \A other \in Providers : NotEmpty(<<other>>)'
  BY DEF NotEmpty, Integrations, Providers
<1>19. AIWorks'
  BY <1>2, <1>7, <1>9, <1>12 DEF AIWorks
<1>20. \A x \in Parts : x \in {ai, p} \/ StepOn(x) = ai => Used(x)' /\ NotEmpty(x)'
  BY <1>2, <1>5, <1>15, <1>16, <1>17, <1>18
<1>21. Looked(ai, {ai, p})
  BY <1>13, <1>14, <1>19, <1>20 DEF Looked
<1>22. Local(ai, {ai, p})
  BY <1>3 DEF Local
<1> QED
  BY <1>1, <1>21, <1>22, LookKeepsPass

LEMMA ValidatingKeepsPass ==
  ASSUME TypeInv, Pass, Validating
  PROVE  Pass'
BY AdminKeepsPass, ApiKeyKeepsPass, IntegrationKeepsPass, WebhookKeepsPass, LicenseKeepsPass,
   SSOKeepsPass, AIKeepsPass DEF Validating

-----------------------------------------------------------------------------
(* The other steps of a Reconcile.                                         *)

LEMMA WritesAreNoStepsOn ==
  ASSUME NEW p \in Parts, NEW kind \in {"apiKeySecrets", "configMap", "statefulSet", "service"}
  PROVE  StepOn(p) # <<kind>>
<1>1. StepOn(p) \in {<<"sso">>, <<"ai">>, p}
  BY DEF StepOn
<1> QED
  BY <1>1, WritesAreNoParts

LEMMA BeginPasses ==
  ASSUME TypeInv, Begin
  PROVE  Pass'
<1>1. /\ copy' = given /\ given' = given /\ DOMAIN envs' = {} /\ given \in Resources
      /\ todo' = {step \in Steps : IsTaken(step, given)}
  BY DEF Begin, TypeInv, CacheInv, clusterVars, Nothing
<1>2. \A step \in Steps : IsTaken(step, given) => step \in todo'
  BY <1>1
<1>3. ASSUME NEW kind \in {"apiKeySecrets", "configMap", "statefulSet"}
      PROVE  <<kind>> \in todo'
  <2>1. <<kind>> \in Steps /\ kind \notin {"sso", "ai"}
    BY DEF Steps, Turn, ProjectKinds, Integrations
  <2> QED
    BY <1>2, <2>1, WritesAreNoParts DEF IsTaken
<1>4. ASSUME NEW p \in DOMAIN given.parts, p[1] \in ProjectKinds, p \in Parts
      PROVE  Pending(p)'
  <2>1. p \in Steps /\ StepOn(p) = p
    BY <1>4 DEF Parts, Steps, OtherKinds, ProjectKinds, Integrations, Providers, Maps, StepOn
  <2>2. IsTaken(p, given)
    BY <1>4 DEF IsTaken, ProjectKinds, Integrations
  <2> QED
    BY <1>2, <2>1, <2>2 DEF Pending
<1>5. Has(given, "license") /\ SSOEnabled(given) => <<"sso">> \in todo'
  <2>1. <<"sso">> \in Steps
    BY DEF Steps, Turn, ProjectKinds, Integrations
  <2> QED
    BY <1>2, <2>1 DEF IsTaken, SSOEnabled, Has
<1>6. Has(given, "license") /\ Has(given, "ai") /\ ProviderOf(given) # {} => <<"ai">> \in todo'
  <2>1. <<"ai">> \in Steps
    BY DEF Steps, Turn, ProjectKinds, Integrations
  <2> QED
    BY <1>2, <2>1 DEF IsTaken, Has
<1>7. PartsFit'
  <2> SUFFICES ASSUME NEW p \in Parts
               PROVE  Fits(p)' /\ (~Pending(p)' => Used(p)' /\ NotEmpty(p)')
    BY DEF PartsFit
  <2>1. Fits(p)'
    BY <1>1, UsersAssumption DEF Fits
  <2>2. ASSUME p \in DOMAIN given.parts, Active(p)
        PROVE  Pending(p)'
    <3>1. p[1] \in ProjectKinds \/ p[1] \in Providers \/ p[1] = "saml"
      BY <2>2 DEF Active, ProviderOf, ProjectKinds
    <3>2. p[1] = "saml" => <<"sso">> \in todo' /\ StepOn(p) = <<"sso">>
      BY <1>5, <2>2 DEF Active, ProviderOf, StepOn, Integrations, Providers
    <3>3. p[1] \in Providers => <<"ai">> \in todo' /\ StepOn(p) = <<"ai">>
      BY <1>6, <2>2 DEF Active, StepOn, Integrations, Providers
    <3> QED
      BY <1>4, <2>2, <3>1, <3>2, <3>3 DEF Pending
  <2>3. Active(p)' <=> Active(p)
    BY <1>1 DEF Active, ProviderOf, SSOEnabled, Has
  <2>4. ~Pending(p)' => Used(p)'
    BY <1>1, <2>2, <2>3 DEF Used
  <2>5. ~Pending(p)' => NotEmpty(p)'
    BY <1>1, <1>4 DEF NotEmpty, ProjectKinds
  <2> QED
    BY <2>1, <2>4, <2>5
<1>8. EnvsFit'
  BY <1>1 DEF EnvsFit
<1>9. EnterpriseFits'
  <2>1. Has(given, "license") /\ <<"sso">> \notin todo' => SSOWorks'
    BY <1>1, <1>5 DEF SSOWorks, SSOEnabled, Has
  <2>2. ASSUME Has(given, "license"), <<"ai">> \notin todo', <<"ai">> \in DOMAIN given.parts
        PROVE  given.parts[<<"ai">>].flags = {}
    <3>1. PICK provider \in Providers : given.parts[<<"ai">>].flags \subseteq {provider}
      BY <1>1, <2>2, UsersAssumption
    <3> QED
      BY <1>6, <2>2, <3>1 DEF ProviderOf, Has
  <2>3. Has(given, "license") /\ <<"ai">> \notin todo' => AIWorks'
    BY <1>1, <2>2 DEF AIWorks
  <2> QED
    BY <1>1, <2>1, <2>3 DEF EnterpriseFits, Has
<1>10. <<"admin">> \notin todo' => <<"admin">> \notin DOMAIN given.parts
  <2>1. <<"admin">> \in Steps
    BY DEF Steps, Turn, ProjectKinds, Integrations
  <2> QED
    BY <1>2, <2>1 DEF IsTaken
<1>11. WritesFit'
  BY <1>1, <1>3, <1>10 DEF WritesFit, AdminWorks
<1>12. InOrder'
  BY <1>3 DEF InOrder
<1> QED
  BY <1>7, <1>8, <1>9, <1>11, <1>12 DEF Pass

(* Secrets are only added here.                                            *)
LEMMA FillAddsSecrets ==
  ASSUME TypeInv, FillApiKeySecrets
  PROVE  \A s \in Selectors :
           /\ Found(s) => secrets'[s] = secrets[s]
           /\ Found(s) => Found(s)'
           /\ secrets'[s] # secrets[s] => secrets'[s] = Plain
           /\ calm' >= 1 /\ s \in keys => Found(s)'
<1>1. PICK filled \in SUBSET {s \in keys : ~Found(s)} :
        /\ secrets' = [s \in Selectors |-> IF s \in filled THEN Plain ELSE secrets[s]]
        /\ IF filled = {s \in keys : ~Found(s)} THEN UNCHANGED <<calm, count>> ELSE Disturbance
  BY DEF FillApiKeySecrets
<1>2. Plain # None
  BY NothingAssumption
<1>3. calm' >= 1 => filled = {s \in keys : ~Found(s)}
  BY <1>1 DEF Disturbance
<1> QED
  BY <1>1, <1>2, <1>3 DEF Found

LEMMA FillKeepsMetadata ==
  ASSUME TypeInv, FillApiKeySecrets, NEW part \in Part, MetadataOf(part) # Bad
  PROVE  MetadataOf(part)' # Bad
<1>1. part.secret # NoSelector => part.secret \in Selectors
  BY DEF Part
<1>2. Plain # Bad /\ Empty # Bad
  BY TextsAssumption
<1> QED
  BY <1>1, <1>2, FillAddsSecrets DEF MetadataOf, Found

LEMMA FillKeepsPass ==
  ASSUME TypeInv, Pass, FillApiKeySecrets, calm' >= 1
  PROVE  Pass'
<1> DEFINE step == <<"apiKeySecrets">>
<1>1. /\ step \in todo /\ todo' = todo \ {step} /\ copy # NoCopy
      /\ \A other \in todo : ~Precedes(other, step)
      /\ UNCHANGED <<given, configMap, objs, cache, copy, envs, keys, errors, forgotten>>
  BY DEF FillApiKeySecrets, At, TypeInv, TypeOK
<1>2. \A p \in Parts : Pending(p)' <=> Pending(p)
  BY <1>1, WritesAreNoStepsOn DEF Pending
<1>3. PartsFit'
  <2> SUFFICES ASSUME NEW p \in Parts
               PROVE  Fits(p)' /\ (~Pending(p)' => Used(p)' /\ NotEmpty(p)')
    BY DEF PartsFit
  <2>1. Fits(p) /\ (~Pending(p) => Used(p) /\ NotEmpty(p))
    BY DEF Pass, PartsFit
  <2>2. (Used(p)' <=> Used(p)) /\ (NotEmpty(p)' <=> NotEmpty(p))
    BY <1>1 DEF Used, NotEmpty, Active, Expected, ProviderOf, SSOEnabled, Has, IsOnIn
  <2>3. Fits(p)' <=> Fits(p)
    BY <1>1, <1>2 DEF Fits
  <2> QED
    BY <1>2, <2>1, <2>2, <2>3
<1>4. EnvsFit'
  <2> SUFFICES ASSUME NEW n \in DOMAIN envs
               PROVE  IsEnv(n)'
    BY <1>1 DEF EnvsFit
  <2>1. IsEnv(n) /\ envs[n] \in Selectors
    BY DEF Pass, EnvsFit, TypeInv, TypeOK
  <2>2. Found(envs[n])'
    BY <1>1, <2>1, FillAddsSecrets DEF IsEnv
  <2> QED
    BY <1>1, <2>1, <2>2 DEF IsEnv
<1>5. EnterpriseFits'
  <2>1. AIWorks' <=> AIWorks
    BY <1>1 DEF AIWorks
  <2>2. SSOWorks => SSOWorks'
    <3>1. ASSUME <<"saml">> \in DOMAIN copy.parts
          PROVE  given.parts[<<"saml">>] \in Part
      <4>1. <<"saml">> \in Parts
        BY HasPart DEF OtherKinds
      <4> QED
        BY <3>1, <4>1 DEF Pass, PartsFit, Fits, TypeInv, TypeOK, IsResource
    <3>2. given.parts[<<"saml">>] \in Part /\ MetadataOf(given.parts[<<"saml">>]) # Bad
          => MetadataOf(given.parts[<<"saml">>])' # Bad
      BY <1>1, FillKeepsMetadata DEF MetadataOf, Found
    <3> QED
      BY <1>1, <3>1, <3>2 DEF SSOWorks
  <2> QED
    BY <1>1, <2>1, <2>2 DEF Pass, EnterpriseFits, Has
<1>6. WritesFit'
  <2>1. <<"configMap">> \in todo' /\ <<"statefulSet">> \in todo'
    BY <1>1 DEF Pass, InOrder
  <2>2. ASSUME AdminWorks
        PROVE  AdminWorks'
    <3>1. ASSUME <<"admin">> \in DOMAIN copy.parts, copy.parts[<<"admin">>].secret # NoSelector
          PROVE  copy.parts[<<"admin">>].secret \in Selectors
      BY <1>1, <3>1 DEF TypeInv, TypeOK, IsResource, Part
    <3> QED
      BY <1>1, <2>2, <3>1, FillAddsSecrets DEF AdminWorks
  <2> QED
    BY <1>1, <2>1, <2>2 DEF Pass, WritesFit
<1>7. InOrder'
  <2>1. \A other \in todo : other[1] # "apiKey"
    BY <1>1 DEF Precedes, ProjectKinds, Integrations, Turn
  <2> QED
    BY <1>1, <2>1 DEF Pass, InOrder
<1> QED
  BY <1>3, <1>4, <1>5, <1>6, <1>7 DEF Pass

(* A write changes nothing that its Pass is about, but what it writes.     *)
LEMMA WritingKeepsPass ==
  ASSUME TypeInv, Pass, NEW maps \in SUBSET Maps, NEW kind \in {"configMap", "statefulSet", "service"},
         Writing(<<kind>>, maps)
  PROVE  /\ PartsFit' /\ EnvsFit' /\ EnterpriseFits' /\ AdminWorks'
         /\ ConfigOf(copy.parts)' = ConfigOf(copy.parts)
<1>1. /\ <<kind>> \in todo /\ todo' = todo \ {<<kind>>} /\ copy # NoCopy
      /\ \A other \in todo : ~Precedes(other, <<kind>>)
      /\ UNCHANGED <<given, secrets, envs, keys, errors>>
      /\ DOMAIN copy'.parts = DOMAIN copy.parts
  BY DEF Writing, At, TypeInv, TypeOK
<1>2. \A p \in Parts : Pending(p)' <=> Pending(p)
  BY <1>1, WritesAreNoStepsOn DEF Pending
<1>3. ASSUME NEW p \in DOMAIN copy.parts, p[1] \notin Maps
      PROVE  copy'.parts[p] = copy.parts[p]
  BY <1>3 DEF Writing, FilledParts
<1>4. ASSUME NEW p \in DOMAIN copy.parts, copy'.parts[p] # copy.parts[p]
      PROVE  copy'.parts[p].text = Filled /\ p[1] \in Maps
  BY <1>3, <1>4 DEF Writing
<1>5. <<"sso">>[1] \notin Maps /\ <<"saml">>[1] \notin Maps /\ <<"ai">>[1] \notin Maps
      /\ <<"admin">>[1] \notin Maps /\ \A provider \in Providers : <<provider>>[1] \notin Maps
  BY DEF Maps, Providers
<1>6. PartsFit'
  <2> SUFFICES ASSUME NEW p \in Parts
               PROVE  Fits(p)' /\ (~Pending(p)' => Used(p)' /\ NotEmpty(p)')
    BY DEF PartsFit
  <2>1. Fits(p) /\ (~Pending(p) => Used(p) /\ NotEmpty(p))
    BY DEF Pass, PartsFit
  <2>2. ASSUME p[1] \in Maps
        PROVE  ~Pending(p) /\ ~Active(p) /\ p[1] \notin Integrations \cup {"basicAuth"}
    <3>1. StepOn(p) = p /\ p \notin Steps
      BY <2>2 DEF StepOn, Steps, Maps, Providers, Turn, ProjectKinds, Integrations
    <3> QED
      BY <2>2, <3>1
         DEF Pending, TypeInv, TypeOK, Active, ProviderOf, Maps, Integrations, Providers
  <2>3. (Active(p)' <=> Active(p)) /\ Expected(p)' = Expected(p)
    BY <1>1 DEF Active, Expected, ProviderOf, SSOEnabled, Has
  <2>4. IsOnIn(p, copy'.parts) <=> IsOnIn(p, copy.parts)
    BY <1>1, <1>3, <1>5 DEF IsOnIn
  <2>5. Filled \notin Names
    BY TextsAssumption
  <2>6. CASE p[1] \in Maps
    <3>1. Fits(p)'
      BY <1>1, <1>2, <1>4, <2>1, <2>2, <2>5, <2>6 DEF Fits
    <3> QED
      BY <2>2, <2>3, <2>6, <3>1 DEF Used, NotEmpty
  <2>7. CASE p[1] \notin Maps
    <3>1. p \in DOMAIN copy.parts => copy'.parts[p] = copy.parts[p]
      BY <1>3, <2>7
    <3>2. Fits(p)' /\ (NotEmpty(p) => NotEmpty(p)')
      BY <1>1, <1>2, <2>1, <3>1 DEF Fits, NotEmpty
    <3>3. Used(p) => Used(p)'
      BY <1>1, <2>3, <2>4, <3>1 DEF Used
    <3> QED
      BY <1>2, <2>1, <3>2, <3>3
  <2> QED
    BY <2>6, <2>7
<1>7. EnvsFit'
  BY <1>1 DEF Pass, EnvsFit, IsEnv, Found
<1>8. EnterpriseFits'
  <2>1. SSOWorks => SSOWorks'
    <3>1. MetadataOf(given.parts[<<"saml">>])' = MetadataOf(given.parts[<<"saml">>])
      BY <1>1 DEF MetadataOf, Found
    <3> QED
      BY <1>1, <1>3, <1>5, <3>1 DEF SSOWorks
  <2>2. AIWorks => AIWorks'
    BY <1>1, <1>3, <1>5 DEF AIWorks
  <2> QED
    BY <1>1, <2>1, <2>2 DEF Pass, EnterpriseFits, Has
<1>9. AdminWorks'
  <2>1. AdminWorks
    <3>1. Precedes(<<"admin">>, <<kind>>)
      BY DEF Precedes, Turn, ProjectKinds, Integrations
    <3> QED
      BY <1>1, <3>1 DEF Pass, WritesFit
  <2> QED
    BY <1>1, <1>3, <1>5, <2>1 DEF AdminWorks, Found
<1>10. ConfigOf(copy.parts)' = ConfigOf(copy.parts)
  <2> DEFINE some == {q \in DOMAIN copy.parts : q[1] \notin Maps \cup {"admin", "license"}}
  <2>1. [p \in some |-> copy'.parts[p]] = [p \in some |-> copy.parts[p]]
    BY <1>3
  <2> QED
    BY <1>1, <2>1 DEF ConfigOf
<1> QED
  BY <1>6, <1>7, <1>8, <1>9, <1>10

LEMMA ConfigMapKeepsPass ==
  ASSUME TypeInv, Pass, WriteConfigMap, calm' >= 1
  PROVE  Pass'
<1>1. /\ PartsFit' /\ EnvsFit' /\ EnterpriseFits' /\ AdminWorks'
      /\ ConfigOf(copy.parts)' = ConfigOf(copy.parts)
  BY ConfigMapWrites, WritingKeepsPass
<1>2. /\ <<"configMap">> \in todo /\ todo' = todo \ {<<"configMap">>} /\ todo \subseteq Steps
      /\ \A other \in todo : ~Precedes(other, <<"configMap">>)
      /\ configMap' = ConfigOf(copy.parts)
  BY DEF WriteConfigMap, At, Disturbance, TypeInv, TypeOK
<1>3. <<"statefulSet">> \in todo'
  BY <1>2 DEF Pass, InOrder
<1>4. ASSUME NEW step \in todo'
      PROVE  step \in {<<"statefulSet">>, <<"service">>}
  <2>1. step \in Steps /\ Turn[step[1]] >= 13 /\ step # <<"configMap">>
    BY <1>2 DEF Precedes, Turn, Steps, ProjectKinds, Integrations
  <2> QED
    BY <2>1 DEF Steps, Turn, ProjectKinds, Integrations
<1>5. InOrder'
  BY <1>2, <1>3, <1>4 DEF Pass, InOrder
<1> QED
  BY <1>1, <1>2, <1>3, <1>5 DEF Pass, WritesFit

(* The fields of the StatefulSet that the operator sets.                   *)
LEMMA SettingIs ==
  ASSUME NEW settings, NEW f \in Fields, NEW v, <<f, v>> \in settings,
         \A s \in settings : s[1] = f => s[2] = v
  PROVE  SpecOf(settings)[f] = v
BY DEF SpecOf, ValueIn

LEMMA StatefulSetAsks ==
  ASSUME TypeInv, copy # NoCopy, NEW listing, NEW joined
  PROVE  LET target == StatefulSetSpec(listing, joined)
         IN  /\ target[<<"config">>] = ConfigOf(copy.parts)
             /\ \A n \in DOMAIN envs : target[<<"env", n>>] = envs[n]
             /\ \A n \in Names : target[<<"env", n>>] # None => n \in DOMAIN envs
             /\ target[<<"admin", "valueFrom">>] # None =>
                  /\ <<"admin">> \in DOMAIN copy.parts
                  /\ copy.parts[<<"admin">>].secret # NoSelector
                  /\ target[<<"admin", "valueFrom">>] = copy.parts[<<"admin">>].secret
<1> DEFINE variables == {<< <<"env", n>>, envs[n]>> : n \in DOMAIN envs}
           passwords == VariablesFor("admin") \cup VariablesFor("license")
           others == (IF listing # <<>> THEN {<< <<"order">>, listing>>} ELSE {})
                     \cup (IF joined # <<>> THEN {<< <<"headers">>, joined>>} ELSE {})
           last == {<< <<"config">>, ConfigOf(copy.parts)>>, << <<"claims">>, "current">>}
           settings == variables \cup passwords \cup others \cup last
<1>1. StatefulSetSpec(listing, joined) = SpecOf(settings)
  <2>1. settings = {<< <<"env", n>>, envs[n]>> : n \in DOMAIN envs}
          \cup VariablesFor("admin") \cup VariablesFor("license")
          \cup (IF listing # <<>> THEN {<< <<"order">>, listing>>} ELSE {})
          \cup (IF joined # <<>> THEN {<< <<"headers">>, joined>>} ELSE {})
          \cup {<< <<"config">>, ConfigOf(copy.parts)>>, << <<"claims">>, "current">>}
    OBVIOUS
  <2> HIDE DEF settings
  <2> QED
    BY <2>1 DEF StatefulSetSpec
<1>2. \A s \in variables : \E n \in DOMAIN envs : s[1] = <<"env", n>> /\ s[2] = envs[n]
  OBVIOUS
<1>3. \A s \in others : s[1] \in {<<"order">>, <<"headers">>}
  OBVIOUS
<1>4. \A s \in last : (s[1] = <<"config">> /\ s[2] = ConfigOf(copy.parts)) \/ s[1] = <<"claims">>
  OBVIOUS
<1>5. \A s \in passwords :
        \E kind \in {"admin", "license"} :
          \/ s[1] = <<kind, "value">>
          \/ /\ s[1] = <<kind, "valueFrom">> /\ <<kind>> \in DOMAIN copy.parts
             /\ copy.parts[<<kind>>].secret # NoSelector /\ s[2] = copy.parts[<<kind>>].secret
  BY DEF VariablesFor, Variable, Has
<1>6. \A n \in DOMAIN envs : << <<"env", n>>, envs[n]>> \in variables /\ n \in Names
  BY DEF TypeInv, TypeOK
<1>7. << <<"config">>, ConfigOf(copy.parts)>> \in last
  OBVIOUS
<1> HIDE DEF variables, passwords, others, last
<1>8. StatefulSetSpec(listing, joined)[<<"config">>] = ConfigOf(copy.parts)
  <2>1. <<"config">> \in Fields
    BY DEF Fields
  <2>2. \A s \in settings : s[1] = <<"config">> => s[2] = ConfigOf(copy.parts)
    BY <1>2, <1>3, <1>4, <1>5
  <2>3. << <<"config">>, ConfigOf(copy.parts)>> \in settings
    BY <1>7
  <2> HIDE DEF settings
  <2> QED
    BY <1>1, <2>1, <2>2, <2>3, SettingIs
<1>9. ASSUME NEW n \in DOMAIN envs
      PROVE  StatefulSetSpec(listing, joined)[<<"env", n>>] = envs[n]
  <2>1. <<"env", n>> \in Fields
    BY <1>6 DEF Fields
  <2>2. \A s \in settings : s[1] = <<"env", n>> => s[2] = envs[n]
    BY <1>2, <1>3, <1>4, <1>5
  <2>3. << <<"env", n>>, envs[n]>> \in settings
    BY <1>6
  <2> HIDE DEF settings
  <2> QED
    BY <1>1, <2>1, <2>2, <2>3, SettingIs
<1>10. ASSUME NEW n \in Names, StatefulSetSpec(listing, joined)[<<"env", n>>] # None
       PROVE  n \in DOMAIN envs
  <2>1. <<"env", n>> \in Fields
    BY DEF Fields
  <2>2. \A s \in settings : s[1] = <<"env", n>> => n \in DOMAIN envs
    BY <1>2, <1>3, <1>4, <1>5
  <2> HIDE DEF settings
  <2> QED
    BY <1>1, <1>10, <2>1, <2>2, ValueIsSet
<1>11. ASSUME StatefulSetSpec(listing, joined)[<<"admin", "valueFrom">>] # None
       PROVE  /\ <<"admin">> \in DOMAIN copy.parts
              /\ copy.parts[<<"admin">>].secret # NoSelector
              /\ StatefulSetSpec(listing, joined)[<<"admin", "valueFrom">>]
                   = copy.parts[<<"admin">>].secret
  <2> DEFINE f == <<"admin", "valueFrom">>
  <2>1. f \in Fields
    BY DEF Fields
  <2>2. \A s \in settings : s[1] = f =>
          /\ <<"admin">> \in DOMAIN copy.parts
          /\ copy.parts[<<"admin">>].secret # NoSelector /\ s[2] = copy.parts[<<"admin">>].secret
    BY <1>2, <1>3, <1>4, <1>5
  <2> HIDE DEF settings
  <2>3. \E s \in settings : s[1] = f
    BY <1>1, <1>11, <2>1, ValueIsSet
  <2>4. SpecOf(settings)[f] = copy.parts[<<"admin">>].secret
    BY <2>1, <2>2, <2>3 DEF SpecOf, ValueIn
  <2> QED
    BY <1>1, <2>2, <2>3, <2>4
<1> QED
  BY <1>8, <1>9, <1>10, <1>11

(* After the write of the StatefulSet, its pods are made for the           *)
(* configuration file and have its variables, and what else was there is   *)
(* gone if the operator knows that it was its own.                         *)
LEMMA StatefulSetFits ==
  ASSUME TypeInv, RejectedInv, Pass, WriteStatefulSet, calm' >= 1
  PROVE  PodFits'
<1> DEFINE o == "StatefulSet"
<1>1. /\ <<"statefulSet">> \in todo /\ copy # NoCopy
      /\ \A other \in todo : ~Precedes(other, <<"statefulSet">>)
      /\ UNCHANGED <<secrets, configMap, envs>>
  BY DEF WriteStatefulSet, At, TypeInv, TypeOK
<1>2. \A kind \in {"admin", "apiKeySecrets", "configMap"} : <<kind>> \notin todo
  BY <1>1 DEF Precedes, Turn, ProjectKinds, Integrations
<1>3. PICK listing, joined :
        CreateOrUpdate(o, StatefulSetSpec(listing, joined), AnnotationsOf({}))
  BY DEF WriteStatefulSet
<1> DEFINE target == StatefulSetSpec(listing, joined)
           notes == AnnotationsOf({})
           merged == Merged(o, target, notes)
           before == Before(o, target, notes)
<1>4. /\ target[<<"config">>] = ConfigOf(copy.parts)
      /\ \A n \in DOMAIN envs : target[<<"env", n>>] = envs[n]
      /\ \A n \in Names : target[<<"env", n>>] # None => n \in DOMAIN envs
      /\ target[<<"admin", "valueFrom">>] # None =>
           /\ <<"admin">> \in DOMAIN copy.parts
           /\ copy.parts[<<"admin">>].secret # NoSelector
           /\ target[<<"admin", "valueFrom">>] = copy.parts[<<"admin">>].secret
  BY <1>1, StatefulSetAsks
<1>5. IsTarget(target, notes)
  BY StatefulSetSpecIsTarget
<1> HIDE DEF target, notes
<1>6. IsMergeOf(merged, before, o, target, notes)
  BY <1>5, MergedIs
<1>7. /\ objs' = [x \in DOMAIN objs \cup {o} |-> IF x = o THEN merged ELSE objs[x]]
      /\ forgotten' = forgotten
  BY <1>3 DEF CreateOrUpdate, Disturbance, target, notes
<1> HIDE DEF merged, before
<1>8. Exists(o)' /\ Pod' = merged.spec
  BY <1>7 DEF Exists, Pod
<1>9. ASSUME NEW f \in Fields \ {<<"claims">>}, target[f] # None
      PROVE  Pod'[f] = target[f]
  BY <1>6, <1>8, <1>9 DEF IsMergeOf, KeptFields, ReplacedFields, Overlay
<1>10. Pod'[<<"config">>] = configMap
  <2>1. <<"config">> \in Fields \ {<<"claims">>} /\ target[<<"config">>] # None
    BY <1>1, <1>4, ConfigIsTyped DEF Fields
  <2>2. configMap = ConfigOf(copy.parts)
    BY <1>2 DEF Pass, WritesFit
  <2> QED
    BY <1>4, <1>9, <2>1, <2>2
<1>11. ASSUME NEW n \in DOMAIN envs
       PROVE  Pod'[<<"env", n>>] = envs[n]
  <2>1. n \in Names /\ envs[n] \in Selectors
    BY DEF TypeInv, TypeOK
  <2>2. <<"env", n>> \in Fields \ {<<"claims">>} /\ target[<<"env", n>>] # None
    BY <1>4, <2>1, NothingAssumption DEF Fields
  <2> QED
    BY <1>4, <1>9, <2>2
<1>12. ASSUME ~forgotten[o], NEW f \in References, Pod'[f] # None
       PROVE  Pod'[f] \in Selectors /\ Found(Pod'[f])
  <2>1. f \in Variables /\ f \in Fields \ {<<"claims">>}
    BY DEF References, Variables, Passwords, Fields
  <2>2. target[f] # None
    <3>1. Remembered(o)
      BY DEF RejectedInv, Objects
    <3>2. \A x \in Variables : Merged(o, target, notes).spec[x] # None => target[x] # None
      BY <1>5, <1>12, <3>1, TargetIsAccepted DEF Objects
    <3> QED
      BY <1>8, <1>12, <2>1, <3>2 DEF merged
  <2>3. Pod'[f] = target[f]
    BY <1>9, <2>1, <2>2
  <2>4. CASE f \in {"env"} \X Names
    <3>1. PICK n \in Names : f = <<"env", n>>
      BY <2>4
    <3>2. n \in DOMAIN envs /\ target[f] = envs[n]
      BY <1>4, <2>2, <3>1
    <3>3. IsEnv(n) /\ envs[n] \in Selectors
      BY <3>2 DEF Pass, EnvsFit, TypeInv, TypeOK
    <3> QED
      BY <1>2, <2>3, <3>2, <3>3 DEF IsEnv
  <2>5. CASE f = <<"admin", "valueFrom">>
    <3>1. /\ <<"admin">> \in DOMAIN copy.parts
          /\ copy.parts[<<"admin">>].secret # NoSelector
          /\ target[f] = copy.parts[<<"admin">>].secret
      BY <1>4, <2>2, <2>5
    <3>2. Found(copy.parts[<<"admin">>].secret)
      BY <1>2, <3>1 DEF Pass, WritesFit, AdminWorks
    <3>3. copy.parts[<<"admin">>].secret \in Selectors
      BY <1>1, <3>1 DEF TypeInv, TypeOK, IsResource, Part
    <3> QED
      BY <2>3, <3>1, <3>2, <3>3
  <2> QED
    BY <2>4, <2>5 DEF References
<1>13. PodFinds'
  BY <1>1, <1>7, <1>12 DEF PodFinds, Found
<1> QED
  BY <1>1, <1>8, <1>10, <1>11, <1>13 DEF PodFits

LEMMA StatefulSetKeepsPass ==
  ASSUME TypeInv, RejectedInv, Pass, WriteStatefulSet, calm' >= 1
  PROVE  Pass'
<1>1. Writing(<<"statefulSet">>, {"podAnnotations", "params"}) /\ UNCHANGED configMap
  BY StatefulSetWrites
<1>2. {"podAnnotations", "params"} \in SUBSET Maps
  BY DEF Maps
<1>3. /\ PartsFit' /\ EnvsFit' /\ EnterpriseFits' /\ AdminWorks'
      /\ ConfigOf(copy.parts)' = ConfigOf(copy.parts)
  BY <1>1, <1>2, WritingKeepsPass
<1>4. /\ <<"statefulSet">> \in todo /\ todo' = todo \ {<<"statefulSet">>}
      /\ \A other \in todo : ~Precedes(other, <<"statefulSet">>)
  BY DEF WriteStatefulSet, At
<1>5. <<"configMap">> \notin todo
  BY <1>4 DEF Precedes, Turn, ProjectKinds, Integrations
<1>6. todo \subseteq {<<"statefulSet">>, <<"service">>} /\ configMap = ConfigOf(copy.parts)
  BY <1>5 DEF Pass, InOrder, WritesFit
<1>7. InOrder'
  BY <1>4, <1>6 DEF InOrder
<1>8. WritesFit'
  BY <1>1, <1>3, <1>6, StatefulSetFits DEF WritesFit
<1> QED
  BY <1>3, <1>7, <1>8 DEF Pass

(* The StatefulSet is not the Service's business.                          *)
LEMMA ServiceKeepsPod ==
  ASSUME RejectedInv, WriteService, Exists("StatefulSet")
  PROVE  Exists("StatefulSet")' /\ Pod' = Pod /\ forgotten'["StatefulSet"] = forgotten["StatefulSet"]
<1> DEFINE o == "StatefulSet"
<1>1. PICK target, notes : CreateOrUpdate("Service", target, notes)
  BY DEF WriteService
<1>2. "Service" \in Objects /\ o \in Objects /\ o # "Service"
  BY DEF Objects
<1>3. Kept(o)
  BY <1>1, <1>2, CallWrites DEF RejectedInv
<1> QED
  BY <1>3 DEF Kept, Pod

LEMMA ServiceKeepsPass ==
  ASSUME TypeInv, RejectedInv, Pass, WriteService, calm' >= 1
  PROVE  Pass'
<1>1. Writing(<<"service">>, {"annotations"}) /\ UNCHANGED configMap
  BY ServiceWrites
<1>2. {"annotations"} \in SUBSET Maps
  BY DEF Maps
<1>3. /\ PartsFit' /\ EnvsFit' /\ EnterpriseFits' /\ AdminWorks'
      /\ ConfigOf(copy.parts)' = ConfigOf(copy.parts)
  BY <1>1, <1>2, WritingKeepsPass
<1>4. /\ <<"service">> \in todo /\ todo' = todo \ {<<"service">>}
      /\ \A other \in todo : ~Precedes(other, <<"service">>)
      /\ UNCHANGED <<secrets, configMap, envs>>
  BY DEF WriteService, At
<1>5. <<"configMap">> \notin todo /\ <<"statefulSet">> \notin todo
  BY <1>4 DEF Precedes, Turn, ProjectKinds, Integrations
<1>6. PodFits /\ configMap = ConfigOf(copy.parts) /\ todo \subseteq {<<"service">>}
  BY <1>5 DEF Pass, InOrder, WritesFit
<1>7. PodFits'
  <2>1. Exists("StatefulSet")' /\ Pod' = Pod
        /\ forgotten'["StatefulSet"] = forgotten["StatefulSet"]
    BY <1>6, ServiceKeepsPod DEF PodFits
  <2> QED
    BY <1>4, <1>6, <2>1 DEF PodFits, PodFinds, Found
<1>8. InOrder'
  BY <1>4, <1>6 DEF InOrder
<1> QED
  BY <1>1, <1>3, <1>6, <1>7, <1>8 DEF Pass, WritesFit

-----------------------------------------------------------------------------
(* What a Reconcile leaves behind.                                         *)

LEMMA ConfigHas ==
  ASSUME TypeInv, copy # NoCopy
  PROVE  /\ \A p \in DOMAIN ConfigOf(copy.parts) :
              p \in DOMAIN copy.parts /\ p \in Parts /\ ConfigOf(copy.parts)[p] = copy.parts[p]
         /\ \A p \in DOMAIN copy.parts : p[1] \notin Maps \cup {"admin", "license"} =>
              p \in DOMAIN ConfigOf(copy.parts)
<1>1. IsResource(copy)
  BY DEF TypeInv, TypeOK
<1> QED
  BY <1>1 DEF ConfigOf, IsResource

LEMMA ConfigWorks ==
  ASSUME TypeInv, Pass, copy # NoCopy, todo \subseteq {<<"configMap">>, <<"statefulSet">>, <<"service">>}
  PROVE  /\ DOMAIN ConfigOf(copy.parts) \subseteq DOMAIN given.parts
         /\ Has(given, "license") => Works(ConfigOf(copy.parts))
<1> DEFINE config == ConfigOf(copy.parts)
<1>1. /\ \A p \in DOMAIN config :
           p \in DOMAIN copy.parts /\ p \in Parts /\ config[p] = copy.parts[p]
      /\ \A p \in DOMAIN copy.parts : p[1] \notin Maps \cup {"admin", "license"} => p \in DOMAIN config
  BY ConfigHas
<1> HIDE DEF config
<1>2. \A p \in Parts : ~Pending(p)
  BY WritesAreNoStepsOn DEF Pending
<1>3. DOMAIN config \subseteq DOMAIN given.parts
  BY <1>1 DEF Pass, PartsFit, Fits
<1>4. ASSUME Has(given, "license")
      PROVE  Works(config)
  <2>1. \A p \in DOMAIN config : p[1] \in Integrations \cup {"basicAuth"} => config[p].text # Empty
    BY <1>1, <1>2 DEF Pass, PartsFit, NotEmpty
  <2>2. SSOWorks /\ AIWorks
    BY <1>4 DEF Pass, EnterpriseFits
  <2>3. <<"saml">>[1] \notin Maps \cup {"admin", "license"}
        /\ \A provider \in Providers : <<provider>>[1] \notin Maps \cup {"admin", "license"}
    BY DEF Maps, Providers
  <2>4. <<"sso">> \in DOMAIN config /\ "enabled" \in config[<<"sso">>].flags =>
          /\ <<"saml">> \in DOMAIN config /\ config[<<"saml">>].text # Empty
          /\ MetadataOf(given.parts[<<"saml">>]) # Bad
    BY <1>1, <2>2, <2>3 DEF SSOWorks
  <2>5. <<"ai">> \in DOMAIN config =>
          \A provider \in config[<<"ai">>].flags :
            <<provider>> \in DOMAIN config /\ config[<<provider>>].text # Empty
    BY <1>1, <2>2, <2>3 DEF AIWorks
  <2> QED
    BY <2>1, <2>4, <2>5 DEF Works
<1> QED
  BY <1>3, <1>4 DEF config

LEMMA PassGivesResult ==
  ASSUME TypeInv, Pass, copy # NoCopy, todo = {}
  PROVE  Known /\ Resolves /\ UsedOrReported
<1>1. configMap = ConfigOf(copy.parts) /\ PodFits
  BY DEF Pass, WritesFit
<1>2. /\ \A p \in DOMAIN configMap :
           p \in DOMAIN copy.parts /\ p \in Parts /\ configMap[p] = copy.parts[p]
      /\ \A p \in DOMAIN copy.parts :
           p[1] \notin Maps \cup {"admin", "license"} => p \in DOMAIN configMap
  BY <1>1, ConfigHas
<1>3. Known
  BY <1>1, ConfigWorks DEF Known, PodFits
<1>4. Resolves
  <2> SUFFICES ASSUME NEW p \in DOMAIN configMap, configMap[p].text \in Names
               PROVE  \E q \in DOMAIN given.parts :
                        /\ Pod[<<"env", configMap[p].text>>] = given.parts[q].secret
                        /\ Checksum(given.parts[q].secret) = configMap[p].text
                        /\ Checksum(given.parts[p].secret) = configMap[p].text
    BY <1>1 DEF Resolves, PodFits
  <2> DEFINE n == configMap[p].text
  <2>1. Checksum(given.parts[p].secret) = n /\ n \in DOMAIN envs
    BY <1>2 DEF Pass, PartsFit, Fits
  <2>2. IsEnv(n) /\ Pod[<<"env", n>>] = envs[n]
    BY <1>1, <2>1 DEF Pass, EnvsFit, PodFits
  <2>3. PICK q \in DOMAIN given.parts : given.parts[q].secret = envs[n]
    BY <2>2 DEF IsEnv
  <2> QED
    BY <2>1, <2>2, <2>3 DEF IsEnv
<1>5. UsedOrReported
  <2> SUFFICES ASSUME NEW p \in DOMAIN given.parts,
                      Active(p), p \notin errors, Expected(p) # Empty
               PROVE  p \in DOMAIN configMap /\ configMap[p].text = Expected(p) /\ IsOn(p)
    BY DEF UsedOrReported
  <2>1. p \in Parts
    BY DEF TypeInv, TypeOK, IsResource
  <2>2. p \in DOMAIN copy.parts /\ copy.parts[p].text = Expected(p) /\ IsOnIn(p, copy.parts)
    BY <2>1 DEF Pass, PartsFit, Pending, Used
  <2>3. p[1] \notin Maps \cup {"admin", "license"}
    BY DEF Active, ProviderOf, Integrations, Providers, Maps
  <2>4. p \in DOMAIN configMap /\ configMap[p].text = Expected(p)
    BY <1>2, <2>2, <2>3
  <2>5. \A kind \in {"sso", "ai"} : <<kind>> \in DOMAIN copy.parts =>
          configMap[<<kind>>] = copy.parts[<<kind>>]
    BY <1>2 DEF Maps
  <2>6. IsOn(p)
    BY <2>2, <2>5 DEF IsOn, IsOnIn
  <2> QED
    BY <2>4, <2>6
<1> QED
  BY <1>3, <1>4, <1>5

(* A step within a Reconcile.                                              *)
LEMMA KnownStays ==
  ASSUME UNCHANGED <<given, secrets, configMap, objs, forgotten>>, Known
  PROVE  Known'
<1>1. Works(configMap)' <=> Works(configMap)
  BY DEF Works, MetadataOf, Found
<1> QED
  BY <1>1 DEF Known, PodFinds, Pod, Found, Exists, Has

LEMMA FillKeepsKnown ==
  ASSUME TypeInv, FillApiKeySecrets, Known
  PROVE  Known'
<1>1. UNCHANGED <<given, configMap, objs, forgotten>>
  BY DEF FillApiKeySecrets
<1>2. PodFinds'
  BY <1>1, FillAddsSecrets DEF Known, PodFinds, Pod
<1>3. ASSUME <<"saml">> \in DOMAIN configMap, MetadataOf(given.parts[<<"saml">>]) # Bad
      PROVE  MetadataOf(given.parts[<<"saml">>])' # Bad
  <2>1. given.parts[<<"saml">>] \in Part
    BY <1>3 DEF Known, TypeInv, TypeOK, IsResource
  <2>2. MetadataOf(given.parts[<<"saml">>])' # Bad
        \/ MetadataOf(given.parts[<<"saml">>]) = Bad
    BY <1>1, <2>1, FillKeepsMetadata DEF MetadataOf, Found
  <2> QED
    BY <1>3, <2>2
<1>4. Works(configMap) => Works(configMap)'
  BY <1>1, <1>3 DEF Works
<1> QED
  BY <1>1, <1>2, <1>4 DEF Known, Exists, Has

LEMMA ConfigMapKeepsKnown ==
  ASSUME TypeInv, Pass, WriteConfigMap, Known
  PROVE  Known'
<1>1. UNCHANGED <<given, secrets, objs, forgotten>>
      /\ configMap' \in {configMap, ConfigOf(copy.parts)}
  BY DEF WriteConfigMap
<1>2. copy # NoCopy /\ \A other \in todo : ~Precedes(other, <<"configMap">>)
  BY DEF WriteConfigMap, At, TypeInv, TypeOK
<1>3. todo \subseteq {<<"configMap">>, <<"statefulSet">>, <<"service">>}
  <2> SUFFICES ASSUME NEW step \in todo
               PROVE  step \in {<<"configMap">>, <<"statefulSet">>, <<"service">>}
    OBVIOUS
  <2>1. step \in Steps
    BY DEF TypeInv, TypeOK
  <2>2. Turn[step[1]] >= 13
    BY <1>2, <2>1 DEF Precedes, Turn, Steps, ProjectKinds, Integrations
  <2> QED
    BY <2>1, <2>2 DEF Steps, Turn, ProjectKinds, Integrations
<1>4. /\ DOMAIN configMap' \subseteq DOMAIN given.parts
      /\ Has(given, "license") => Works(configMap')
  BY <1>1, <1>2, <1>3, ConfigWorks DEF Known
<1>5. Works(configMap)' <=> Works(configMap')
  BY <1>1 DEF Works, MetadataOf, Found
<1> QED
  BY <1>1, <1>4, <1>5 DEF Known, PodFinds, Pod, Found, Exists, Has

LEMMA WritesKeepKnown ==
  ASSUME TypeInv, RejectedInv, Pass, WriteStatefulSet \/ WriteService, calm' >= 1, Known
  PROVE  Known'
<1>1. UNCHANGED <<given, secrets, configMap>>
  BY DEF WriteStatefulSet, WriteService
<1>2. Exists("StatefulSet")' /\ PodFinds'
  <2>1. CASE WriteStatefulSet
    BY <2>1, StatefulSetFits DEF PodFits
  <2>2. CASE WriteService
    <3>1. Exists("StatefulSet")' /\ Pod' = Pod
          /\ forgotten'["StatefulSet"] = forgotten["StatefulSet"]
      BY <2>2, ServiceKeepsPod DEF Known
    <3> QED
      BY <1>1, <3>1 DEF Known, PodFinds, Found
  <2> QED
    BY <2>1, <2>2
<1>3. Works(configMap)' <=> Works(configMap)
  BY <1>1 DEF Works, MetadataOf, Found
<1> QED
  BY <1>1, <1>2, <1>3 DEF Known, Has

LEMMA WithinReconcile ==
  ASSUME TypeInv, ResultInv, copy # NoCopy, copy' # NoCopy, calm' \in {0, calm},
         calm' >= 1 /\ Pass => Pass',
         calm' >= 1 /\ Pass /\ Known => Known'
  PROVE  ResultInv'
<1>1. calm \in 0 .. 2
  BY DEF TypeInv, TypeOK
<1>2. calm' >= 1 => calm' = calm /\ Pass
  BY <1>1 DEF ResultInv
<1> QED
  BY <1>1, <1>2 DEF ResultInv

LEMMA ResultStays ==
  ASSUME TypeAndHistoryInv, ResultInv, [Next]_vars
  PROVE  ResultInv'
<1>1. TypeInv /\ RejectedInv /\ TypeInv'
  BY TypesStay DEF TypeAndHistoryInv
<1>2. calm \in 0 .. 2
  BY <1>1 DEF TypeInv, TypeOK
<1>3. ASSUME calm' = 0
      PROVE  ResultInv'
  BY <1>3 DEF ResultInv
<1>4. todo # {} => copy # NoCopy
  BY <1>1 DEF TypeInv, TypeOK
<1>5. CASE Begin
  <2>1. Pass' /\ copy' # NoCopy
    <3>1. copy' = cache /\ IsResource(cache)
      BY <1>1, <1>5 DEF Begin, TypeInv, TypeOK
    <3> QED
      BY <1>1, <1>5, <3>1, BeginPasses, ResourceIsNotNothing
  <2>2. UNCHANGED <<given, secrets, configMap, objs, forgotten>> /\ calm' = IF calm = 0 THEN 1 ELSE calm
    BY <1>5 DEF Begin, clusterVars
  <2>3. calm' = 2 => Known'
    BY <1>2, <2>2, KnownStays DEF ResultInv
  <2> QED
    BY <2>1, <2>3 DEF ResultInv
<1>6. CASE End
  <2>1. /\ copy # NoCopy /\ todo = {} /\ copy' = NoCopy
        /\ UNCHANGED <<given, secrets, configMap, objs, forgotten, errors>>
        /\ calm' = IF calm = 1 THEN 2 ELSE calm
    BY <1>6 DEF End, clusterVars
  <2>2. ASSUME calm' # 0
        PROVE  Known /\ Resolves /\ UsedOrReported
    BY <1>1, <1>2, <2>1, <2>2, PassGivesResult DEF ResultInv
  <2>3. Known => Known'
    BY <2>1, KnownStays
  <2>4. Resolves => Resolves'
    BY <2>1 DEF Resolves, Pod
  <2>5. UsedOrReported => UsedOrReported'
    BY <2>1 DEF UsedOrReported, Active, Expected, IsOn, ProviderOf, SSOEnabled, Has
  <2> QED
    BY <1>3, <2>1, <2>2, <2>3, <2>4, <2>5 DEF ResultInv
<1>7. CASE Validating
  <2>1. PICK step, touched : Look(step, touched)
    BY <1>1, <1>7, ValidatingLooks
  <2>2. /\ UNCHANGED <<given, secrets, configMap, objs, forgotten, calm>>
        /\ IsResource(copy)' /\ todo # {}
    BY <2>1 DEF Look, At, clusterVars, historyVars
  <2>3. copy # NoCopy /\ copy' # NoCopy
    BY <1>4, <2>2, ResourceIsNotNothing
  <2>4. Known => Known'
    BY <2>2, KnownStays
  <2>5. Pass => Pass'
    BY <1>1, <1>7, ValidatingKeepsPass
  <2> QED
    BY <1>1, <2>2, <2>3, <2>4, <2>5, WithinReconcile
<1>8. CASE FillApiKeySecrets
  <2>1. todo # {} /\ copy' = copy /\ calm' \in {0, calm}
    BY <1>8 DEF FillApiKeySecrets, At, Disturbance
  <2>2. calm' >= 1 /\ Pass => Pass'
    BY <1>1, <1>8, FillKeepsPass
  <2>3. Known => Known'
    BY <1>1, <1>8, FillKeepsKnown
  <2> QED
    BY <1>1, <1>4, <2>1, <2>2, <2>3, WithinReconcile
<1>9. CASE WriteConfigMap
  <2>1. todo # {} /\ copy' = copy /\ calm' \in {0, calm}
    BY <1>9 DEF WriteConfigMap, At, Disturbance
  <2>2. calm' >= 1 /\ Pass => Pass'
    BY <1>1, <1>9, ConfigMapKeepsPass
  <2>3. Pass /\ Known => Known'
    BY <1>1, <1>9, ConfigMapKeepsKnown
  <2> QED
    BY <1>1, <1>4, <2>1, <2>2, <2>3, WithinReconcile
<1>10. CASE WriteStatefulSet \/ WriteService
  <2>1. \E step, maps : Writing(step, maps)
    BY <1>1, <1>10, StatefulSetWrites, ServiceWrites
  <2>2. todo # {} /\ IsResource(copy)' /\ calm' \in {0, calm}
    BY <2>1 DEF Writing, At
  <2>3. copy' # NoCopy
    BY <2>2, ResourceIsNotNothing
  <2>4. calm' >= 1 /\ Pass => Pass'
    BY <1>1, <1>10, StatefulSetKeepsPass, ServiceKeepsPass
  <2>5. calm' >= 1 /\ Pass /\ Known => Known'
    BY <1>1, <1>10, WritesKeepKnown
  <2> QED
    BY <1>1, <1>4, <2>2, <2>3, <2>4, <2>5, WithinReconcile
<1>11. CASE Environment
  <2>1. calm' = 0
    BY <1>11 DEF Environment, EditResource, ChangeSecrets, ChangeItem, ChangeRecord, DeleteObject,
                 Intervention, Disturbance
  <2> QED
    BY <1>3, <2>1
<1>12. CASE UNCHANGED vars
  <2>1. UNCHANGED <<given, secrets, configMap, objs, copy, todo, envs, keys, errors, calm,
                    forgotten>>
    BY <1>12 DEF vars, clusterVars, passVars, historyVars
  <2>2. Known => Known'
    BY <2>1, KnownStays
  <2>3. Resolves => Resolves'
    BY <2>1 DEF Resolves, Pod
  <2>4. UsedOrReported => UsedOrReported'
    BY <2>1 DEF UsedOrReported, Active, Expected, IsOn, ProviderOf, SSOEnabled, Has
  <2>5. Pass => Pass'
    BY <2>1 DEF Pass, PartsFit, EnvsFit, EnterpriseFits, WritesFit, InOrder, Fits, Pending, Used,
                NotEmpty, Active, Expected, ProviderOf, SSOEnabled, Has, IsOnIn, IsEnv, Found,
                SSOWorks, AIWorks, AdminWorks, MetadataOf, PodFits, PodFinds, Pod, Exists
  <2> QED
    BY <2>1, <2>2, <2>3, <2>4, <2>5 DEF ResultInv
<1> QED
  BY <1>5, <1>6, <1>7, <1>8, <1>9, <1>10, <1>11, <1>12 DEF Next, Reconcile, Validating

Inv == TypeAndHistoryInv /\ ResultInv

LEMMA InvHolds == Spec => []Inv
<1>1. Init => Inv
  BY TypesStart DEF Init, Inv, ResultInv
<1>2. Inv /\ [Next]_vars => Inv'
  BY TypesStay, ResultStays DEF Inv
<1> QED
  BY <1>1, <1>2, PTL DEF Spec

(* Once a Reconcile was undisturbed, every placeholder of the configuration*)
(* file is a variable of the pods, for the Secret of the very part or one  *)
(* with the same checksum, and the pods are made for this file, whatever   *)
(* the resource and the Secrets are and whatever happened before.          *)
THEOREM PlaceholdersAlwaysResolve == Spec => []PlaceholdersResolve
<1>1. Inv => PlaceholdersResolve
  <2> SUFFICES ASSUME Inv, Settled, todo = {}
               PROVE  Resolves
    BY DEF PlaceholdersResolve, Resolves
  <2>1. CASE copy = NoCopy
    BY <2>1 DEF Inv, ResultInv, Settled
  <2>2. CASE copy # NoCopy
    <3>1. TypeInv /\ Pass
      BY <2>2 DEF Inv, ResultInv, Settled, TypeAndHistoryInv
    <3> QED
      BY <2>2, <3>1, PassGivesResult
  <2> QED
    BY <2>1, <2>2
<1> QED
  BY <1>1, InvHolds, PTL

(* And whatever credential a user gives for an active part is in use, with *)
(* the reference before the text, or the part is among the errors.         *)
THEOREM NoCredentialIsLost == Spec => []CredentialsAreUsedOrReported
<1>1. Inv => CredentialsAreUsedOrReported
  <2> SUFFICES ASSUME Inv, Settled, todo = {}
               PROVE  UsedOrReported
    BY DEF CredentialsAreUsedOrReported, UsedOrReported, Expected
  <2>1. CASE copy = NoCopy
    BY <2>1 DEF Inv, ResultInv, Settled
  <2>2. CASE copy # NoCopy
    <3>1. TypeInv /\ Pass
      BY <2>2 DEF Inv, ResultInv, Settled, TypeAndHistoryInv
    <3> QED
      BY <2>2, <3>1, PassGivesResult
  <2> QED
    BY <2>1, <2>2
<1> QED
  BY <1>1, InvHolds, PTL

(* From then on, also in the middle of the next Reconciles, the pods wait  *)
(* for no Secret but a license's, provided nobody has touched the record.  *)
THEOREM PodsNeverWait == Spec => []PodsFindTheirSecrets
<1>1. Inv => PodsFindTheirSecrets
  BY DEF Inv, ResultInv, Settled, Known, PodFinds, References, PodsFindTheirSecrets
<1> QED
  BY <1>1, InvHolds, PTL

(* And what is on in the enterprise edition has what it needs.             *)
THEOREM WhatIsOnAlwaysWorks == Spec => []WhatIsOnWorks
<1>1. Inv => WhatIsOnWorks
  BY DEF Inv, ResultInv, Settled, Known, Works, WhatIsOnWorks
<1> QED
  BY <1>1, InvHolds, PTL
=============================================================================
