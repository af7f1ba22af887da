-------------------------- MODULE CorootReconciler --------------------------
(***************************************************************************)
(* The operator process at work on a cluster: the worker of the controller *)
(* and the hourly ticker, which both call Reconcile, possibly for the same *)
(* Coroot resource at the same time; the registry of instances and its     *)
(* lock; and around them the cluster: users who create, edit and delete    *)
(* Coroot resources, the garbage collector, the caches that lag behind the *)
(* API server and the events that wake the worker up.                      *)
(*                                                                         *)
(* A call of CreateOrUpdate is one step here: CreateOrUpdate.tla shows     *)
(* that it takes effect at once or not at all.  It has no effect when the  *)
(* cache is behind the server: the copy the call works on has an old       *)
(* resourceVersion then, and the server refuses what is made of it.        *)
(***************************************************************************)
EXTENDS ReconcilePlan

CONSTANTS
  Requests,        \* the names of Coroot resources: [namespace, name] records
  Specs,           \* the specs users give them
  Tracked(_),      \* the objects the model keeps: a projection of the plan
  NoCR, Absent, NoOwner,
  Limit            \* bounds: how often the environment does each thing

Threads == {"worker", "ticker"}

Occasions == {"incarnations", "edits", "failures", "restarts", "secrets",
              "removals", "releases"}

ASSUME RequestsAssumption ==
  /\ IsFiniteSet(Requests)
  /\ \A r \in Requests : r = [namespace |-> r.namespace, name |-> r.name]
ASSUME SpecsAssumption == \A s \in Specs : IsSpec(s)
ASSUME LimitAssumption ==
  /\ Limit \in [Occasions -> Nat]
  /\ Limit["incarnations"] >= 1 /\ Limit["releases"] >= 1

(* The operations of Reconcile at their positions, without those on        *)
(* objects the model drops.  Reconcile computes them from the validated    *)
(* spec (the Secrets that validateCoroot looks for change contents, not    *)
(* the list of objects).                                                   *)
IsKept(op) == op.verb = "validate" \/ Tracked(op.object)

Keep(plan) == [i \in {j \in DOMAIN plan : IsKept(plan[j])} |-> plan[i]]

PlanOf == [r \in Requests |-> [s \in Specs |-> Keep(Reconcile(r, Validated(s)))]]

Ops == UNION {{PlanOf[r][s][i] : i \in DOMAIN PlanOf[r][s]} : r \in Requests, s \in Specs}

Objects == {op.object : op \in {o \in Ops : o.verb # "validate"}}

-----------------------------------------------------------------------------
VARIABLES
  \* The cluster.
  cr,              \* cr[r]: the Coroot resource of name r
  objs,            \* objs[o]: the object o
  userSecret,      \* whether the Secret that specs refer to exists
  release,         \* the newest version in the image registry
  \* What the manager's caches lag behind by, and the events they will send.
  crCache,         \* crCache[r]: the resource, as the cache has it
  crStale,         \* the resources that changed since
  stale,           \* the objects whose cached version is not the latest
  wake,            \* wake[o]: the requests the events of o will enqueue
  secretCache,     \* userSecret, as the cache has it
  \* The process.
  queue,           \* the controller's workqueue
  delayed,         \* requests that will be added to it later
  instances,       \* the registry, and the lock that protects it
  instancesLock,
  toVisit,         \* the instances the ticker still has to reconcile
  versions,        \* the versions fetched last (0: the fallback "latest")
  deploymentDeleted,
  pc, work,        \* where each goroutine is, and its local state
  \* Bounds.
  count            \* how often each occasion has arisen

clusterVars == <<cr, objs, userSecret, release>>
cacheVars   == <<crCache, crStale, stale, wake, secretCache>>
queueVars   == <<queue, delayed>>
memoryVars  == <<instances, instancesLock, toVisit, versions, deploymentDeleted>>
threadVars  == <<pc, work>>
vars == <<clusterVars, cacheVars, queueVars, memoryVars, threadVars, count>>

(* A resource: its incarnation (uid), what the user asks and the status.   *)
Statuses == {"", "OK", "Misconfigured"}
Uids     == 0 .. Limit["incarnations"]
Coroots  == [uid : Uids, spec : Specs, status : Statuses]

(* An object: the fields its content was made of, the version of its image *)
(* (0 when it runs none) and its controller.  Nothing is kept of a legacy  *)
(* Deployment but its existence.                                           *)
Images   == 0 .. Limit["releases"]
Owners   == [request : Requests, uid : Uids] \cup {NoOwner}

ValueOf(r, op, spec) ==
  [f \in op.reads |-> IF f = "namespace" THEN r.namespace ELSE spec[f]]

(* validateCoroot drops a reference to a Secret it does not find, and the   *)
(* part of the spec it was for (but for the license key, which it leaves). *)
Resolved(spec, found) == [Validated(spec) EXCEPT !.readsSecret = @ /\ found]

Misconfigured(spec, found) == InvalidReplicas(spec) \/ (spec.readsSecret /\ ~found)

Values ==
  {ValueOf(r, op, Resolved(s, found)) :
     r \in Requests, op \in Ops, s \in Specs, found \in BOOLEAN}
  \cup {<<>>}

Contents == [value : Values, image : Images, owner : Owners]

ASSUME MarkersAssumption ==
  /\ NoCR \notin Coroots /\ NoCR \notin Requests
  /\ Absent \notin Contents
  /\ NoOwner \notin [request : Requests, uid : Uids]

(* The local state of a Reconcile: the copy of the resource and whether it *)
(* still is the latest version, the next operation, what validation found, *)
(* and the image read for the next operation.                              *)
NoWork == [request |-> NoCR, copy |-> NoCR, current |-> FALSE,
           at |-> 1, found |-> TRUE, image |-> 0]

Works == [request : Requests \cup {NoCR}, copy : Coroots \cup {NoCR}, current : BOOLEAN,
          at : Nat \ {0}, found : BOOLEAN, image : Images]

TypeOK ==
  /\ cr \in [Requests -> Coroots \cup {NoCR}]
  /\ objs \in [Objects -> Contents \cup {Absent}]
  /\ userSecret \in BOOLEAN /\ secretCache \in BOOLEAN
  /\ release \in Images /\ versions \in Images
  /\ crCache \in [Requests -> Coroots \cup {NoCR}]
  /\ crStale \subseteq Requests
  /\ stale \subseteq Objects
  /\ wake \in [Objects -> SUBSET Requests]
  /\ queue \subseteq Requests /\ delayed \subseteq Requests
  /\ instances \subseteq Requests
  /\ instancesLock \in Threads \cup {"free"}
  /\ toVisit \subseteq Requests
  /\ deploymentDeleted \in BOOLEAN
  /\ pc \in [Threads -> {"idle", "snapshot", "visit", "register", "unregister",
                         "deleteBinding", "deleteRole", "run", "finish"}]
  /\ work \in [Threads -> Works]
  /\ \A t \in Threads :
       /\ pc[t] \in {"register", "run", "finish"} => work[t].copy \in Coroots
       /\ pc[t] \notin {"idle", "snapshot", "visit"} => work[t].request \in Requests
  /\ count \in [Occasions -> Nat]

-----------------------------------------------------------------------------
(* The operator starts in a cluster where some resources may exist already,*)
(* each perhaps with the Deployment a former version of the operator ran.  *)
Init ==
  /\ cr \in [Requests -> [uid : {1}, spec : Specs, status : {""}] \cup {NoCR}]
  /\ \E legacy \in SUBSET {r \in Requests : cr[r] # NoCR} :
       objs = [o \in Objects |->
         IF \E r \in legacy : o = LegacyDeployment(r)
         THEN [value |-> <<>>, image |-> 0,
               owner |-> [request |-> CHOOSE r \in legacy : o = LegacyDeployment(r), uid |-> 1]]
         ELSE Absent]
  /\ userSecret = FALSE /\ secretCache = userSecret
  /\ release = 1 /\ versions = release
  /\ crCache = cr /\ crStale = {}
  /\ stale = {} /\ wake = [o \in Objects |-> {}]
  /\ queue = {r \in Requests : cr[r] # NoCR} /\ delayed = {}
  /\ instances = {} /\ instancesLock = "free" /\ toVisit = {}
  /\ deploymentDeleted = FALSE
  /\ pc = [t \in Threads |-> "idle"]
  /\ work = [t \in Threads |-> NoWork]
  /\ count = [x \in Occasions |-> IF x = "incarnations" THEN 1
                                  ELSE IF x = "releases" THEN 1 ELSE 0]

(* Something the environment does, as often as the bounds let it. *)
Occurs(x) ==
  /\ count[x] < Limit[x]
  /\ count' = [count EXCEPT ![x] = @ + 1]

-----------------------------------------------------------------------------
(* Changes of the cluster and what they leave behind.                      *)

(* The server accepts a change of a resource: the cached version and the   *)
(* copies of Reconciles under way are no longer the latest.                *)
Outdate(works, r) ==
  [t \in Threads |-> IF works[t].request = r THEN [works[t] EXCEPT !.current = FALSE]
                     ELSE works[t]]

PutCR(r, new) ==
  /\ cr' = [cr EXCEPT ![r] = new]
  /\ crStale' = crStale \cup {r}

(* The server accepts a change of an object: an event will wake up the     *)
(* resource that controlled it before and the one that controls it now, if *)
(* the kind is watched.                                                    *)
OwnersOf(content) ==
  IF content = Absent \/ content.owner = NoOwner THEN {} ELSE {content.owner.request}

(* Mutant: the event of an object carries its new version only. *)
PutForgettingTheOld(o, new) ==
  /\ objs' = [objs EXCEPT ![o] = new]
  /\ stale' = stale \cup {o}
  /\ wake' = IF o.kind \in WatchedKinds
             THEN [wake EXCEPT ![o] = @ \cup OwnersOf(new)]
             ELSE wake

Put(o, new) ==
  /\ objs' = [objs EXCEPT ![o] = new]
  /\ stale' = stale \cup {o}
  /\ wake' = IF o.kind \in WatchedKinds
             THEN [wake EXCEPT ![o] = @ \cup OwnersOf(objs[o]) \cup OwnersOf(new)]
             ELSE wake

(* A write that would change nothing is not sent (Update) or fails (the    *)
(* Delete of an object that is not there).                                 *)
Write(o, new) ==
  IF objs[o] # new THEN Put(o, new) ELSE UNCHANGED <<objs, stale, wake>>

Delete(o) ==
  IF o \in Objects THEN Write(o, Absent) ELSE UNCHANGED <<objs, stale, wake>>

-----------------------------------------------------------------------------
(* Users.                                                                  *)

CreateCR(r, spec) ==
  /\ cr[r] = NoCR
  /\ Occurs("incarnations")
  /\ PutCR(r, [uid |-> count'["incarnations"], spec |-> spec, status |-> ""])
  /\ UNCHANGED <<objs, userSecret, release, crCache, stale, wake, secretCache,
                 queueVars, memoryVars, threadVars>>

EditCR(r, spec) ==
  /\ cr[r] # NoCR /\ cr[r].spec # spec
  /\ Occurs("edits")
  /\ PutCR(r, [cr[r] EXCEPT !.spec = spec])
  /\ work' = Outdate(work, r)
  /\ UNCHANGED <<objs, userSecret, release, crCache, stale, wake, secretCache,
                 queueVars, memoryVars, pc>>

DeleteCR(r) ==
  /\ cr[r] # NoCR
  /\ Occurs("edits")
  /\ PutCR(r, NoCR)
  /\ work' = Outdate(work, r)
  /\ UNCHANGED <<objs, userSecret, release, crCache, stale, wake, secretCache,
                 queueVars, memoryVars, pc>>

ToggleSecret ==
  /\ Occurs("secrets")
  /\ userSecret' = ~userSecret
  /\ UNCHANGED <<cr, objs, release, cacheVars, queueVars, memoryVars, threadVars>>

DeleteObject(o) ==
  /\ objs[o] # Absent
  /\ Occurs("removals")
  /\ Put(o, Absent)
  /\ UNCHANGED <<cr, userSecret, release, crCache, crStale, secretCache,
                 queueVars, memoryVars, threadVars>>

NewRelease ==
  /\ Occurs("releases")
  /\ release' = count'["releases"]
  /\ UNCHANGED <<cr, objs, userSecret, cacheVars, queueVars, memoryVars, threadVars>>

-----------------------------------------------------------------------------
(* Kubernetes and the manager's client.                                    *)

(* The garbage collector deletes an object whose controller is gone: no    *)
(* resource of that name, or another incarnation of it.                    *)
Orphaned(o) ==
  /\ objs[o] # Absent /\ objs[o].owner # NoOwner
  /\ LET owner == objs[o].owner
     IN  ~ (cr[owner.request] # NoCR /\ cr[owner.request].uid = owner.uid)

Collect(o) ==
  /\ Orphaned(o)
  /\ Put(o, Absent)
  /\ UNCHANGED <<cr, userSecret, release, crCache, crStale, secretCache,
                 queueVars, memoryVars, threadVars, count>>

(* The watch of the resources: the cache is brought up to date and the     *)
(* request enqueued, whatever changed, the status included.                *)
SyncCRIfSpecChanged(r) ==   \* mutant: a predicate ignores changes of the status
  /\ r \in crStale
  /\ crCache' = [crCache EXCEPT ![r] = cr[r]]
  /\ crStale' = crStale \ {r}
  /\ queue' = IF cr[r] # NoCR /\ crCache[r] # NoCR /\ cr[r].spec = crCache[r].spec
              THEN queue ELSE queue \cup {r}
  /\ UNCHANGED <<clusterVars, stale, wake, secretCache, delayed,
                 memoryVars, threadVars, count>>

SyncCR(r) ==
  /\ r \in crStale
  /\ crCache' = [crCache EXCEPT ![r] = cr[r]]
  /\ crStale' = crStale \ {r}
  /\ queue' = queue \cup {r}
  /\ UNCHANGED <<clusterVars, stale, wake, secretCache, delayed,
                 memoryVars, threadVars, count>>

(* The watch of the objects: the cache is brought up to date and the       *)
(* controllers of all the versions it skipped enqueued.                    *)
SyncObject(o) ==
  /\ o \in stale
  /\ stale' = stale \ {o}
  /\ wake' = [wake EXCEPT ![o] = {}]
  /\ queue' = queue \cup wake[o]
  /\ UNCHANGED <<clusterVars, crCache, crStale, secretCache, delayed,
                 memoryVars, threadVars, count>>

(* The Secret of the user has no controller: nothing is enqueued. *)
SyncSecret ==
  /\ secretCache # userSecret
  /\ secretCache' = userSecret
  /\ UNCHANGED <<clusterVars, crCache, crStale, stale, wake,
                 queueVars, memoryVars, threadVars, count>>

DelayOver(r) ==
  /\ r \in delayed
  /\ delayed' = delayed \ {r}
  /\ queue' = queue \cup {r}
  /\ UNCHANGED <<clusterVars, cacheVars, memoryVars, threadVars, count>>

-----------------------------------------------------------------------------
(* Reconcile, by the worker or the ticker.                                 *)

(* Where a goroutine is after a Reconcile: the ticker has others to visit. *)
Rest(t) == IF t = "ticker" /\ toVisit # {} THEN "visit" ELSE "idle"

Return(t) ==
  /\ pc' = [pc EXCEPT ![t] = Rest(t)]
  /\ work' = [work EXCEPT ![t] = NoWork]

(* The worker takes a request from the queue, the ticker from its list.    *)
TakeRequest(t, r) ==
  \/ /\ t = "worker" /\ pc[t] = "idle" /\ r \in queue
     /\ queue' = queue \ {r}
     /\ UNCHANGED toVisit
  \/ /\ t = "ticker" /\ pc[t] = "visit" /\ r \in toVisit
     /\ toVisit' = toVisit \ {r}
     /\ UNCHANGED queue

(* Which way Reconcile goes after its Get. *)
BranchWithoutNotFound(r) == "register"   \* mutant

Branch(r) == IF crCache[r] = NoCR THEN "unregister" ELSE "register"

(* Reconcile reads the resource, from the cache. *)
Begin(t, r) ==
  /\ TakeRequest(t, r)
  /\ pc' = [pc EXCEPT ![t] = Branch(r)]
  /\ work' = [work EXCEPT ![t] =
       [NoWork EXCEPT !.request = r, !.copy = crCache[r],
                      !.current = crCache[r] # NoCR /\ r \notin crStale]]
  /\ UNCHANGED <<clusterVars, cacheVars, delayed, instances, instancesLock, versions,
                 deploymentDeleted, count>>

(* The read fails otherwise than with NotFound: the controller will retry, *)
(* the ticker ignores what Reconcile returns.                              *)
BeginFails(t, r) ==
  /\ TakeRequest(t, r)
  /\ Occurs("failures")
  /\ delayed' = IF t = "worker" THEN delayed \cup {r} ELSE delayed
  /\ pc' = [pc EXCEPT ![t] = IF t = "ticker" /\ toVisit' # {} THEN "visit" ELSE "idle"]
  /\ UNCHANGED <<clusterVars, cacheVars, instances, instancesLock, versions,
                 deploymentDeleted, work>>

(* The resource does not exist: it leaves the registry, and when no other  *)
(* is left the cluster-wide objects of the cluster agent are deleted, with *)
(* the lock held.                                                          *)
Unregister(t) ==
  /\ pc[t] = "unregister" /\ instancesLock = "free"
  /\ instances' = instances \ {work[t].request}
  /\ IF instances' = {}
     THEN /\ instancesLock' = t
          /\ pc' = [pc EXCEPT ![t] = "deleteBinding"]
          /\ UNCHANGED work
     ELSE /\ UNCHANGED instancesLock
          /\ Return(t)
  /\ UNCHANGED <<clusterVars, cacheVars, queueVars, toVisit, versions,
                 deploymentDeleted, count>>

(* A Delete whose error nobody looks at. *)
TryDelete(o) ==
  \/ Delete(o) /\ UNCHANGED count
  \/ Occurs("failures") /\ UNCHANGED <<objs, stale, wake>>

DeleteBinding(t) ==
  /\ pc[t] = "deleteBinding"
  /\ TryDelete(ClusterRoleBindingOf(work[t].request))
  /\ pc' = [pc EXCEPT ![t] = "deleteRole"]
  /\ UNCHANGED <<cr, userSecret, release, crCache, crStale, secretCache,
                 queueVars, memoryVars, work>>

DeleteRole(t) ==
  /\ pc[t] = "deleteRole"
  /\ TryDelete(ClusterRoleOf(work[t].request))
  /\ instancesLock' = "free"
  /\ Return(t)
  /\ UNCHANGED <<cr, userSecret, release, crCache, crStale, secretCache, queueVars,
                 instances, toVisit, versions, deploymentDeleted>>

(* The operation that is next: each is built right after the one before it *)
(* was sent, and reads the versions then.                                  *)
Plan(t) == PlanOf[work[t].request][work[t].copy.spec]

ImageFor(op) == IF op.image THEN versions ELSE 0

GoTo(t, i, found) ==
  LET ahead == {j \in DOMAIN Plan(t) : j >= i}
      next  == IF ahead = {} THEN i ELSE Min(ahead)
  IN  /\ pc' = [pc EXCEPT ![t] = IF ahead = {} THEN "finish" ELSE "run"]
      /\ work' = [work EXCEPT ![t].at = next, ![t].found = found,
                              ![t].image = IF ahead = {} THEN 0 ELSE ImageFor(Plan(t)[next])]

RegisterUnlocked(t) ==   \* mutant
  /\ pc[t] = "register"
  /\ instances' = instances \cup {work[t].request}
  /\ GoTo(t, 1, TRUE)
  /\ UNCHANGED <<clusterVars, cacheVars, queueVars, instancesLock, toVisit, versions,
                 deploymentDeleted, count>>

Register(t) ==
  /\ pc[t] = "register" /\ instancesLock = "free"
  /\ instances' = instances \cup {work[t].request}
  /\ GoTo(t, 1, TRUE)
  /\ UNCHANGED <<clusterVars, cacheVars, queueVars, instancesLock, toVisit, versions,
                 deploymentDeleted, count>>

Advance(t, found) == GoTo(t, work[t].at + 1, found)

Runs(t, verbs) == pc[t] = "run" /\ Plan(t)[work[t].at].verb \in verbs

(* SetControllerReference replaces the reference to another incarnation of *)
(* the resource and leaves the one to another resource; the counterpart    *)
(* RemoveControllerReference goes by the name too.                         *)
OwnerKeptByRetain(old, op, w) ==   \* mutant: retain only avoids setting the reference
  LET owner == IF old = Absent THEN NoOwner ELSE old.owner
  IN  IF op.retain \/ (owner # NoOwner /\ owner.request # w.request)
      THEN owner ELSE [request |-> w.request, uid |-> w.copy.uid]

OwnerAfter(old, op, w) ==
  LET owner == IF old = Absent THEN NoOwner ELSE old.owner
      mine  == owner # NoOwner /\ owner.request = w.request
  IN  IF op.retain
      THEN IF mine THEN NoOwner ELSE owner
      ELSE IF mine \/ owner = NoOwner
           THEN [request |-> w.request, uid |-> w.copy.uid] ELSE owner

ContentAfter(old, op, w) ==
  IF op.verb = "ensure" /\ old # Absent
  THEN [old EXCEPT !.owner = OwnerAfter(old, op, w)]
  ELSE [value |-> ValueOf(w.request, op, Resolved(w.copy.spec, w.found)),
        image |-> w.image,
        owner |-> OwnerAfter(old, op, w)]

(* CreateOrUpdate of one object.  Its errors are logged and dropped. *)
CreateOrUpdate(t) ==
  /\ Runs(t, {"apply", "ensure"})
  /\ LET op == Plan(t)[work[t].at]
         o  == op.object
     IN  \/ /\ o \notin stale
            /\ Write(o, ContentAfter(objs[o], op, work[t]))
            /\ UNCHANGED count
         \/ /\ o \in stale
            /\ UNCHANGED <<objs, stale, wake, count>>
         \/ /\ Occurs("failures")
            /\ UNCHANGED <<objs, stale, wake>>
  /\ Advance(t, work[t].found)
  /\ UNCHANGED <<cr, userSecret, release, crCache, crStale, secretCache,
                 queueVars, memoryVars>>

(* CreateOrUpdate with delete set, and the Delete of the Deployment of     *)
(* former versions, unless this process has already tried one.             *)
DeletePlanned(t) ==
  /\ Runs(t, {"delete", "legacy"})
  /\ LET op == Plan(t)[work[t].at]
     IN  IF op.verb = "legacy" /\ deploymentDeleted
         THEN UNCHANGED <<objs, stale, wake, count>>
         ELSE TryDelete(op.object)
  /\ Advance(t, work[t].found)
  /\ UNCHANGED <<cr, userSecret, release, crCache, crStale, secretCache,
                 queueVars, memoryVars>>

SetDeploymentDeleted(t) ==
  /\ Runs(t, {"legacyDone"})
  /\ deploymentDeleted' = TRUE
  /\ Advance(t, work[t].found)
  /\ UNCHANGED <<clusterVars, cacheVars, queueVars, instances, instancesLock,
                 toVisit, versions, count>>

(* validateCoroot looks for the Secret, in the cache. *)
Validate(t) ==
  /\ Runs(t, {"validate"})
  /\ Advance(t, secretCache \/ ~work[t].copy.spec.readsSecret)
  /\ UNCHANGED <<clusterVars, cacheVars, queueVars, memoryVars, count>>

(* The end of Reconcile: the deferred update of the status, which the      *)
(* server refuses if the resource has changed since it was read and which  *)
(* is no change if the status is the same; then the worker's retry.  With  *)
(* agentsOnly Reconcile has returned early: same status, no retry.         *)
StatusNeverCleared(w) ==   \* mutant
  IF w.copy.spec.agentsOnly THEN w.copy.status
  ELSE IF Misconfigured(w.copy.spec, w.found) \/ w.copy.status = "Misconfigured"
       THEN "Misconfigured" ELSE "OK"

StatusAfter(w) ==
  IF w.copy.spec.agentsOnly THEN w.copy.status
  ELSE IF Misconfigured(w.copy.spec, w.found) THEN "Misconfigured" ELSE "OK"

StatusAcceptedBlindly(w) == cr[w.request] # NoCR   \* mutant: no resourceVersion

StatusAccepted(w) == w.current

NoRetry(t, w) == {}   \* mutant

Retry(t, w) ==
  IF t = "worker" /\ ~w.copy.spec.agentsOnly /\ Misconfigured(w.copy.spec, w.found)
  THEN {w.request} ELSE {}

Finish(t) ==
  LET w == work[t]
      r == work[t].request
  IN  /\ pc[t] = "finish"
      /\ \/ /\ StatusAccepted(w) /\ StatusAfter(w) # cr[r].status
            /\ PutCR(r, [cr[r] EXCEPT !.status = StatusAfter(w)])
            /\ work' = [Outdate(work, r) EXCEPT ![t] = NoWork]
            /\ UNCHANGED count
         \/ /\ StatusAccepted(w) => StatusAfter(w) = cr[r].status
            /\ work' = [work EXCEPT ![t] = NoWork]
            /\ UNCHANGED <<cr, crStale, count>>
         \/ /\ Occurs("failures")
            /\ work' = [work EXCEPT ![t] = NoWork]
            /\ UNCHANGED <<cr, crStale>>
      /\ pc' = [pc EXCEPT ![t] = Rest(t)]
      /\ delayed' = delayed \cup Retry(t, w)
      /\ UNCHANGED <<objs, userSecret, release, crCache, stale, wake, secretCache,
                     queue, memoryVars>>

-----------------------------------------------------------------------------
(* The rest of the process.                                                *)

(* The hour is over: fetchAppVersions; a failure leaves the fallback.      *)
TickIfNewer ==   \* mutant: nothing to do without a new version
  /\ pc["ticker"] = "idle"
  /\ versions # release
  /\ \/ versions' = release /\ UNCHANGED count
     \/ versions' = 0 /\ Occurs("failures")
  /\ pc' = [pc EXCEPT !["ticker"] = "snapshot"]
  /\ UNCHANGED <<clusterVars, cacheVars, queueVars, instances, instancesLock, toVisit,
                 deploymentDeleted, work>>

Tick ==
  /\ pc["ticker"] = "idle"
  /\ \/ versions' = release /\ UNCHANGED count
     \/ versions' = 0 /\ Occurs("failures")
  /\ pc' = [pc EXCEPT !["ticker"] = "snapshot"]
  /\ UNCHANGED <<clusterVars, cacheVars, queueVars, instances, instancesLock, toVisit,
                 deploymentDeleted, work>>

TakeInstances ==
  /\ pc["ticker"] = "snapshot" /\ instancesLock = "free"
  /\ toVisit' = instances
  /\ pc' = [pc EXCEPT !["ticker"] = IF instances = {} THEN "idle" ELSE "visit"]
  /\ UNCHANGED <<clusterVars, cacheVars, queueVars, instances, instancesLock, versions,
                 deploymentDeleted, work, count>>

(* The process dies and is started again, at any point: what it had in     *)
(* memory is gone.  The new process reads everything, and an event for     *)
(* each resource and each watched object that exists fills the queue.      *)
Restart ==
  /\ Occurs("restarts")
  /\ pc' = [t \in Threads |-> "idle"]
  /\ work' = [t \in Threads |-> NoWork]
  /\ instances' = {} /\ instancesLock' = "free" /\ toVisit' = {}
  /\ deploymentDeleted' = FALSE
  /\ versions' = release
  /\ crCache' = cr /\ crStale' = {} /\ secretCache' = userSecret
  /\ stale' = {} /\ wake' = [o \in Objects |-> {}]
  /\ delayed' = {}
  /\ queue' = {r \in Requests : cr[r] # NoCR}
       \cup UNION {OwnersOf(objs[o]) : o \in {x \in Objects : x.kind \in WatchedKinds}}
  /\ UNCHANGED clusterVars

-----------------------------------------------------------------------------
User ==
  \/ \E r \in Requests : \/ DeleteCR(r)
                         \/ \E s \in Specs : CreateCR(r, s) \/ EditCR(r, s)
  \/ \E o \in Objects : DeleteObject(o)
  \/ ToggleSecret \/ NewRelease

Kubernetes ==
  \/ \E o \in Objects : Collect(o) \/ SyncObject(o)
  \/ \E r \in Requests : SyncCR(r) \/ DelayOver(r)
  \/ SyncSecret

Acquire(t) == Register(t) \/ Unregister(t) \/ (t = "ticker" /\ TakeInstances)

Proceed(t) ==
  \/ DeleteBinding(t) \/ DeleteRole(t)
  \/ CreateOrUpdate(t) \/ DeletePlanned(t) \/ SetDeploymentDeleted(t) \/ Validate(t)
  \/ Finish(t)

Process ==
  \/ \E t \in Threads : \/ \E r \in Requests : Begin(t, r) \/ BeginFails(t, r)
                        \/ Acquire(t) \/ Proceed(t)
  \/ Tick

Next == User \/ Kubernetes \/ Process \/ Restart

Spec == Init /\ [][Next]_vars

(* The goroutines keep running, Go's mutex hands itself over to a waiter   *)
(* in the end, the workqueue is first-in first-out, the hour passes, and   *)
(* the watches and the garbage collector of Kubernetes make progress.      *)
Fairness ==
  /\ \A t \in Threads : WF_vars(Proceed(t)) /\ SF_vars(Acquire(t))
  /\ \A r \in Requests : SF_vars(Begin("worker", r)) /\ WF_vars(DelayOver(r)) /\ WF_vars(SyncCR(r))
  /\ WF_vars(\E r \in Requests : Begin("ticker", r))
  /\ WF_vars(Tick)
  /\ \A o \in Objects : WF_vars(SyncObject(o)) /\ WF_vars(Collect(o))
  /\ WF_vars(SyncSecret)

FairSpec == Spec /\ Fairness

-----------------------------------------------------------------------------
(* While a goroutine deletes the cluster-wide objects it holds the lock    *)
(* and no resource is registered: nobody who registers can find them       *)
(* deleted under his feet (Reconcile, the branch for a resource that was   *)
(* not found, runs concurrently with the other goroutine's Register).      *)
DeletionIsExclusive ==
  \A t \in Threads :
    pc[t] \in {"deleteBinding", "deleteRole"} => instancesLock = t /\ instances = {}

(* The status the operator writes is the verdict on the very spec it is    *)
(* attached to: a Reconcile of an older spec, or of a former incarnation   *)
(* of the resource, never reports on the one a user has put in its place.  *)
StatusDescribesSpec ==
  [][ \A r \in Requests :
        cr[r] # NoCR /\ cr'[r] # NoCR
        /\ cr'[r].uid = cr[r].uid /\ cr'[r].status # cr[r].status
          => /\ cr'[r].spec = cr[r].spec
             /\ ~cr[r].spec.agentsOnly
             /\ \E found \in BOOLEAN :
                  cr'[r].status = IF Misconfigured(cr[r].spec, found)
                                  THEN "Misconfigured" ELSE "OK" ]_vars

(* Nothing is under way for a resource: no goroutine works on it or is     *)
(* about to, and no event or delay will start one.                         *)
Settled(r) ==
  /\ cr[r] # NoCR
  /\ r \notin queue \cup delayed \cup crStale
  /\ \A o \in Objects : r \notin wake[o]
  /\ \A t \in Threads : work[t].request # r
  /\ pc["ticker"] = "idle"

(* What the plan of resource r asks of object op.object is the case; found *)
(* is what validateCoroot has seen of the user's Secret.                   *)
Done(r, op, found) ==
  LET content == objs[op.object]
      owner   == IF op.retain THEN NoOwner ELSE [request |-> r, uid |-> cr[r].uid]
  IN  CASE op.verb = "apply" ->
             content = [value |-> ValueOf(r, op, Resolved(cr[r].spec, found)),
                        image |-> ImageFor(op), owner |-> owner]
        [] op.verb = "ensure" -> content # Absent /\ content.owner = owner
        [] op.verb \in {"delete", "legacy"} -> content = Absent
        [] OTHER -> TRUE

OpsOf(r) == LET plan == PlanOf[r][cr[r].spec] IN {plan[i] : i \in DOMAIN plan}

(* The objects that always have the resource as their controller: claims   *)
(* whose policy users turn to Retain and back, and the cluster-wide        *)
(* objects, are without one at times, and then no event of theirs reaches  *)
(* the operator; nor does any event of a role or role binding.             *)
IsWatched(o) == o.kind \in WatchedKinds /\ \A op \in Ops : op.object = o => ~op.retain

(* Without failures of the API, when nothing is under way for a resource   *)
(* its watched objects are what its spec asks for, newest fetched images   *)
(* included, although the goroutines write what they read a while ago and  *)
(* their writes fail when the cache lags: the watches see to it.  If the   *)
(* user's Secret has come, it has been seen.                               *)
SettledMeansApplied ==
  \A r \in Requests : Settled(r) =>
    \E found \in BOOLEAN :
      /\ userSecret => found \/ ~cr[r].spec.readsSecret
      /\ \A op \in OpsOf(r) : IsWatched(op.object) => Done(r, op, found)

(* Nor does a volume claim whose policy is Retain have a controller then:  *)
(* it would be collected with the resource.  The worker takes the owner    *)
(* reference away; the ticker, with an older copy of the resource, may put *)
(* it back.                                                                *)
SettledMeansRetained ==
  \A r \in Requests : Settled(r) =>
    \A op \in OpsOf(r) :
      op.retain /\ objs[op.object] # Absent => objs[op.object].owner = NoOwner

(* A resource reported as Misconfigured is on its way to be looked at      *)
(* again, whichever goroutine has reported it: the ticker drops the        *)
(* RequeueAfter that Reconcile returns.                                    *)
MisconfiguredIsRetried ==
  \A r \in Requests :
    cr[r] # NoCR /\ cr[r].status = "Misconfigured" /\ ~cr[r].spec.agentsOnly
      => \/ r \in queue \cup delayed \cup crStale
         \/ \E t \in Threads : work[t].request = r

(* And the status tells the truth about a settled resource, as far as the  *)
(* spec decides it, unless agentsOnly left an older one in place.          *)
SettledStatus ==
  \A r \in Requests :
    Settled(r) /\ ~cr[r].spec.agentsOnly =>
      /\ cr[r].status = "OK"
      /\ ~InvalidReplicas(cr[r].spec)

-----------------------------------------------------------------------------
(* Whatever fails, however often the process restarts and whoever deletes  *)
(* objects: once that ends, every resource has all its objects, the        *)
(* unwatched and the cluster-wide ones included, at the newest version,    *)
(* and keeps them: the hourly tick repairs what no event reports.          *)
Converges ==
  <>[] \A r \in Requests : cr[r] # NoCR =>
         \A op \in OpsOf(r) : Done(r, op, userSecret)

(* When the last resource is gone for good, so are the cluster-wide        *)
(* objects of the cluster agent, which no garbage collector deletes.       *)
ClusterObjectsCleaned ==
  (<>[] \A r \in Requests : cr[r] = NoCR)
    => <>[] \A r \in Requests :
              \A o \in Objects \cap {ClusterRoleOf(r), ClusterRoleBindingOf(r)} :
                objs[o] = Absent

(* What the documentation of the image field promises: without an image in *)
(* the spec the components follow the newest release (common.go, ImageSpec)*)
(* of every resource that exists.                                          *)
AutomaticUpdates ==
  <>[] \A r \in Requests : cr[r] # NoCR =>
         \A op \in OpsOf(r) : op.image =>
           objs[op.object] # Absent /\ objs[op.object].image = release

(* What the documentation of the reclaim policy promises: with Retain the  *)
(* claims are kept when the resource is deleted (common.go, StorageSpec),  *)
(* so none of Coroot's claims has the resource as its controller.          *)
RetainKeepsClaims ==
  \A r \in Requests : Settled(r) /\ "coroot" \in cr[r].spec.retain =>
    \A o \in Objects :
      o.kind = "PersistentVolumeClaim" /\ o.namespace = r.namespace
      /\ objs[o] # Absent /\ o.name[2] = r.name /\ o.name[3] = "coroot"
        => objs[o].owner = NoOwner
=============================================================================
