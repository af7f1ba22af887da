---------------------------- MODULE SettledProofs ----------------------------
(***************************************************************************)
(* Theorems about a resource for which nothing is under way, for every set *)
(* of resources and specs, every selection of objects and every bound, as  *)
(* long as no call of the API fails: its status is the verdict on its      *)
(* spec, its watched objects are what its spec asks for, and the objects   *)
(* it retains have no controller.                                          *)
(*                                                                         *)
(* The inductive invariants say who will see to it while something is not  *)
(* as it should be: an event or a retry on its way, or the worker, with    *)
(* the latest version of the resource in its hands and the operation still *)
(* ahead of it, or, for new images, the ticker.                            *)
(***************************************************************************)
EXTENDS CorootReconcilerProofs

(* No call of the API has failed so far. *)
Clean == count["failures"] = 0

(* A request for r is queued or will be. *)
Coming(r) == r \in queue \cup delayed \cup crStale

(* Goroutine t follows the plan of r. *)
Planning == {"register", "run", "finish"}

InPlan(t, r) == pc[t] \in Planning /\ work[t].request = r

(* ... with the latest version of r in its hands. *)
Holds(t, r) == InPlan(t, r) /\ work[t].current

LEMMA NoFailure ==
  ASSUME CountTyped, Clean'
  PROVE  ~Occurs("failures")
BY DEF CountTyped, Clean, Occurs, Occasions

LEMMA CleanBefore ==
  ASSUME CountTyped, [Next]_vars, Clean'
  PROVE  Clean
<1>1. ASSUME NEW x \in Occasions, Occurs(x) PROVE Clean
  BY <1>1 DEF CountTyped, Clean, Occurs, Occasions
<1>2. CASE UNCHANGED count
  BY <1>2 DEF Clean
<1>3. CASE User
  BY <1>1, <1>3 DEF User, CreateCR, EditCR, DeleteCR, ToggleSecret, DeleteObject, NewRelease,
     Occasions
<1>4. CASE Kubernetes
  BY <1>2, <1>4 DEF Kubernetes, Collect, SyncCR, SyncObject, SyncSecret, DelayOver
<1>5. CASE Process
  BY <1>1, <1>2, <1>5 DEF Process, Begin, BeginFails, Acquire, Register, Unregister,
     TakeInstances, Proceed, DeleteBinding, DeleteRole, TryDelete, CreateOrUpdate,
     DeletePlanned, SetDeploymentDeleted, Validate, Finish, Tick, Occasions
<1>6. CASE Restart
  BY <1>1, <1>6 DEF Restart, Occasions
<1> QED BY <1>2, <1>3, <1>4, <1>5, <1>6 DEF Next, vars

-----------------------------------------------------------------------------
(* What a step does to a goroutine.                                        *)
StaysPut(t) == pc'[t] = pc[t] /\ work'[t] = work[t]

LosesCopy(t) ==
  /\ pc'[t] = pc[t] /\ work'[t] = [work[t] EXCEPT !.current = FALSE]
  /\ work[t].request \in crStale'

Performs(t) ==
  CreateOrUpdate(t) \/ DeletePlanned(t) \/ SetDeploymentDeleted(t) \/ Validate(t)

Elsewhere(t) == pc[t] \notin Planning /\ pc'[t] \notin Planning \cup {"unregister"}

Steps(t) ==
  \/ StaysPut(t) \/ LosesCopy(t)
  \/ \E r \in Requests : Begin(t, r)
  \/ Register(t) \/ Performs(t) \/ Finish(t)
  \/ Elsewhere(t)
  \/ Restart

LEMMA OutdateSteps ==
  ASSUME Inv, NEW r, NEW t \in Threads, work' = Outdate(work, r), UNCHANGED pc,
         r \in crStale'
  PROVE  Steps(t)
BY DEF Steps, StaysPut, LosesCopy, Outdate

LEMMA OtherSteps ==
  ASSUME Inv, NEW t \in Threads, NEW u \in Threads, u # t,
         NEW l, pc' = [pc EXCEPT ![u] = l],
         NEW w, work' = [work EXCEPT ![u] = w]
  PROVE  Steps(t)
BY DEF Inv, Typed, ThreadsTyped, Steps, StaysPut

LEMMA GoToOther ==
  ASSUME Inv, NEW t \in Threads, NEW u \in Threads, u # t,
         NEW i, NEW found, GoTo(u, i, found)
  PROVE  Steps(t)
BY DEF GoTo, Inv, Typed, ThreadsTyped, Steps, StaysPut

(* Begin and its failure, for one goroutine and one request. *)
LEMMA BeginSteps ==
  ASSUME Inv, NEW t \in Threads, NEW u \in Threads, NEW r \in Requests,
         Begin(u, r) \/ BeginFails(u, r)
  PROVE  Steps(t)
<1>1. CASE Begin(u, r) /\ u # t
  BY <1>1, OtherSteps DEF Begin
<1>2. CASE BeginFails(u, r) /\ u # t
  BY <1>2 DEF BeginFails, Inv, Typed, ThreadsTyped, Steps, StaysPut
<1>3. CASE Begin(u, r) /\ u = t
  BY <1>3 DEF Steps
<1>4. CASE BeginFails(u, r) /\ u = t
  <2>1. pc[t] \in {"idle", "visit"}
    BY <1>4 DEF BeginFails, TakeRequest
  <2>2. pc'[t] \in {"idle", "visit"}
    BY <1>4 DEF BeginFails, Inv, Typed, ThreadsTyped
  <2> QED BY <2>1, <2>2 DEF Steps, Elsewhere, Planning
<1> QED BY <1>1, <1>2, <1>3, <1>4

LEMMA AcquireSteps ==
  ASSUME Inv, NEW t \in Threads, NEW u \in Threads, Acquire(u)
  PROVE  Steps(t)
<1>1. CASE Register(u)
  BY <1>1, GoToOther DEF Register, Steps
<1>2. CASE Unregister(u)
  <2>1. CASE instances' = {}
    <3>1. CASE u = t
      BY <1>2, <2>1, <3>1 DEF Unregister, Inv, Typed, ThreadsTyped, Steps, Elsewhere, Planning
    <3>2. CASE u # t
      BY <1>2, <2>1, <3>2 DEF Unregister, Inv, Typed, ThreadsTyped, Steps, StaysPut
    <3> QED BY <3>1, <3>2
  <2>2. CASE instances' # {}
    <3>1. pc[u] = "unregister" /\ Return(u)
      BY <1>2, <2>2 DEF Unregister
    <3>2. CASE u = t
      BY <3>1, <3>2, RestTyped DEF Return, Inv, Typed, ThreadsTyped, Steps, Elsewhere, Planning
    <3>3. CASE u # t
      BY <3>1, <3>3, OtherSteps DEF Return
    <3> QED BY <3>2, <3>3
  <2> QED BY <2>1, <2>2
<1>3. CASE TakeInstances
  <2>1. CASE t = "ticker"
    BY <1>3, <2>1 DEF TakeInstances, Inv, Typed, ThreadsTyped, Steps, Elsewhere, Planning
  <2>2. CASE t # "ticker"
    BY <1>3, <2>2 DEF TakeInstances, Inv, Typed, ThreadsTyped, Steps, StaysPut
  <2> QED BY <2>1, <2>2
<1> QED BY <1>1, <1>2, <1>3 DEF Acquire

LEMMA FinishSteps ==
  ASSUME Inv, NEW t \in Threads, NEW u \in Threads, u # t, Finish(u)
  PROVE  Steps(t)
<1> DEFINE r == work[u].request
<1>1. pc'[t] = pc[t]
  BY DEF Finish, Inv, Typed, ThreadsTyped
<1>2. CASE work' = [work EXCEPT ![u] = NoWork]
  BY <1>1, <1>2 DEF Inv, Typed, ThreadsTyped, Steps, StaysPut
<1>3. CASE /\ work' = [Outdate(work, r) EXCEPT ![u] = NoWork]
           /\ PutCR(r, [cr[r] EXCEPT !.status = StatusAfter(work[u])])
  <2>1. work'[t] = Outdate(work, r)[t] /\ r \in crStale'
    BY <1>3 DEF PutCR, Outdate
  <2> HIDE DEF r
  <2> QED BY <1>1, <2>1 DEF Outdate, Steps, StaysPut, LosesCopy
<1> QED BY <1>2, <1>3 DEF Finish

LEMMA ProceedSteps ==
  ASSUME Inv, NEW t \in Threads, NEW u \in Threads, Proceed(u)
  PROVE  Steps(t)
<1>1. CASE u = t /\ (Performs(u) \/ Finish(u))
  BY <1>1 DEF Steps
<1>2. CASE u # t /\ Performs(u)
  <2>1. PICK found : Advance(u, found)
    BY <1>2 DEF Performs, CreateOrUpdate, DeletePlanned, SetDeploymentDeleted, Validate
  <2> QED BY <1>2, <2>1, GoToOther DEF Advance
<1>3. CASE u # t /\ Finish(u)
  BY <1>3, FinishSteps
<1>4. CASE DeleteBinding(u)
  <2>1. CASE u = t
    BY <1>4, <2>1 DEF DeleteBinding, Inv, Typed, ThreadsTyped, Steps, Elsewhere, Planning
  <2>2. CASE u # t
    BY <1>4, <2>2 DEF DeleteBinding, Inv, Typed, ThreadsTyped, Steps, StaysPut
  <2> QED BY <2>1, <2>2
<1>5. CASE DeleteRole(u)
  <2>1. pc[u] = "deleteRole" /\ Return(u)
    BY <1>5 DEF DeleteRole
  <2>2. CASE u = t
    BY <2>1, <2>2, RestTyped DEF Return, Inv, Typed, ThreadsTyped, Steps, Elsewhere, Planning
  <2>3. CASE u # t
    BY <2>1, <2>3, OtherSteps DEF Return
  <2> QED BY <2>2, <2>3
<1> QED BY <1>1, <1>2, <1>3, <1>4, <1>5 DEF Proceed, Performs

(* Every step leaves a goroutine alone, makes its copy of the resource     *)
(* outdated, or is one of its own.                                         *)
LEMMA ThreadSteps ==
  ASSUME Inv, [Next]_vars, NEW t \in Threads
  PROVE  Steps(t)
<1>1. CASE UNCHANGED <<pc, work>>
  BY <1>1 DEF Steps, StaysPut
<1>2. CASE User
  <2>1. ASSUME NEW r \in Requests, DeleteCR(r) \/ \E s \in Specs : EditCR(r, s)
        PROVE  Steps(t)
    BY <2>1, OutdateSteps DEF DeleteCR, EditCR, PutCR
  <2> QED
    BY <1>1, <1>2, <2>1 DEF User, CreateCR, DeleteObject, ToggleSecret, NewRelease, threadVars
<1>3. CASE Kubernetes
  BY <1>1, <1>3 DEF Kubernetes, Collect, SyncCR, SyncObject, SyncSecret, DelayOver, threadVars
<1>4. CASE Process
  <2>1. CASE Tick
    <3>1. CASE t = "ticker"
      BY <2>1, <3>1 DEF Tick, Inv, Typed, ThreadsTyped, Steps, Elsewhere, Planning
    <3>2. CASE t # "ticker"
      BY <2>1, <3>2 DEF Tick, Inv, Typed, ThreadsTyped, Steps, StaysPut
    <3> QED BY <3>1, <3>2
  <2> QED BY <1>4, <2>1, BeginSteps, AcquireSteps, ProceedSteps DEF Process
<1>5. CASE Restart
  BY <1>5 DEF Steps
<1>6. CASE UNCHANGED vars
  BY <1>1, <1>6 DEF vars, threadVars
<1> QED BY <1>2, <1>3, <1>4, <1>5, <1>6 DEF Next

-----------------------------------------------------------------------------
(* What a step does to the requests: if none for r is coming afterwards,   *)
(* none was before, but for the one the worker has just taken, and the     *)
(* resource has not changed.                                               *)
Quiet(r) ==
  /\ cr'[r] = cr[r] /\ cr[r] # NoCR
  /\ r \notin delayed \cup crStale
  /\ r \in queue => Begin("worker", r)
  /\ ~Restart

LEMMA PutCRQuiet ==
  ASSUME Inv, NEW q, NEW new, PutCR(q, new), UNCHANGED queue, delayed \subseteq delayed',
         NEW r \in Requests, cr'[r] # NoCR, ~Coming(r)', ~Restart
  PROVE  Quiet(r)
BY DEF PutCR, Coming, Quiet, Inv, Typed, ClusterTyped

LEMMA QueueSteps ==
  ASSUME Inv, [Next]_vars, Clean', NEW r \in Requests, cr'[r] # NoCR, ~Coming(r)'
  PROVE  Quiet(r)
<1>1. ~Restart
  BY DEF Restart, Coming, clusterVars
<1>2. CASE UNCHANGED <<cr, crStale, queue, delayed>>
  BY <1>1, <1>2 DEF Quiet, Coming
<1>3. CASE User
  <2>1. ASSUME NEW q \in Requests, DeleteCR(q) \/ \E s \in Specs : CreateCR(q, s) \/ EditCR(q, s)
        PROVE  Quiet(r)
    BY <1>1, <2>1, PutCRQuiet DEF DeleteCR, CreateCR, EditCR, queueVars
  <2>2. CASE (\E o \in Objects : DeleteObject(o)) \/ ToggleSecret \/ NewRelease
    BY <1>2, <2>2 DEF DeleteObject, ToggleSecret, NewRelease, queueVars, cacheVars
  <2> QED BY <1>3, <2>1, <2>2 DEF User
<1>4. CASE Kubernetes
  <2>1. ASSUME NEW q \in Requests, SyncCR(q) \/ DelayOver(q) PROVE Quiet(r)
    BY <1>1, <2>1 DEF SyncCR, DelayOver, Coming, Quiet, clusterVars, cacheVars
  <2>2. ASSUME NEW o \in Objects, SyncObject(o) PROVE Quiet(r)
    BY <1>1, <2>2 DEF SyncObject, Coming, Quiet, clusterVars
  <2>3. CASE (\E o \in Objects : Collect(o)) \/ SyncSecret
    BY <1>2, <2>3 DEF Collect, SyncSecret, queueVars, clusterVars
  <2> QED BY <1>4, <2>1, <2>2, <2>3 DEF Kubernetes
<1>5. CASE Process
  <2>1. ASSUME NEW t \in Threads, NEW q \in Requests, Begin(t, q) PROVE Quiet(r)
    BY <1>1, <2>1 DEF Begin, TakeRequest, Coming, Quiet, clusterVars, cacheVars
  <2>2. ASSUME NEW t \in Threads, NEW q \in Requests, BeginFails(t, q) PROVE FALSE
    BY <2>2, NoFailure DEF BeginFails, Inv, Typed
  <2>3. ASSUME NEW t \in Threads, Acquire(t) PROVE Quiet(r)
    BY <1>2, <2>3 DEF Acquire, Register, Unregister, TakeInstances, clusterVars, cacheVars,
       queueVars
  <2>4. ASSUME NEW t \in Threads, Finish(t) PROVE Quiet(r)
    <3>1. UNCHANGED queue /\ delayed \subseteq delayed'
      BY <2>4 DEF Finish
    <3>2. CASE UNCHANGED <<cr, crStale>>
      BY <1>1, <3>1, <3>2 DEF Quiet, Coming
    <3>3. CASE \E q, new : PutCR(q, new)
      BY <1>1, <3>1, <3>3, PutCRQuiet
    <3> QED BY <2>4, <3>2, <3>3 DEF Finish
  <2>5. ASSUME NEW t \in Threads, Proceed(t), ~Finish(t) PROVE Quiet(r)
    BY <1>2, <2>5 DEF Proceed, DeleteBinding, DeleteRole, CreateOrUpdate, DeletePlanned,
       SetDeploymentDeleted, Validate, queueVars, clusterVars, cacheVars
  <2>6. CASE Tick
    BY <1>2, <2>6 DEF Tick, clusterVars, cacheVars, queueVars
  <2> QED BY <1>5, <2>1, <2>2, <2>3, <2>4, <2>5, <2>6 DEF Process
<1>6. CASE UNCHANGED vars
  BY <1>2, <1>6 DEF vars, clusterVars, cacheVars, queueVars
<1> QED BY <1>1, <1>3, <1>4, <1>5, <1>6 DEF Next

-----------------------------------------------------------------------------
(* What a step does to an object: nothing, or it is written by a goroutine *)
(* or deleted, and then the events of its old and its new version are on   *)
(* their way.                                                              *)
Writes(t, o) ==
  /\ CreateOrUpdate(t) /\ o \notin stale
  /\ o = Plan(t)[work[t].at].object
  /\ objs'[o] = ContentAfter(objs[o], Plan(t)[work[t].at], work[t])

Same(o) ==
  /\ objs'[o] = objs[o]
  /\ o \in stale' => o \in stale /\ wake'[o] = wake[o]

Differs(o) ==
  /\ objs'[o] # objs[o]
  /\ objs'[o] = Absent \/ \E t \in Threads : Writes(t, o)
  /\ o.kind \in WatchedKinds =>
       /\ wake[o] \cup OwnersOf(objs[o]) \cup OwnersOf(objs'[o]) \subseteq wake'[o]

(* Nor is a request forgotten that an event will make. *)
Moves(o) ==
  /\ Same(o) \/ Differs(o)
  /\ Restart \/ wake[o] \subseteq wake'[o] \cup queue'

LEMMA PutObject ==
  ASSUME Inv, NEW p \in Objects, NEW new, Put(p, new), new # objs[p],
         new = Absent \/ \E t \in Threads :
                           /\ CreateOrUpdate(t) /\ p \notin stale
                           /\ p = Plan(t)[work[t].at].object
                           /\ new = ContentAfter(objs[p], Plan(t)[work[t].at], work[t]),
         NEW o \in Objects
  PROVE  Moves(o)
<1>1. /\ objs' = [objs EXCEPT ![p] = new] /\ stale' = stale \cup {p}
      /\ wake[o] \subseteq wake'[o]
      /\ o # p => wake'[o] = wake[o]
      /\ p.kind \in WatchedKinds =>
           wake'[p] = wake[p] \cup OwnersOf(objs[p]) \cup OwnersOf(new)
  BY DEF Put, Inv, Typed, CacheTyped
<1>2. CASE o # p
  BY <1>1, <1>2 DEF Moves, Same, Inv, Typed, ClusterTyped
<1>3. CASE o = p
  <2>1. objs'[o] = new
    BY <1>1, <1>3 DEF Inv, Typed, ClusterTyped
  <2> QED BY <1>1, <1>3, <2>1 DEF Moves, Differs, Writes
<1> QED BY <1>2, <1>3

LEMMA ObjectSteps ==
  ASSUME Inv, [Next]_vars, NEW o \in Objects
  PROVE  Moves(o)
<1>1. CASE UNCHANGED <<objs, stale, wake>>
  BY <1>1 DEF Moves, Same
<1>2. ASSUME NEW p \in Objects, Put(p, Absent), objs[p] # Absent PROVE Moves(o)
  BY <1>2, PutObject
<1>3. ASSUME NEW p, TryDelete(p) PROVE Moves(o)
  BY <1>1, <1>2, <1>3 DEF TryDelete, Delete, Write
<1>4. CASE User
  <2>1. ASSUME NEW p \in Objects, DeleteObject(p) PROVE Moves(o)
    BY <1>2, <2>1 DEF DeleteObject
  <2> QED
    BY <1>1, <1>4, <2>1 DEF User, DeleteCR, CreateCR, EditCR, ToggleSecret, NewRelease, cacheVars
<1>5. CASE Kubernetes
  <2>1. ASSUME NEW p \in Objects, Collect(p) PROVE Moves(o)
    BY <1>2, <2>1 DEF Collect, Orphaned
  <2>2. ASSUME NEW p \in Objects, SyncObject(p) PROVE Moves(o)
    BY <2>2 DEF SyncObject, Moves, Same, clusterVars, Inv, Typed, CacheTyped
  <2> QED
    BY <1>1, <1>5, <2>1, <2>2 DEF Kubernetes, SyncCR, DelayOver, SyncSecret, clusterVars, cacheVars
<1>6. CASE Process
  <2>1. ASSUME NEW t \in Threads, CreateOrUpdate(t) PROVE Moves(o)
    <3> DEFINE op == Plan(t)[work[t].at]
               p == op.object
               new == ContentAfter(objs[p], op, work[t])
    <3>1. CASE UNCHANGED <<objs, stale, wake>>
      BY <1>1, <3>1
    <3>2. CASE p \notin stale /\ Write(p, new)
      <4>1. op \in Ops /\ op.verb # "validate"
        BY <2>1, NextOp DEF CreateOrUpdate, Runs, Inv, Typed
      <4>2. p \in Objects
        BY <4>1 DEF Objects
      <4>3. CASE Put(p, new) /\ objs[p] # new
        <5> HIDE DEF new, p, op
        <5>1. new = ContentAfter(objs[p], Plan(t)[work[t].at], work[t])
          BY DEF new, op
        <5>2. p = Plan(t)[work[t].at].object
          BY DEF p, op
        <5> QED BY <2>1, <3>2, <4>2, <4>3, <5>1, <5>2, PutObject
      <4> QED BY <1>1, <3>2, <4>3 DEF Write
    <3> QED BY <2>1, <3>1, <3>2 DEF CreateOrUpdate
  <2>2. ASSUME NEW t \in Threads, Proceed(t), ~CreateOrUpdate(t) PROVE Moves(o)
    <3>1. CASE DeletePlanned(t)
      BY <1>1, <1>3, <3>1 DEF DeletePlanned
    <3>2. CASE DeleteBinding(t) \/ DeleteRole(t)
      BY <1>3, <3>2 DEF DeleteBinding, DeleteRole
    <3>3. CASE SetDeploymentDeleted(t) \/ Validate(t) \/ Finish(t)
      BY <1>1, <3>3 DEF SetDeploymentDeleted, Validate, Finish, clusterVars, cacheVars
    <3> QED BY <2>2, <3>1, <3>2, <3>3 DEF Proceed
  <2> QED
    BY <1>1, <1>6, <2>1, <2>2 DEF Process, Begin, BeginFails, Acquire, Register, Unregister,
       TakeInstances, Tick, clusterVars, cacheVars
<1>7. CASE Restart
  BY <1>7 DEF Restart, Moves, Same, clusterVars
<1>8. CASE UNCHANGED vars
  BY <1>1, <1>8 DEF vars, clusterVars, cacheVars
<1> QED BY <1>4, <1>5, <1>6, <1>7, <1>8 DEF Next

-----------------------------------------------------------------------------
(* Whose objects are.                                                      *)
LEMMA RequestsAreRequests == \A r \in Requests : IsRequest(r)
BY RequestsAssumption DEF IsRequest

LEMMA OpFacts ==
  ASSUME NEW r \in Requests, NEW s \in Specs, NEW i \in DOMAIN PlanOf[r][s]
  PROVE  /\ Proper(r, PlanOf[r][s][i])
         /\ s.agentsOnly => PlanOf[r][s][i].reads \subseteq AgentFields
<1> DEFINE plan == Reconcile(r, Validated(s))
<1>1. IsSpec(Validated(s)) /\ Validated(s).agentsOnly = s.agentsOnly
  BY SpecsAssumption, ValidatedIsSpec DEF SpecFields
<1>2. i \in DOMAIN plan /\ PlanOf[r][s][i] = plan[i]
  BY PlanPositions
<1>3. plan[i] \in PlannedOps(r, Validated(s))
  BY <1>1, <1>2, PlanElements DEF ToSet
<1> HIDE DEF plan
<1> QED BY <1>1, <1>2, <1>3, RequestsAreRequests, PlanIsProper

(* The controller of an object is the resource its name begins with, if    *)
(* any; watched objects have one.                                          *)
ObjectsOwned ==
  \A o \in Objects : objs[o] # Absent =>
    /\ objs[o].owner # NoOwner => ~Shared(o) /\ objs[o].owner.request = HolderOf(o)
    /\ IsWatched(o) => objs[o].owner # NoOwner

(* The controllers of an object whose last change is not in the cache yet  *)
(* will hear of it, whoever changed it.                                    *)
ChangesAnnounced ==
  \A o \in stale : o.kind \in WatchedKinds =>
    /\ OwnersOf(objs[o]) \subseteq wake[o]
    /\ IsWatched(o) => HolderOf(o) \in wake[o]

LEMMA AtOp ==
  ASSUME Inv, NEW t \in Threads, pc[t] = "run"
  PROVE  /\ work[t].request \in Requests /\ work[t].copy \in Coroots
         /\ work[t].copy.spec \in Specs
         /\ Plan(t) = PlanOf[work[t].request][work[t].copy.spec]
         /\ work[t].at \in DOMAIN Plan(t)
         /\ Plan(t)[work[t].at] \in Ops
         /\ Proper(work[t].request, Plan(t)[work[t].at])
<1>1. work[t].request \in Requests /\ work[t].copy \in Coroots /\ work[t].at \in DOMAIN Plan(t)
  BY DEF Inv, Typed, ThreadsTyped
<1>2. work[t].copy.spec \in Specs
  BY <1>1 DEF Coroots
<1> QED BY <1>1, <1>2, OpFacts, OpKnown DEF Plan

LEMMA ContentOwner ==
  ASSUME NEW old \in Contents \cup {Absent}, NEW op, NEW w
  PROVE  ContentAfter(old, op, w).owner = OwnerAfter(old, op, w)
BY DEF ContentAfter, Contents

LEMMA WrittenTyped ==
  ASSUME Inv, NEW o \in Objects, NEW t \in Threads, Writes(t, o)
  PROVE  /\ objs'[o] \in Contents /\ objs'[o] # Absent
         /\ objs'[o].owner = OwnerAfter(objs[o], Plan(t)[work[t].at], work[t])
<1>1. pc[t] = "run"
  BY DEF Writes, CreateOrUpdate, Runs
<1>2. objs[o] \in Contents \cup {Absent} /\ work[t] \in Works
  BY DEF Inv, Typed, ClusterTyped, ThreadsTyped
<1>3. objs'[o] \in Contents
  BY <1>1, <1>2, AtOp, ContentTyped DEF Writes
<1> QED BY <1>2, <1>3, ContentOwner, MarkersAssumption DEF Writes

LEMMA WrittenOwner ==
  ASSUME Inv, ObjectsOwned, NEW o \in Objects, NEW t \in Threads, Writes(t, o)
  PROVE  /\ objs'[o].owner # NoOwner => ~Shared(o) /\ objs'[o].owner.request = HolderOf(o)
         /\ IsWatched(o) => objs'[o].owner # NoOwner
<1> DEFINE w == work[t]
           op == Plan(t)[w.at]
           old == objs[o]
           owner == IF old = Absent THEN NoOwner ELSE old.owner
           mine == [request |-> w.request, uid |-> w.copy.uid]
<1>1. pc[t] = "run"
  BY DEF Writes, CreateOrUpdate, Runs
<1>2. /\ op \in Ops /\ op.object = o /\ Proper(w.request, op)
      /\ w.request \in Requests /\ w.copy.uid \in Uids
  BY <1>1, AtOp DEF Writes, Coroots
<1>3. objs'[o].owner = OwnerAfter(old, op, w)
  BY WrittenTyped
<1>4. owner # NoOwner => ~Shared(o) /\ owner.request = HolderOf(o)
  BY DEF ObjectsOwned
<1>5. mine # NoOwner /\ mine.request = w.request
  BY <1>2, MarkersAssumption
<1>6. CASE op.retain
  <2>1. ~IsWatched(o)
    BY <1>2, <1>6 DEF IsWatched
  <2>2. OwnerAfter(old, op, w) \in {NoOwner, owner}
    BY <1>6 DEF OwnerAfter
  <2> QED BY <1>3, <1>4, <2>1, <2>2
<1>7. CASE ~op.retain
  <2>1. HolderOf(o) = w.request /\ ~Shared(o)
    BY <1>2, <1>7 DEF Proper
  <2>2. OwnerAfter(old, op, w) = IF owner = NoOwner \/ owner.request = w.request
                                 THEN mine ELSE owner
    BY <1>7 DEF OwnerAfter
  <2> HIDE DEF mine, owner
  <2> QED BY <1>3, <1>4, <1>5, <2>1, <2>2
<1> QED BY <1>6, <1>7

LEMMA OwnedInit == Init => ObjectsOwned
<1> SUFFICES ASSUME Init, NEW o \in Objects, objs[o] # Absent
             PROVE  /\ objs[o].owner # NoOwner =>
                         ~Shared(o) /\ objs[o].owner.request = HolderOf(o)
                    /\ IsWatched(o) => objs[o].owner # NoOwner
  BY DEF ObjectsOwned
<1>1. PICK legacy \in SUBSET {r \in Requests : cr[r] # NoCR} :
       objs = [x \in Objects |->
         IF \E r \in legacy : x = LegacyDeployment(r)
         THEN [value |-> <<>>, image |-> 0,
               owner |-> [request |-> CHOOSE r \in legacy : x = LegacyDeployment(r), uid |-> 1]]
         ELSE Absent]
  BY DEF Init
<1> DEFINE q == CHOOSE r \in legacy : o = LegacyDeployment(r)
<1>2. \E r \in legacy : o = LegacyDeployment(r)
  BY <1>1
<1>3. q \in Requests /\ o = LegacyDeployment(q)
  BY <1>2
<1>4. objs[o] = [value |-> <<>>, image |-> 0, owner |-> [request |-> q, uid |-> 1]]
  BY <1>1, <1>2
<1> HIDE DEF q
<1>5. HolderOf(o) = q /\ ~Shared(o)
  BY <1>3, RequestsAssumption DEF LegacyDeployment, Object, HolderOf, Shared
<1>6. 1 \in Uids
  BY LimitAssumption DEF Uids, Occasions
<1>7. [request |-> q, uid |-> 1] # NoOwner
  BY <1>3, <1>6, MarkersAssumption
<1> QED BY <1>4, <1>5, <1>7

LEMMA OwnedNext ==
  ASSUME Inv, ObjectsOwned, [Next]_vars
  PROVE  ObjectsOwned'
<1> SUFFICES ASSUME NEW o \in Objects, objs'[o] # Absent
             PROVE  /\ objs'[o].owner # NoOwner =>
                         ~Shared(o) /\ objs'[o].owner.request = HolderOf(o)
                    /\ IsWatched(o) => objs'[o].owner # NoOwner
  BY DEF ObjectsOwned
<1>1. CASE Same(o)
  BY <1>1 DEF Same, ObjectsOwned
<1>2. CASE Differs(o)
  BY <1>2, WrittenOwner DEF Differs
<1> QED BY <1>1, <1>2, ObjectSteps DEF Moves

LEMMA AnnouncedNext ==
  ASSUME Inv, ObjectsOwned, ObjectsOwned', ChangesAnnounced, [Next]_vars
  PROVE  ChangesAnnounced'
<1> SUFFICES ASSUME NEW o \in stale', o.kind \in WatchedKinds
             PROVE  /\ OwnersOf(objs'[o]) \subseteq wake'[o]
                    /\ IsWatched(o) => HolderOf(o) \in wake'[o]
  BY DEF ChangesAnnounced
<1>1. o \in Objects
  BY NextInv DEF Inv, Typed, CacheTyped
<1>2. CASE Same(o)
  BY <1>2 DEF Same, ChangesAnnounced
<1>3. CASE Differs(o)
  <2>1. OwnersOf(objs[o]) \cup OwnersOf(objs'[o]) \subseteq wake'[o] /\ objs'[o] # objs[o]
    BY <1>3 DEF Differs
  <2>2. CASE objs[o] # Absent
    BY <1>1, <2>1, <2>2 DEF ObjectsOwned, OwnersOf
  <2>3. CASE objs'[o] # Absent
    BY <1>1, <2>1, <2>3 DEF ObjectsOwned, OwnersOf
  <2> QED BY <2>1, <2>2, <2>3
<1> QED BY <1>1, <1>2, <1>3, ObjectSteps DEF Moves

-----------------------------------------------------------------------------
(* How a goroutine goes through the plan of the resource it holds.         *)
PlanFor(r) == PlanOf[r][cr[r].spec]

LEMMA HeldPlan ==
  ASSUME Inv, NEW t \in Threads, NEW r \in Requests, Holds(t, r)
  PROVE  /\ work[t].request = r /\ work[t].copy = cr[r] /\ cr[r] \in Coroots
         /\ cr[r].spec \in Specs
         /\ Plan(t) = PlanFor(r)
         /\ work[t].at \in Nat \ {0}
         /\ work[t].found \in BOOLEAN
<1>1. work[t].request = r /\ work[t].copy = cr[r] /\ cr[r] # NoCR
  BY DEF Holds, InPlan, Inv, CopiesAgree
<1>2. cr[r] \in Coroots /\ work[t].at \in Nat \ {0} /\ work[t].found \in BOOLEAN
  BY <1>1 DEF Inv, Typed, ClusterTyped, ThreadsTyped, Works
<1> QED BY <1>1, <1>2 DEF Coroots, Plan, PlanFor

LEMMA RegisterMoves ==
  ASSUME Inv, NEW t \in Threads, Register(t)
  PROVE  \E l \in {"run", "finish"}, j \in Nat \ {0}, image \in Images :
           MovesTo(t, 1, TRUE, l, j, image)
<1>1. work[t].request \in Requests /\ work[t].copy \in Coroots
  BY DEF Register, Inv, Typed, ThreadsTyped
<1>2. GoTo(t, 1, TRUE)
  BY Zenon DEF Register
<1>3. 1 \in Nat \ {0}
  OBVIOUS
<1> QED BY <1>1, <1>2, <1>3, GoToMoves DEF Inv, Typed

(* Only validation changes what a goroutine has found. *)
LEMMA PerformsMoves ==
  ASSUME Inv, NEW t \in Threads, Performs(t)
  PROVE  /\ pc[t] = "run"
         /\ \E found \in BOOLEAN, l \in {"run", "finish"}, j \in Nat \ {0}, image \in Images :
              /\ MovesTo(t, work[t].at + 1, found, l, j, image)
              /\ found = work[t].found \/ Plan(t)[work[t].at].verb = "validate"
<1>1. /\ pc[t] = "run" /\ work[t].request \in Requests /\ work[t].copy \in Coroots
      /\ work[t].at + 1 \in Nat \ {0} /\ work[t].found \in BOOLEAN
      /\ work[t].copy.spec \in Specs
  BY DEF Performs, CreateOrUpdate, DeletePlanned, SetDeploymentDeleted, Validate, Runs,
     Inv, Typed, ThreadsTyped, Works, Coroots
<1>2. PICK found \in BOOLEAN :
        /\ GoTo(t, work[t].at + 1, found)
        /\ found = work[t].found \/ Plan(t)[work[t].at].verb = "validate"
  <2>1. CASE Validate(t)
    <3>1. (secretCache \/ ~work[t].copy.spec.readsSecret) \in BOOLEAN
      OBVIOUS
    <3> QED BY <2>1, <3>1 DEF Validate, Advance, Runs
  <2>2. CASE Advance(t, work[t].found)
    BY <1>1, <2>2 DEF Advance
  <2> QED BY <2>1, <2>2 DEF Performs, CreateOrUpdate, DeletePlanned, SetDeploymentDeleted
<1>3. PICK l \in {"run", "finish"}, j \in Nat \ {0}, image \in Images :
        MovesTo(t, work[t].at + 1, found, l, j, image)
  BY <1>1, <1>2, GoToMoves DEF Inv, Typed
<1> QED BY <1>1, <1>2, <1>3

(* While nothing comes up for r, a goroutine that holds it stays where it  *)
(* is or goes on with the plan.                                            *)
GoesOn(t) == StaysPut(t) \/ Register(t) \/ Performs(t)

LEMMA HolderSteps ==
  ASSUME Inv, [Next]_vars, NEW t \in Threads, NEW r \in Requests,
         Holds(t, r), Quiet(r), ~Coming(r)'
  PROVE  GoesOn(t) \/ Finish(t)
<1>1. pc[t] \in {"register", "run", "finish"} /\ work[t].request = r
  BY DEF Holds, InPlan, Planning
<1>2. ~LosesCopy(t)
  BY <1>1 DEF LosesCopy, Coming
<1>3. ~ \E q \in Requests : Begin(t, q)
  BY <1>1 DEF Begin, TakeRequest
<1>4. ~Elsewhere(t) /\ ~Restart
  BY <1>1 DEF Elsewhere, Planning, Quiet
<1> QED BY <1>2, <1>3, <1>4, ThreadSteps DEF Steps, GoesOn

(* The local state of a goroutine that has moved on. *)
LEMMA Moved ==
  ASSUME Inv, NEW t \in Threads, NEW i, NEW found, NEW l, NEW j, NEW image,
         MovesTo(t, i, found, l, j, image)
  PROVE  /\ pc'[t] = l
         /\ work'[t].request = work[t].request /\ work'[t].copy = work[t].copy
         /\ work'[t].current = work[t].current
         /\ work'[t].at = j /\ work'[t].found = found /\ work'[t].image = image
BY DEF MovesTo, Inv, Typed, ThreadsTyped, Works

LEMMA GoesOnHolding ==
  ASSUME Inv, NEW t \in Threads, NEW r \in Requests, Holds(t, r), GoesOn(t)
  PROVE  Holds(t, r)'
<1>1. CASE StaysPut(t)
  BY <1>1 DEF StaysPut, Holds, InPlan
<1>2. ASSUME NEW i, NEW found, NEW l \in {"run", "finish"}, NEW j, NEW image,
             MovesTo(t, i, found, l, j, image)
      PROVE  Holds(t, r)'
  BY <1>2, Moved DEF Holds, InPlan, Planning
<1>3. CASE Register(t)
  BY <1>2, <1>3, RegisterMoves
<1>4. CASE Performs(t)
  BY <1>2, <1>4, PerformsMoves
<1> QED BY <1>1, <1>3, <1>4 DEF GoesOn

(* Goroutine t is going to perform the i-th operation on the latest        *)
(* version of r.                                                           *)
Ahead(t, r, i) == Holds(t, r) /\ (pc[t] = "register" \/ (pc[t] = "run" /\ work[t].at <= i))

LEMMA StillAhead ==
  ASSUME Inv, NEW t \in Threads, NEW r \in Requests, Holds(t, r), NEW i \in DOMAIN Plan(t),
         NEW k, NEW found, NEW l \in {"run", "finish"}, NEW j \in Nat \ {0}, NEW image,
         MovesTo(t, k, found, l, j, image), i >= k
  PROVE  /\ Ahead(t, r, i)' /\ l = "run"
         /\ j \in DOMAIN Plan(t) /\ image = ImageFor(Plan(t)[j])
<1>1. l = "run" /\ i >= j /\ j \in DOMAIN Plan(t) /\ image = ImageFor(Plan(t)[j])
  BY DEF MovesTo
<1>2. i \in Nat
  BY HeldPlan, PlanPositions DEF PlanFor
<1>3. j <= i
  BY <1>1, <1>2
<1> QED BY <1>1, <1>3, Moved DEF Ahead, Holds, InPlan, Planning

(* It stays so until the operation is performed. *)
PerformsAt(t, r, i) == Holds(t, r) /\ Performs(t) /\ pc[t] = "run" /\ work[t].at = i

LEMMA AheadSteps ==
  ASSUME Inv, [Next]_vars, NEW t \in Threads, NEW r \in Requests,
         NEW i \in DOMAIN PlanFor(r), Ahead(t, r, i), Quiet(r), ~Coming(r)'
  PROVE  \/ PerformsAt(t, r, i)
         \/ Ahead(t, r, i)' /\ (StaysPut(t) \/ work'[t].at # i
                                 \/ work'[t].image = ImageFor(PlanFor(r)[i]))
<1>1. /\ Holds(t, r) /\ Plan(t) = PlanFor(r) /\ i \in Nat \ {0}
      /\ work[t].at \in Nat \ {0} /\ work[t].copy \in Coroots
  BY HeldPlan, PlanPositions DEF Ahead, PlanFor
<1>2. CASE StaysPut(t)
  BY <1>2 DEF StaysPut, Ahead, Holds, InPlan
<1>6. ASSUME NEW k, NEW found, NEW l \in {"run", "finish"}, NEW j \in Nat \ {0}, NEW image,
             MovesTo(t, k, found, l, j, image), i >= k
      PROVE  /\ Ahead(t, r, i)'
             /\ work'[t].at # i \/ work'[t].image = ImageFor(PlanFor(r)[i])
  <2>1. i \in DOMAIN Plan(t)
    BY <1>1
  <2>2. Ahead(t, r, i)' /\ image = ImageFor(Plan(t)[j])
    BY <1>1, <1>6, <2>1, StillAhead
  <2>3. work'[t].at = j /\ work'[t].image = image
    BY <1>6, Moved
  <2> QED BY <1>1, <2>2, <2>3
<1>3. CASE Register(t)
  <2>1. PICK l \in {"run", "finish"}, j \in Nat \ {0}, image \in Images :
          MovesTo(t, 1, TRUE, l, j, image)
    BY <1>3, RegisterMoves
  <2>2. i >= 1
    BY <1>1
  <2> QED BY <1>6, <2>1, <2>2
<1>4. CASE Performs(t)
  <2>1. pc[t] = "run" /\ work[t].at <= i
    BY <1>4, PerformsMoves DEF Ahead
  <2>2. PICK found \in BOOLEAN, l \in {"run", "finish"}, j \in Nat \ {0}, image \in Images :
          MovesTo(t, work[t].at + 1, found, l, j, image)
    BY <1>4, PerformsMoves
  <2>3. CASE i >= work[t].at + 1
    BY <1>6, <2>2, <2>3
  <2>4. CASE work[t].at = i
    BY <1>1, <1>4, <2>1, <2>4 DEF PerformsAt
  <2> QED BY <1>1, <2>1, <2>3, <2>4
<1>5. CASE Finish(t)
  BY <1>5 DEF Finish, Ahead
<1> QED BY <1>1, <1>2, <1>3, <1>4, <1>5, HolderSteps DEF GoesOn

(* A request the worker takes: it holds the latest version.                *)
LEMMA WorkerTakes ==
  ASSUME Inv, NEW t \in Threads, NEW r \in Requests, Quiet(r), Begin(t, r)
  PROVE  /\ Holds(t, r)' /\ pc'[t] = "register"
         /\ \A i : Ahead(t, r, i)'
<1>1. crCache[r] # NoCR /\ r \notin crStale
  BY DEF Quiet, Inv, CopiesAgree
<1>2. pc'[t] = "register" /\ work'[t].request = r /\ work'[t].current
  BY <1>1 DEF Begin, Branch, NoWork, Inv, Typed, ThreadsTyped
<1> QED BY <1>2 DEF Ahead, Holds, InPlan, Planning

-----------------------------------------------------------------------------
(* A goroutine that has missed a Secret validates no more.                 *)
Checked ==
  \A t \in Threads : pc[t] \in Planning /\ ~work[t].found =>
    /\ pc[t] # "register"
    /\ pc[t] = "run" =>
         \A j \in DOMAIN Plan(t) : j >= work[t].at => Plan(t)[j].verb # "validate"

LEMMA PlanValidatesThird ==
  ASSUME NEW r \in Requests, NEW s \in Specs
  PROVE  ValidatesThird(PlanOf[r][s])
<1>1. IsSpec(Validated(s))
  BY SpecsAssumption, ValidatedIsSpec
<1>2. ValidatesThird(Reconcile(r, Validated(s)))
  BY <1>1, RequestsAreRequests, PlanOrder
<1> QED BY <1>2, PlanPositions DEF ValidatesThird

LEMMA PlanUnmoved ==
  ASSUME NEW t \in Threads,
         work'[t].request = work[t].request, work'[t].copy = work[t].copy
  PROVE  Plan(t)' = Plan(t)
BY DEF Plan

LEMMA CheckedNext ==
  ASSUME Inv, Checked, [Next]_vars
  PROVE  Checked'
<1> SUFFICES ASSUME NEW t \in Threads, pc'[t] \in Planning, ~work'[t].found
             PROVE  /\ pc'[t] # "register"
                    /\ pc'[t] = "run" =>
                         \A j \in DOMAIN Plan(t)' :
                            j >= work'[t].at => Plan(t)'[j].verb # "validate"
  BY DEF Checked
<1>1. CASE StaysPut(t) \/ LosesCopy(t)
  <2>1. /\ pc'[t] = pc[t] /\ work'[t].request = work[t].request
        /\ work'[t].copy = work[t].copy /\ work'[t].at = work[t].at
        /\ work'[t].found = work[t].found
    BY <1>1 DEF StaysPut, LosesCopy, Inv, Typed, ThreadsTyped, Works
  <2> QED BY <2>1, PlanUnmoved DEF Checked
<1>2. ASSUME NEW r \in Requests, Begin(t, r) PROVE FALSE
  BY <1>2 DEF Begin, NoWork, Inv, Typed, ThreadsTyped
<1>3. CASE Register(t)
  <2>1. PICK l \in {"run", "finish"}, j \in Nat \ {0}, image \in Images :
          MovesTo(t, 1, TRUE, l, j, image)
    BY <1>3, RegisterMoves
  <2>2. work'[t].found = TRUE
    BY <2>1 DEF MovesTo, Inv, Typed, ThreadsTyped, Works
  <2> QED BY <2>2
<1>4. CASE Performs(t)
  <2> DEFINE at == work[t].at
  <2>1. PICK found \in BOOLEAN, l \in {"run", "finish"}, j \in Nat \ {0}, image \in Images :
          /\ MovesTo(t, at + 1, found, l, j, image)
          /\ found = work[t].found \/ Plan(t)[at].verb = "validate"
    BY <1>4, PerformsMoves
  <2>2. /\ pc[t] = "run" /\ at \in Nat /\ Plan(t) = PlanOf[work[t].request][work[t].copy.spec]
        /\ work[t].request \in Requests /\ work[t].copy.spec \in Specs
        /\ at \in DOMAIN Plan(t)
    BY <1>4, PerformsMoves, AtOp DEF Inv, Typed, ThreadsTyped, Works
  <2>3. pc'[t] = l /\ Plan(t)' = Plan(t) /\ work'[t].at = j /\ ~found
    BY <2>1, Moved, PlanUnmoved
  <2>4. ASSUME NEW k \in DOMAIN Plan(t), k >= j PROVE Plan(t)[k].verb # "validate"
    <3>1. k \in Nat /\ k >= at + 1
      <4>1. k \in Nat
        BY <2>2, PlanPositions
      <4>2. j \in Nat /\ j >= at + 1
        BY <2>1 DEF MovesTo
      <4> QED BY <2>2, <2>4, <4>1, <4>2
    <3>2. CASE ~work[t].found
      BY <2>2, <3>1, <3>2 DEF Checked, Planning
    <3>3. CASE Plan(t)[at].verb = "validate"
      BY <2>2, <3>1, <3>3, PlanValidatesThird DEF ValidatesThird
    <3> QED BY <2>1, <2>3, <3>2, <3>3
  <2> QED BY <2>3, <2>4
<1>5. CASE Finish(t) \/ Elsewhere(t) \/ Restart
  BY <1>5, RestTyped DEF Finish, Elsewhere, Restart, Planning, Inv, Typed, ThreadsTyped
<1> QED BY <1>1, <1>2, <1>3, <1>4, <1>5, ThreadSteps DEF Steps

(* The worker is going to ask for another try.                             *)
Retrying(r) ==
  /\ Holds("worker", r)
  /\ ~cr[r].spec.agentsOnly /\ Misconfigured(cr[r].spec, work["worker"].found)

LEMMA WorkerIsThread == "worker" \in Threads /\ "ticker" \in Threads
BY DEF Threads

LEMMA RetryingSteps ==
  ASSUME Inv, Checked, [Next]_vars, NEW r \in Requests, Retrying(r), Quiet(r), ~Coming(r)'
  PROVE  Retrying(r)'
<1> DEFINE w == work["worker"]
<1>1. Holds("worker", r) /\ w.request = r /\ w.copy = cr[r]
  BY HeldPlan, WorkerIsThread DEF Retrying
<1>2. ~Finish("worker")
  <2>1. ASSUME Finish("worker") PROVE r \in delayed'
    BY <1>1, <2>1 DEF Finish, Retry, Retrying
  <2> QED BY <2>1 DEF Coming
<1>3. Holds("worker", r)' /\ GoesOn("worker") /\ cr'[r] = cr[r]
  BY <1>1, <1>2, HolderSteps, GoesOnHolding, WorkerIsThread DEF Quiet
<1>4. CASE StaysPut("worker")
  BY <1>3, <1>4 DEF StaysPut, Retrying
<1>5. CASE InvalidReplicas(cr[r].spec)
  BY <1>3, <1>5 DEF Retrying, Misconfigured
<1>6. CASE ~w.found /\ Performs("worker")
  <2>1. PICK found \in BOOLEAN, l \in {"run", "finish"}, j \in Nat \ {0}, image \in Images :
          /\ MovesTo("worker", w.at + 1, found, l, j, image)
          /\ found = w.found \/ Plan("worker")[w.at].verb = "validate"
    BY <1>6, PerformsMoves, WorkerIsThread
  <2>2. pc["worker"] = "run" /\ w.at \in DOMAIN Plan("worker") /\ w.at \in Nat
    BY <1>6, PerformsMoves, AtOp, WorkerIsThread DEF Inv, Typed, ThreadsTyped, Works
  <2>3. Plan("worker")[w.at].verb # "validate"
    BY <1>6, <2>2, WorkerIsThread DEF Checked, Planning
  <2>4. ~work'["worker"].found
    BY <1>6, <2>1, <2>3, Moved, WorkerIsThread
  <2> QED BY <1>3, <2>4, <1>6 DEF Retrying, Misconfigured
<1>7. CASE ~w.found /\ Register("worker")
  BY <1>7, WorkerIsThread DEF Checked, Register, Planning
<1> QED BY <1>3, <1>4, <1>5, <1>6, <1>7 DEF GoesOn, Retrying, Misconfigured

-----------------------------------------------------------------------------
(* Someone will see to the i-th operation of r's plan: the worker, now or  *)
(* when a request, the event of the object or its own retry has come.      *)
Attended(r, i) ==
  \/ Coming(r) \/ r \in wake[PlanFor(r)[i].object]
  \/ Retrying(r) \/ Ahead("worker", r, i)

LEMMA AttendedSteps ==
  ASSUME Inv, Checked, [Next]_vars, NEW r \in Requests, NEW i \in DOMAIN PlanFor(r),
         PlanFor(r)[i].object \in Objects, Quiet(r),
         Attended(r, i), ~Attended(r, i)'
  PROVE  /\ PerformsAt("worker", r, i)
         /\ r \notin wake'[PlanFor(r)[i].object]
<1> DEFINE o == PlanFor(r)[i].object
<1>1. PlanFor(r)' = PlanFor(r)
  BY DEF PlanFor, Quiet
<1>2. ~Coming(r)' /\ r \notin wake'[o] /\ ~Retrying(r)' /\ ~Ahead("worker", r, i)'
  BY <1>1 DEF Attended
<1>3. CASE Coming(r)
  <2>1. Begin("worker", r)
    BY <1>3 DEF Coming, Quiet
  <2> QED BY <1>2, <2>1, WorkerTakes, WorkerIsThread
<1>4. CASE r \in wake[o]
  BY <1>2, <1>4, ObjectSteps DEF Moves, Coming, Quiet
<1>5. CASE Retrying(r)
  BY <1>2, <1>5, RetryingSteps
<1>6. CASE Ahead("worker", r, i)
  BY <1>2, <1>6, AheadSteps, WorkerIsThread
<1> QED BY <1>2, <1>3, <1>4, <1>5, <1>6 DEF Attended

(* A resource whose status is not the verdict that all is well, while it   *)
(* may be, or although it is not.                                          *)
NeedsVerdict(r) ==
  /\ cr[r] # NoCR /\ ~cr[r].spec.agentsOnly
  /\ cr[r].status # "OK" \/ InvalidReplicas(cr[r].spec)

VerdictsCome ==
  Clean => \A r \in Requests : NeedsVerdict(r) => Coming(r) \/ Holds("worker", r)

LEMMA VerdictsComeNext ==
  ASSUME Inv, VerdictsCome, [Next]_vars
  PROVE  VerdictsCome'
<1> SUFFICES ASSUME Clean', NEW r \in Requests, NeedsVerdict(r)', ~Coming(r)'
             PROVE  Holds("worker", r)'
  BY DEF VerdictsCome
<1> DEFINE w == work["worker"]
<1>1. Quiet(r) /\ cr'[r] = cr[r]
  BY QueueSteps DEF NeedsVerdict, Quiet
<1>2. NeedsVerdict(r) /\ Clean
  BY <1>1, CleanBefore DEF NeedsVerdict, Inv, Typed
<1>3. CASE Coming(r)
  <2>1. Begin("worker", r)
    BY <1>1, <1>3 DEF Coming, Quiet
  <2> QED BY <1>1, <2>1, WorkerTakes, WorkerIsThread
<1>4. CASE Holds("worker", r)
  <2>1. w.request = r /\ w.copy = cr[r] /\ w.current
    BY <1>4, HeldPlan, WorkerIsThread DEF Holds
  <2>2. ~Finish("worker")
    <3> SUFFICES ASSUME Finish("worker") PROVE FALSE
      OBVIOUS
    <3>1. ~Misconfigured(cr[r].spec, w.found)
      BY <1>2, <2>1 DEF Finish, Retry, Coming, NeedsVerdict
    <3>2. StatusAfter(w) = "OK" /\ cr[r].status # "OK"
      BY <1>2, <2>1, <3>1 DEF StatusAfter, NeedsVerdict, Misconfigured
    <3>3. ~Occurs("failures")
      BY NoFailure DEF Inv, Typed
    <3>4. PutCR(r, [cr[r] EXCEPT !.status = StatusAfter(w)])
      BY <2>1, <3>2, <3>3 DEF Finish, StatusAccepted
    <3> QED BY <3>4 DEF PutCR, Coming
  <2> QED BY <1>1, <1>4, <2>2, HolderSteps, GoesOnHolding, WorkerIsThread
<1> QED BY <1>2, <1>3, <1>4 DEF VerdictsCome

LEMMA InitQuiet ==
  ASSUME Init, NEW r \in Requests, cr[r] # NoCR
  PROVE  Coming(r)
BY DEF Init, Coming

LEMMA VerdictsHold == Spec => [](Inv /\ VerdictsCome)
<1>1. Init => VerdictsCome
  BY InitQuiet DEF VerdictsCome, NeedsVerdict
<1>2. Inv /\ VerdictsCome /\ [Next]_vars => VerdictsCome'
  BY VerdictsComeNext
<1> QED BY <1>1, <1>2, InvHolds, PTL DEF Spec

(* As long as no call fails, a resource reported as Misconfigured is       *)
(* queued, waits for its retry or is being reconciled, whichever goroutine *)
(* has reported it: the requeue that Reconcile asks for is dropped when    *)
(* the ticker has called it, and the event of the status update stands in. *)
THEOREM MisconfiguredAreRetried == Spec => []((count["failures"] = 0) => MisconfiguredIsRetried)
<1>1. Inv /\ VerdictsCome => ((count["failures"] = 0) => MisconfiguredIsRetried)
  BY WorkerIsThread DEF VerdictsCome, Clean, MisconfiguredIsRetried, NeedsVerdict, Coming, Holds, InPlan
<1> QED BY <1>1, VerdictsHold, PTL

(* As long as no call fails, a resource for which nothing is under way     *)
(* says that it is well-configured, and its replicas are: with other       *)
(* verdicts it is never left alone.                                        *)
THEOREM SettledStatuses == Spec => []((count["failures"] = 0) => SettledStatus)
<1>1. ASSUME VerdictsCome, Clean, NEW r \in Requests, Settled(r), ~cr[r].spec.agentsOnly
      PROVE  cr[r].status = "OK" /\ ~InvalidReplicas(cr[r].spec)
  BY <1>1, WorkerIsThread DEF VerdictsCome, NeedsVerdict, Settled, Coming, Holds, InPlan
<1>2. Inv /\ VerdictsCome => ((count["failures"] = 0) => SettledStatus)
  BY <1>1 DEF SettledStatus, Clean
<1> QED BY <1>2, VerdictsHold, PTL

-----------------------------------------------------------------------------
(* What the invariants about objects rest on.                              *)
Basis == Inv /\ Checked /\ ObjectsOwned /\ ChangesAnnounced

LEMMA BasisHolds == Spec => []Basis
<1>1. Init => Basis
  BY InitInv, OwnedInit DEF Basis, Checked, ChangesAnnounced, Init, Planning
<1>2. Basis /\ [Next]_vars => Basis'
  BY NextInv, CheckedNext, OwnedNext, AnnouncedNext DEF Basis
<1> QED BY <1>1, <1>2, PTL DEF Spec

LEMMA PlanForFacts ==
  ASSUME Inv, NEW r \in Requests, cr[r] # NoCR, NEW i \in DOMAIN PlanFor(r)
  PROVE  LET op == PlanFor(r)[i]
         IN  /\ cr[r] \in Coroots /\ cr[r].spec \in Specs
             /\ i \in Nat \ {0}
             /\ op \in Ops /\ Proper(r, op)
             /\ cr[r].spec.agentsOnly => op.reads \subseteq AgentFields
             /\ op.verb # "validate" => op.object \in Objects
<1> DEFINE op == PlanFor(r)[i]
<1>1. cr[r] \in Coroots
  BY DEF Inv, Typed, ClusterTyped
<1>2. cr[r].spec \in Specs /\ op = PlanOf[r][cr[r].spec][i] /\ i \in DOMAIN PlanOf[r][cr[r].spec]
  BY <1>1 DEF Coroots, PlanFor
<1>3. op \in Ops /\ Proper(r, op) /\ i \in Nat \ {0}
      /\ (cr[r].spec.agentsOnly => op.reads \subseteq AgentFields)
  BY <1>2, OpFacts, OpKnown, PlanPositions
<1>4. op.verb # "validate" => op.object \in Objects
  BY <1>3 DEF Objects
<1> QED BY <1>1, <1>2, <1>3, <1>4

(* The performance of an operation on the latest version, if the cache is. *)
LEMMA WriteDone ==
  ASSUME Inv, Clean', NEW t \in Threads, NEW r \in Requests, NEW i \in DOMAIN PlanFor(r),
         PerformsAt(t, r, i), PlanFor(r)[i].verb \in {"apply", "ensure"},
         PlanFor(r)[i].object \notin stale, PlanFor(r)[i].object \in Objects
  PROVE  Writes(t, PlanFor(r)[i].object)
<1> DEFINE op == Plan(t)[work[t].at]
           new == ContentAfter(objs[op.object], op, work[t])
<1>1. op = PlanFor(r)[i]
  BY HeldPlan DEF PerformsAt
<1>2. CreateOrUpdate(t)
  BY <1>1 DEF PerformsAt, Performs, DeletePlanned, SetDeploymentDeleted, Validate, Runs
<1>3. ~Occurs("failures") /\ objs \in [Objects -> Contents \cup {Absent}]
  BY NoFailure DEF Inv, Typed, ClusterTyped
<1>4. Write(op.object, new)
  BY <1>1, <1>2, <1>3 DEF CreateOrUpdate
<1> HIDE DEF new, op
<1>5. objs'[op.object] = new
  BY <1>1, <1>3, <1>4 DEF Write, Put
<1> QED BY <1>1, <1>2, <1>5 DEF Writes, new, op

LEMMA DeleteDone ==
  ASSUME Inv, Clean', NEW t \in Threads, NEW r \in Requests, NEW i \in DOMAIN PlanFor(r),
         PerformsAt(t, r, i), PlanFor(r)[i].object \in Objects,
         \/ PlanFor(r)[i].verb = "delete"
         \/ PlanFor(r)[i].verb = "legacy" /\ ~deploymentDeleted
  PROVE  objs'[PlanFor(r)[i].object] = Absent
<1> DEFINE op == Plan(t)[work[t].at]
<1>1. op = PlanFor(r)[i]
  BY HeldPlan DEF PerformsAt
<1>2. DeletePlanned(t)
  BY <1>1 DEF PerformsAt, Performs, CreateOrUpdate, SetDeploymentDeleted, Validate, Runs
<1>3. ~Occurs("failures") /\ objs \in [Objects -> Contents \cup {Absent}]
  BY NoFailure DEF Inv, Typed, ClusterTyped
<1>4. TryDelete(op.object)
  BY <1>1, <1>2 DEF DeletePlanned
<1> HIDE DEF op
<1> QED BY <1>1, <1>3, <1>4 DEF TryDelete, Delete, Write, Put

(* A change of an object that has a controller afterwards, or always has   *)
(* one, is heard of by the resource it belongs to.                         *)
LEMMA ChangeIsHeard ==
  ASSUME ObjectsOwned, ObjectsOwned', NEW o \in Objects, Differs(o), o.kind \in WatchedKinds,
         \/ IsWatched(o)
         \/ objs'[o] # Absent /\ objs'[o].owner # NoOwner
  PROVE  HolderOf(o) \in wake'[o]
<1>1. OwnersOf(objs[o]) \cup OwnersOf(objs'[o]) \subseteq wake'[o] /\ objs'[o] # objs[o]
  BY DEF Differs
<1>2. CASE objs'[o] # Absent
  BY <1>1, <1>2 DEF ObjectsOwned, OwnersOf
<1>3. CASE objs'[o] = Absent
  BY <1>1, <1>3 DEF ObjectsOwned, OwnersOf
<1> QED BY <1>2, <1>3

(* An object that r retains and that has a controller nevertheless.        *)
IsHeld(r, i) ==
  LET o == PlanFor(r)[i].object
  IN  PlanFor(r)[i].retain /\ objs[o] # Absent /\ objs[o].owner # NoOwner

ControllersGo ==
  Clean => \A r \in Requests : cr[r] # NoCR =>
             \A i \in DOMAIN PlanFor(r) : IsHeld(r, i) => Attended(r, i)

LEMMA ControllersGoNext ==
  ASSUME Basis, Basis', ControllersGo, [Next]_vars
  PROVE  ControllersGo'
<1> SUFFICES ASSUME Clean', NEW r \in Requests, cr'[r] # NoCR, NEW i \in DOMAIN PlanFor(r)',
                    IsHeld(r, i)', ~Attended(r, i)'
             PROVE  FALSE
  BY DEF ControllersGo
<1> USE DEF Basis
<1>1. Quiet(r) /\ cr[r] # NoCR /\ cr'[r] = cr[r] /\ PlanFor(r)' = PlanFor(r)
  BY QueueSteps DEF Attended, Quiet, PlanFor
<1>2. Clean
  BY CleanBefore DEF Inv, Typed
<1> DEFINE op == PlanFor(r)[i]
           o == op.object
<1>3. /\ i \in DOMAIN PlanFor(r) /\ op.retain
      /\ objs'[o] # Absent /\ objs'[o].owner # NoOwner
  BY <1>1 DEF IsHeld
<1>4. /\ op \in Ops /\ Proper(r, op) /\ o \in Objects /\ o.kind \in WatchedKinds
      /\ op.verb \in {"apply", "ensure"}
  BY <1>1, <1>3, PlanForFacts DEF Proper, WatchedKinds
<1>5. r \notin wake'[o]
  BY <1>1 DEF Attended
<1>6. HolderOf(o) = r
  BY <1>3, <1>4 DEF Proper, ObjectsOwned
<1> HIDE DEF op, o
<1>7. Same(o)
  BY <1>3, <1>4, <1>5, <1>6, ChangeIsHeard, ObjectSteps DEF Moves
<1>8. IsHeld(r, i)
  BY <1>1, <1>3, <1>7 DEF IsHeld, Same, op, o
<1>9. PerformsAt("worker", r, i)
  BY <1>1, <1>2, <1>3, <1>4, <1>8, AttendedSteps DEF ControllersGo, op, o
<1>10. o \notin stale
  <2>1. r \notin wake[o]
    BY <1>1, <1>4, <1>5, ObjectSteps DEF Moves, Attended, Coming, Quiet
  <2> QED BY <1>3, <1>4, <1>6, <1>7, <2>1 DEF Same, ChangesAnnounced, ObjectsOwned, OwnersOf
<1>11. Writes("worker", o) /\ op = Plan("worker")[work["worker"].at]
       /\ work["worker"].request = r
  BY <1>3, <1>4, <1>9, <1>10, WriteDone, HeldPlan, WorkerIsThread DEF op, o, PerformsAt
<1>12. objs'[o].owner = OwnerAfter(objs[o], op, work["worker"])
  BY <1>4, <1>11, WrittenTyped, WorkerIsThread
<1>13. OwnerAfter(objs[o], op, work["worker"]) = NoOwner
  BY <1>3, <1>4, <1>6, <1>7, <1>11 DEF OwnerAfter, Same, ObjectsOwned
<1> QED BY <1>3, <1>12, <1>13

LEMMA ControllersHold == Spec => [](Basis /\ ControllersGo)
<1>1. Init => ControllersGo
  BY InitQuiet DEF ControllersGo, Attended
<1>2. Basis /\ Basis' /\ ControllersGo /\ [Next]_vars => ControllersGo'
  BY ControllersGoNext
<1> QED BY <1>1, <1>2, BasisHolds, PTL DEF Spec

(* As long as no call fails, no volume claim whose policy is Retain and no *)
(* other object that is retained has the resource as its controller once   *)
(* nothing is under way: it would be collected with the resource.          *)
THEOREM SettledClaimsAreRetained == Spec => []((count["failures"] = 0) => SettledMeansRetained)
<1>1. ASSUME Basis, ControllersGo, Clean, NEW r \in Requests, Settled(r), NEW op \in OpsOf(r),
             op.retain, objs[op.object] # Absent
      PROVE  objs[op.object].owner = NoOwner
  <2>1. PICK i \in DOMAIN PlanFor(r) : op = PlanFor(r)[i]
    BY <1>1 DEF OpsOf, PlanFor
  <2>2. cr[r] # NoCR /\ op.object \in Objects
    BY <1>1, <2>1, PlanForFacts DEF Basis, Settled, Proper
  <2>3. ~Attended(r, i)
    BY <1>1, <2>1, <2>2, WorkerIsThread
    DEF Attended, Settled, Coming, Retrying, Ahead, Holds, InPlan
  <2> QED BY <1>1, <2>1, <2>2, <2>3 DEF ControllersGo, IsHeld
<1>2. Basis /\ ControllersGo => ((count["failures"] = 0) => SettledMeansRetained)
  BY <1>1 DEF SettledMeansRetained, Clean
<1> QED BY <1>2, ControllersHold, PTL

-----------------------------------------------------------------------------
(* What an object would be if the user's Secret were there, but for its    *)
(* image.                                                                  *)
Mine(r) == [request |-> r, uid |-> cr[r].uid]

IsRight(r, i) ==
  LET op      == PlanFor(r)[i]
      content == objs[op.object]
  IN  /\ op.verb = "apply" =>
           /\ content # Absent /\ content.owner = Mine(r)
           /\ content.value = ValueOf(r, op, Resolved(cr[r].spec, TRUE))
      /\ op.verb = "ensure" => content # Absent /\ content.owner = Mine(r)
      /\ op.verb = "delete" => content = Absent

(* Who has not found the Secret writes the same content if it does not     *)
(* depend on the Secret.                                                   *)
LEMMA SameValue ==
  ASSUME NEW spec, IsSpec(spec), NEW found \in BOOLEAN, NEW r, NEW op,
         found \/ ~spec.readsSecret \/ op.reads \subseteq AgentFields
  PROVE  ValueOf(r, op, Resolved(spec, found)) = ValueOf(r, op, Resolved(spec, TRUE))
<1> DEFINE v == Validated(spec)
           a == Resolved(spec, found)
           b == Resolved(spec, TRUE)
<1>1. v.readsSecret = spec.readsSecret /\ spec.readsSecret \in BOOLEAN
      /\ v = [f \in SpecFields |-> v[f]]
  BY ValidatedIsSpec DEF IsSpec, SpecFields
<1>2. a = [v EXCEPT !.readsSecret = @ /\ found] /\ b = [v EXCEPT !.readsSecret = @ /\ TRUE]
  BY DEF Resolved
<1> HIDE DEF v, a, b
<1>3. CASE found \/ ~spec.readsSecret
  <2>1. (v.readsSecret /\ found) = (v.readsSecret /\ TRUE)
    BY <1>1, <1>3
  <2>2. a = b
    BY <1>2, <2>1
  <2> QED BY <2>2 DEF a, b
<1>4. CASE op.reads \subseteq AgentFields
  <2>1. \A f \in {"settings", "agentsOnly"} : a[f] = b[f]
    BY <1>1, <1>2 DEF SpecFields
  <2>2. \A f \in op.reads : f # "namespace" => a[f] = b[f]
    BY <1>4, <2>1 DEF AgentFields
  <2> QED BY <2>2 DEF ValueOf, a, b
<1> QED BY <1>3, <1>4

ContentsCome ==
  Clean => \A r \in Requests : cr[r] # NoCR =>
             \A i \in DOMAIN PlanFor(r) :
               IsWatched(PlanFor(r)[i].object) /\ ~IsRight(r, i) => Attended(r, i)

LEMMA AppliedContent ==
  ASSUME NEW old, NEW op, NEW w, op.verb = "apply"
  PROVE  LET content == ContentAfter(old, op, w)
         IN  /\ content.value = ValueOf(w.request, op, Resolved(w.copy.spec, w.found))
             /\ content.image = w.image
BY DEF ContentAfter

LEMMA WatchedFacts ==
  ASSUME Inv, NEW r \in Requests, cr[r] # NoCR, NEW i \in DOMAIN PlanFor(r),
         IsWatched(PlanFor(r)[i].object)
  PROVE  LET op == PlanFor(r)[i]
         IN  /\ op \in Ops /\ ~op.retain /\ op.object.kind \in WatchedKinds
             /\ HolderOf(op.object) = r /\ ~Shared(op.object)
BY PlanForFacts DEF IsWatched, Proper

LEMMA ContentsComeNext ==
  ASSUME Basis, Basis', ContentsCome, [Next]_vars
  PROVE  ContentsCome'
<1> SUFFICES ASSUME Clean', NEW r \in Requests, cr'[r] # NoCR, NEW i \in DOMAIN PlanFor(r)',
                    IsWatched(PlanFor(r)'[i].object), ~IsRight(r, i)', ~Attended(r, i)'
             PROVE  FALSE
  BY DEF ContentsCome, IsWatched
<1> USE DEF Basis
<1>1. Quiet(r) /\ cr[r] # NoCR /\ cr'[r] = cr[r] /\ PlanFor(r)' = PlanFor(r)
  BY QueueSteps DEF Attended, Quiet, PlanFor
<1>2. Clean
  BY CleanBefore DEF Inv, Typed
<1> DEFINE op == PlanFor(r)[i]
           o == op.object
           w == work["worker"]
<1>3. i \in DOMAIN PlanFor(r) /\ IsWatched(o)
      /\ op.verb \in {"apply", "ensure", "delete"}
  BY <1>1 DEF IsRight
<1>4. /\ op \in Ops /\ ~op.retain /\ o.kind \in WatchedKinds /\ HolderOf(o) = r /\ o \in Objects
  BY <1>1, <1>3, WatchedFacts, PlanForFacts
<1>5. r \notin wake'[o] /\ r \notin wake[o]
  <2>1. r \notin wake'[o] /\ ~Coming(r)'
    BY <1>1 DEF Attended
  <2> QED BY <1>1, <1>4, <2>1, ObjectSteps DEF Moves, Coming, Quiet
<1>6. objs'[o] = objs[o] /\ o \notin stale
  <2> HIDE DEF op, o
  <2>1. Same(o)
    BY <1>3, <1>4, <1>5, ChangeIsHeard, ObjectSteps DEF Moves
  <2> QED BY <1>3, <1>4, <1>5, <2>1 DEF Same, ChangesAnnounced
<1>7. ~IsRight(r, i)
  BY <1>1, <1>6 DEF IsRight, Mine
<1>8. PerformsAt("worker", r, i)
  BY <1>1, <1>2, <1>3, <1>4, <1>7, AttendedSteps DEF ContentsCome
<1>9. op.verb # "delete"
  BY <1>1, <1>3, <1>4, <1>7, <1>8, <1>6, DeleteDone, WorkerIsThread DEF IsRight
<1>10. /\ Writes("worker", o) /\ op = Plan("worker")[w.at]
       /\ w.request = r /\ w.copy = cr[r] /\ w.found \in BOOLEAN
  BY <1>3, <1>4, <1>6, <1>8, <1>9, WriteDone, HeldPlan, WorkerIsThread DEF PerformsAt
<1>11. /\ objs'[o] # Absent /\ objs'[o].owner = OwnerAfter(objs[o], op, w)
       /\ objs'[o] = ContentAfter(objs[o], op, w)
  BY <1>4, <1>10, WrittenTyped, WorkerIsThread DEF Writes
<1>12. OwnerAfter(objs[o], op, w) = Mine(r)
  BY <1>3, <1>4, <1>10 DEF OwnerAfter, ObjectsOwned, Mine
<1>13. op.verb = "apply"
  BY <1>3, <1>6, <1>7, <1>9, <1>11, <1>12 DEF IsRight
<1>14. objs'[o].value = ValueOf(r, op, Resolved(cr[r].spec, w.found))
  <2> HIDE DEF op, w, o
  <2>1. ContentAfter(objs[o], op, w).value = ValueOf(w.request, op, Resolved(w.copy.spec, w.found))
    BY <1>13, AppliedContent
  <2> QED BY <1>10, <1>11, <2>1
<1>15. ~Retrying(r)
  BY <1>1, <1>8, RetryingSteps DEF Attended
<1>16. w.found \/ ~cr[r].spec.readsSecret \/ op.reads \subseteq AgentFields
  <2>1. cr[r].spec.agentsOnly => op.reads \subseteq AgentFields
    BY <1>1, <1>3, PlanForFacts
  <2> QED BY <1>8, <1>15, <2>1 DEF Retrying, PerformsAt, Misconfigured
<1>17. objs'[o].value = ValueOf(r, op, Resolved(cr[r].spec, TRUE))
  <2>1. IsSpec(cr[r].spec)
    BY <1>1, <1>3, PlanForFacts, SpecsAssumption
  <2> HIDE DEF op, w, o
  <2>2. ValueOf(r, op, Resolved(cr[r].spec, w.found)) = ValueOf(r, op, Resolved(cr[r].spec, TRUE))
    BY <1>10, <1>16, <2>1, SameValue
  <2> QED BY <1>14, <2>2
<1> QED BY <1>6, <1>7, <1>11, <1>12, <1>13, <1>17 DEF IsRight

-----------------------------------------------------------------------------
(* What a step does to the memory of the process.                          *)
Remembers(r) ==
  /\ versions' = versions \/ Tick
  /\ r \in instances' => r \in instances \/ \E t \in Threads : Register(t) /\ work[t].request = r
  /\ r \in instances => r \in instances' \/ \E t \in Threads : Unregister(t) /\ work[t].request = r
  /\ r \in toVisit => r \in toVisit' \/ Begin("ticker", r) \/ TakeInstances
  /\ pc["ticker"] = "snapshot" => pc'["ticker"] = "snapshot" \/ TakeInstances

LEMMA MemorySteps ==
  ASSUME Inv, [Next]_vars, Clean', ~Restart, NEW r
  PROVE  Remembers(r)
<1>1. CASE UNCHANGED <<memoryVars, pc>>
  BY <1>1 DEF Remembers, memoryVars
<1>2. CASE UNCHANGED memoryVars /\ \E t \in Threads : \E l : pc[t] # "snapshot" /\ pc' = [pc EXCEPT ![t] = l]
  BY <1>2 DEF Remembers, memoryVars, Inv, Typed, ThreadsTyped
<1>3. CASE User
  BY <1>1, <1>3 DEF User, DeleteCR, CreateCR, EditCR, ToggleSecret, NewRelease, DeleteObject,
     threadVars
<1>4. CASE Kubernetes
  BY <1>1, <1>4 DEF Kubernetes, Collect, SyncCR, SyncObject, SyncSecret, DelayOver, threadVars
<1>5. ASSUME NEW t \in Threads, NEW q \in Requests, Begin(t, q) PROVE Remembers(r)
  <2>1. pc[t] # "snapshot" /\ pc' = [pc EXCEPT ![t] = Branch(q)]
    BY <1>5 DEF Begin, TakeRequest
  <2>2. UNCHANGED <<versions, instances>>
    BY <1>5 DEF Begin
  <2>3. r \in toVisit => r \in toVisit' \/ Begin("ticker", r)
    BY <1>5 DEF Begin, TakeRequest
  <2> QED BY <2>1, <2>2, <2>3 DEF Remembers, Inv, Typed, ThreadsTyped
<1>6. ASSUME NEW t \in Threads, NEW q \in Requests, BeginFails(t, q) PROVE FALSE
  BY <1>6, NoFailure DEF BeginFails, Inv, Typed
<1>7. ASSUME NEW t \in Threads, Acquire(t) PROVE Remembers(r)
  <2>1. CASE Register(t)
    <3>1. pc[t] = "register" /\ instances' = instances \cup {work[t].request}
          /\ UNCHANGED <<versions, toVisit>>
      BY <2>1 DEF Register
    <3>2. \E l : pc' = [pc EXCEPT ![t] = l]
      BY <2>1 DEF Register, GoTo
    <3>3. pc["ticker"] = "snapshot" => pc'["ticker"] = "snapshot"
      BY <3>1, <3>2 DEF Inv, Typed, ThreadsTyped
    <3> QED BY <2>1, <3>1, <3>3 DEF Remembers
  <2>2. CASE Unregister(t)
    <3>1. /\ pc[t] = "unregister" /\ instances' = instances \ {work[t].request}
          /\ UNCHANGED <<versions, toVisit>>
      BY <2>2 DEF Unregister
    <3>2. \E l : pc' = [pc EXCEPT ![t] = l]
      BY <2>2 DEF Unregister, Return
    <3>3. pc["ticker"] = "snapshot" => pc'["ticker"] = "snapshot"
      BY <3>1, <3>2 DEF Inv, Typed, ThreadsTyped
    <3> QED BY <2>2, <3>1, <3>3 DEF Remembers
  <2>3. CASE TakeInstances
    <3>1. UNCHANGED <<instances, versions>>
      BY <2>3 DEF TakeInstances
    <3> QED BY <2>3, <3>1 DEF Remembers
  <2> QED BY <1>7, <2>1, <2>2, <2>3 DEF Acquire
<1>8. ASSUME NEW t \in Threads, Performs(t) PROVE Remembers(r)
  <2>1. pc[t] = "run" /\ UNCHANGED <<versions, instances, toVisit>>
    BY <1>8 DEF Performs, CreateOrUpdate, DeletePlanned, SetDeploymentDeleted, Validate, Runs,
       memoryVars
  <2>2. \E l : pc' = [pc EXCEPT ![t] = l]
    BY <1>8 DEF Performs, CreateOrUpdate, DeletePlanned, SetDeploymentDeleted, Validate, Advance, GoTo
  <2> QED BY <2>1, <2>2 DEF Remembers, Inv, Typed, ThreadsTyped
<1>9. ASSUME NEW t \in Threads, Proceed(t), ~Performs(t) PROVE Remembers(r)
  <2>1. CASE DeleteBinding(t) \/ Finish(t)
    BY <1>2, <2>1 DEF DeleteBinding, Finish
  <2>2. CASE DeleteRole(t)
    <3>1. /\ pc[t] = "deleteRole" /\ UNCHANGED <<versions, instances, toVisit>>
          /\ pc' = [pc EXCEPT ![t] = Rest(t)]
      BY <2>2 DEF DeleteRole, Return
    <3> QED BY <3>1 DEF Remembers, Inv, Typed, ThreadsTyped
  <2> QED BY <1>9, <2>1, <2>2 DEF Proceed, Performs
<1>10. CASE Tick
  BY <1>10 DEF Tick, Remembers
<1>11. CASE UNCHANGED vars
  BY <1>1, <1>11 DEF vars, threadVars
<1> QED
  BY <1>3, <1>4, <1>5, <1>6, <1>7, <1>8, <1>9, <1>10, <1>11
  DEF Next, Process, Proceed, Performs

(* The ticker has no more to visit when it rests. *)
Rested == pc["ticker"] \in {"idle", "snapshot"} => toVisit = {}

LEMMA RestedNext ==
  ASSUME Inv, Rested, [Next]_vars
  PROVE  Rested'
<1> USE DEF Rested
<1>1. CASE UNCHANGED <<toVisit, pc>>
  BY <1>1
<1>2. CASE UNCHANGED toVisit /\ pc' = [pc EXCEPT !["worker"] = pc'["worker"]]
  BY <1>2 DEF Inv, Typed, ThreadsTyped, Threads
<1>3. CASE UNCHANGED toVisit /\ pc' = [pc EXCEPT !["ticker"] = Rest("ticker")]
  BY <1>3, WorkerIsThread DEF Inv, Typed, ThreadsTyped, Rest
<1>4. CASE UNCHANGED toVisit /\ pc'["ticker"] \notin {"idle", "snapshot"}
  BY <1>4
<1>5. CASE User
  BY <1>1, <1>5 DEF User, DeleteCR, CreateCR, EditCR, ToggleSecret, NewRelease, DeleteObject,
     threadVars, memoryVars
<1>6. CASE Kubernetes
  BY <1>1, <1>6 DEF Kubernetes, Collect, SyncCR, SyncObject, SyncSecret, DelayOver, threadVars,
     memoryVars
<1>7. ASSUME NEW q \in Requests, Begin("ticker", q) \/ BeginFails("ticker", q) PROVE Rested'
  BY <1>7, WorkerIsThread DEF Begin, BeginFails, TakeRequest, Branch, Inv, Typed, ThreadsTyped
<1>8. ASSUME NEW q \in Requests, Begin("worker", q) \/ BeginFails("worker", q) PROVE Rested'
  BY <1>2, <1>8, WorkerIsThread DEF Begin, BeginFails, TakeRequest, Inv, Typed, ThreadsTyped
<1>9. CASE Register("ticker") \/ Performs("ticker")
  <2>1. UNCHANGED toVisit
    BY <1>9 DEF Performs, CreateOrUpdate, DeletePlanned, SetDeploymentDeleted, Validate, Register,
       memoryVars
  <2>2. pc'["ticker"] \in {"run", "finish"}
    BY <1>9, WorkerIsThread DEF Performs, CreateOrUpdate, DeletePlanned, SetDeploymentDeleted,
       Validate, Register, Advance, GoTo, Inv, Typed, ThreadsTyped
  <2> QED BY <1>4, <2>1, <2>2
<1>10. CASE Register("worker") \/ Performs("worker")
  <2>1. UNCHANGED toVisit
    BY <1>10 DEF Performs, CreateOrUpdate, DeletePlanned, SetDeploymentDeleted, Validate, Register,
       memoryVars
  <2>2. pc'["ticker"] = pc["ticker"]
    BY <1>10, WorkerIsThread DEF Performs, CreateOrUpdate, DeletePlanned, SetDeploymentDeleted,
       Validate, Register, Advance, GoTo, Inv, Typed, ThreadsTyped
  <2> QED BY <2>1, <2>2
<1>11. CASE Unregister("ticker") \/ DeleteBinding("ticker") \/ DeleteRole("ticker") \/ Finish("ticker")
  <2>1. UNCHANGED toVisit
    BY <1>11 DEF Unregister, DeleteBinding, DeleteRole, Finish, memoryVars
  <2>2. pc'["ticker"] \in {"deleteBinding", "deleteRole", Rest("ticker")}
    BY <1>11, WorkerIsThread DEF Unregister, DeleteBinding, DeleteRole, Finish, Return,
       Inv, Typed, ThreadsTyped
  <2> QED BY <2>1, <2>2 DEF Rest
<1>12. CASE Unregister("worker") \/ DeleteBinding("worker") \/ DeleteRole("worker") \/ Finish("worker")
  <2>1. UNCHANGED toVisit
    BY <1>12 DEF Unregister, DeleteBinding, DeleteRole, Finish, memoryVars
  <2>2. pc'["ticker"] = pc["ticker"]
    BY <1>12, WorkerIsThread DEF Unregister, DeleteBinding, DeleteRole, Finish, Return,
       Inv, Typed, ThreadsTyped
  <2> QED BY <2>1, <2>2
<1>13. CASE TakeInstances \/ Tick
  BY <1>13, WorkerIsThread DEF TakeInstances, Tick, Inv, Typed, ThreadsTyped
<1>14. CASE Restart \/ UNCHANGED vars
  BY <1>1, <1>14 DEF Restart, vars, threadVars, memoryVars
<1> QED
  BY <1>5, <1>6, <1>7, <1>8, <1>9, <1>10, <1>11, <1>12, <1>13, <1>14
  DEF Next, Process, Acquire, Proceed, Performs, Threads

(* The ticker writes the images of the versions fetched last.              *)
UpToDate ==
  Clean /\ pc["ticker"] = "run" =>
    work["ticker"].image = ImageFor(Plan("ticker")[work["ticker"].at])

LEMMA UpToDateNext ==
  ASSUME Inv, UpToDate, [Next]_vars
  PROVE  UpToDate'
<1> SUFFICES ASSUME Clean', pc'["ticker"] = "run"
             PROVE  work'["ticker"].image = ImageFor(Plan("ticker")[work["ticker"].at])'
  BY DEF UpToDate
<1> DEFINE w == work["ticker"]
<1>1. ~Restart /\ ~Tick
  BY WorkerIsThread DEF Restart, Tick, Inv, Typed, ThreadsTyped
<1>2. versions' = versions /\ Clean
  <2>1. Remembers("ticker")
    BY <1>1, MemorySteps
  <2> QED BY <1>1, <2>1, CleanBefore DEF Remembers, Inv, Typed
<1>3. CASE StaysPut("ticker") \/ LosesCopy("ticker")
  <2>1. /\ pc["ticker"] = "run" /\ work'["ticker"].request = w.request
        /\ work'["ticker"].copy = w.copy /\ work'["ticker"].at = w.at
        /\ work'["ticker"].image = w.image
    BY <1>3, WorkerIsThread DEF StaysPut, LosesCopy, Inv, Typed, ThreadsTyped, Works
  <2>2. Plan("ticker")' = Plan("ticker")
    BY <2>1, PlanUnmoved, WorkerIsThread
  <2> QED BY <1>2, <2>1, <2>2 DEF UpToDate, ImageFor
<1>4. ASSUME NEW q \in Requests, Begin("ticker", q) PROVE FALSE
  BY <1>4, WorkerIsThread DEF Begin, Branch, Inv, Typed, ThreadsTyped
<1>5. ASSUME NEW i, NEW found, NEW l \in {"run", "finish"}, NEW j, NEW image,
             MovesTo("ticker", i, found, l, j, image)
      PROVE  work'["ticker"].image = ImageFor(Plan("ticker")[work["ticker"].at])'
  <2>1. /\ pc'["ticker"] = l /\ work'["ticker"].at = j /\ work'["ticker"].image = image
        /\ work'["ticker"].request = w.request /\ work'["ticker"].copy = w.copy
    BY <1>5, Moved, WorkerIsThread
  <2>2. image = ImageFor(Plan("ticker")[j])
    BY <1>5, <2>1 DEF MovesTo
  <2>3. Plan("ticker")' = Plan("ticker")
    BY <2>1, PlanUnmoved, WorkerIsThread
  <2> QED BY <1>2, <2>1, <2>2, <2>3 DEF ImageFor
<1>6. CASE Register("ticker")
  BY <1>5, <1>6, RegisterMoves, WorkerIsThread
<1>7. CASE Performs("ticker")
  BY <1>5, <1>7, PerformsMoves, WorkerIsThread
<1>8. CASE Finish("ticker")
  BY <1>8, RestTyped, WorkerIsThread DEF Finish, Inv, Typed, ThreadsTyped
<1>9. CASE Elsewhere("ticker")
  BY <1>9 DEF Elsewhere, Planning
<1> QED BY <1>1, <1>3, <1>4, <1>6, <1>7, <1>8, <1>9, ThreadSteps, WorkerIsThread DEF Steps

(* The worker has an outdated copy only until the request comes anew.      *)
Overtaken ==
  Clean => \A r \in Requests :
             cr[r] # NoCR /\ InPlan("worker", r) /\ ~work["worker"].current => Coming(r)

LEMMA OvertakenNext ==
  ASSUME Inv, Overtaken, [Next]_vars
  PROVE  Overtaken'
<1> SUFFICES ASSUME Clean', NEW r \in Requests, cr'[r] # NoCR, InPlan("worker", r)',
                    ~work'["worker"].current, ~Coming(r)'
             PROVE  FALSE
  BY DEF Overtaken
<1> DEFINE w == work["worker"]
<1>1. Quiet(r) /\ cr[r] # NoCR
  BY QueueSteps DEF Quiet
<1>2. Clean
  BY CleanBefore DEF Inv, Typed
<1>3. ASSUME InPlan("worker", r), ~w.current PROVE FALSE
  <2>1. Begin("worker", r)
    BY <1>1, <1>2, <1>3 DEF Overtaken, Coming, Quiet
  <2> QED BY <1>3, <2>1 DEF Begin, TakeRequest, InPlan, Planning
<1>4. CASE StaysPut("worker")
  BY <1>3, <1>4 DEF StaysPut, InPlan
<1>5. CASE LosesCopy("worker")
  BY <1>5, WorkerIsThread DEF LosesCopy, InPlan, Coming, Inv, Typed, ThreadsTyped, Works
<1>6. ASSUME NEW q \in Requests, Begin("worker", q) PROVE FALSE
  <2>1. q = r
    BY <1>6, WorkerIsThread DEF Begin, InPlan, NoWork, Inv, Typed, ThreadsTyped
  <2> QED BY <1>1, <1>6, <2>1, WorkerTakes, WorkerIsThread DEF Holds
<1>7. ASSUME NEW i, NEW found, NEW l \in {"run", "finish"}, NEW j, NEW image,
             MovesTo("worker", i, found, l, j, image), pc["worker"] \in Planning
      PROVE  FALSE
  BY <1>3, <1>7, Moved, WorkerIsThread DEF InPlan
<1>8. CASE Register("worker")
  <2>1. pc["worker"] \in Planning
    BY <1>8 DEF Register, Planning
  <2> QED BY <1>7, <1>8, <2>1, RegisterMoves, WorkerIsThread
<1>9. CASE Performs("worker")
  <2>1. pc["worker"] \in Planning
    BY <1>9, PerformsMoves, WorkerIsThread DEF Planning
  <2> QED BY <1>7, <1>9, <2>1, PerformsMoves, WorkerIsThread
<1>10. CASE Finish("worker")
  BY <1>10, RestTyped, WorkerIsThread DEF Finish, Inv, Typed, ThreadsTyped, InPlan, Planning
<1>11. CASE Elsewhere("worker")
  BY <1>11 DEF Elsewhere, InPlan
<1> QED
  BY <1>1, <1>4, <1>5, <1>6, <1>8, <1>9, <1>10, <1>11, ThreadSteps, WorkerIsThread
  DEF Steps, Quiet

(* The ticker will perform the i-th operation of r's plan before it rests. *)
(* A resource that is not registered will be by a Reconcile of the worker. *)
TickerWill(r, i) ==
  IF InPlan("ticker", r) THEN Ahead("ticker", r, i)
  ELSE r \in toVisit \/ pc["ticker"] = "snapshot" \/ r \notin instances

LEMMA TickerWillSteps ==
  ASSUME Inv, Rested, [Next]_vars, Clean', NEW r \in Requests, NEW i \in DOMAIN PlanFor(r),
         Quiet(r), ~Coming(r)', TickerWill(r, i)
  PROVE  \/ TickerWill(r, i)' \/ PerformsAt("ticker", r, i)
         \/ Register("worker") /\ work["worker"].request = r
<1>1. Remembers(r)
  BY MemorySteps DEF Quiet
<1>2. CASE InPlan("ticker", r)
  <2>1. Ahead("ticker", r, i)
    BY <1>2 DEF TickerWill
  <2>2. PerformsAt("ticker", r, i) \/ Ahead("ticker", r, i)'
    BY <2>1, AheadSteps, WorkerIsThread
  <2> QED BY <2>2 DEF TickerWill, Ahead, Holds
<1>3. CASE ~InPlan("ticker", r) /\ InPlan("ticker", r)'
  <2>1. ~StaysPut("ticker") /\ ~LosesCopy("ticker")
    BY <1>3, WorkerIsThread DEF StaysPut, LosesCopy, InPlan, Inv, Typed, ThreadsTyped, Works
  <2>2. ASSUME NEW k, NEW found, NEW l \in {"run", "finish"}, NEW j, NEW image,
               MovesTo("ticker", k, found, l, j, image), pc["ticker"] \in Planning
        PROVE  FALSE
    BY <1>3, <2>2, Moved, WorkerIsThread DEF InPlan
  <2>3. ~Register("ticker")
    <3>1. Register("ticker") => pc["ticker"] \in Planning
      BY DEF Register, Planning
    <3> QED BY <2>2, <3>1, RegisterMoves, WorkerIsThread
  <2>4. ~Performs("ticker")
    <3>1. Performs("ticker") => pc["ticker"] \in Planning
      BY PerformsMoves, WorkerIsThread DEF Planning
    <3> QED BY <2>2, <3>1, PerformsMoves, WorkerIsThread
  <2>5. ~Finish("ticker")
    BY <1>3, RestTyped, WorkerIsThread DEF Finish, Inv, Typed, ThreadsTyped, InPlan, Planning
  <2>6. PICK q \in Requests : Begin("ticker", q)
    BY <1>3, <2>1, <2>3, <2>4, <2>5, ThreadSteps, WorkerIsThread
    DEF Steps, Elsewhere, InPlan, Quiet
  <2>7. q = r
    BY <1>3, <2>6, WorkerIsThread DEF Begin, InPlan, NoWork, Inv, Typed, ThreadsTyped
  <2>8. Ahead("ticker", r, i)'
    BY <2>6, <2>7, WorkerTakes, WorkerIsThread
  <2> QED BY <1>3, <2>8 DEF TickerWill
<1>4. CASE ~InPlan("ticker", r) /\ ~InPlan("ticker", r)'
  <2>1. ~Begin("ticker", r)
    BY <1>4, WorkerTakes, WorkerIsThread DEF Holds
  <2>2. CASE TakeInstances
    BY <1>4, <2>2 DEF TakeInstances, TickerWill, Rested
  <2>3. CASE r \in toVisit /\ ~TakeInstances
    BY <1>1, <1>4, <2>1, <2>3 DEF Remembers, TickerWill
  <2>4. CASE pc["ticker"] = "snapshot" /\ ~TakeInstances
    BY <1>1, <1>4, <2>4 DEF Remembers, TickerWill
  <2>5. CASE r \notin instances
    <3>1. ASSUME r \in instances'
          PROVE  Register("worker") /\ work["worker"].request = r
      <4>1. PICK t \in Threads : Register(t) /\ work[t].request = r
        BY <1>1, <2>5, <3>1 DEF Remembers
      <4>2. InPlan(t, r)
        BY <4>1 DEF Register, InPlan, Planning
      <4> QED BY <1>4, <4>1, <4>2 DEF Threads
    <3> QED BY <1>4, <3>1 DEF TickerWill
  <2> QED BY <1>4, <2>2, <2>3, <2>4, <2>5 DEF TickerWill
<1> QED BY <1>2, <1>3, <1>4

(* The image of an object is of the versions fetched last. *)
HasImage(r, i) ==
  LET op == PlanFor(r)[i]
  IN  op.verb = "apply" /\ objs[op.object] # Absent => objs[op.object].image = ImageFor(op)

(* The worker is going to write the image of the versions fetched last. *)
WorkerWill(r, i) ==
  /\ Ahead("worker", r, i)
  /\ pc["worker"] = "run" /\ work["worker"].at = i
       => work["worker"].image = ImageFor(PlanFor(r)[i])

ImageAttended(r, i) ==
  \/ Coming(r) \/ r \in wake[PlanFor(r)[i].object]
  \/ WorkerWill(r, i)
  \/ PlanFor(r)[i].image /\ TickerWill(r, i)

ImagesCome ==
  Clean => \A r \in Requests : cr[r] # NoCR =>
             \A i \in DOMAIN PlanFor(r) :
               IsWatched(PlanFor(r)[i].object) /\ ~HasImage(r, i) => ImageAttended(r, i)

ImageBasis == Basis /\ Rested /\ UpToDate /\ Overtaken

LEMMA ImageBasisHolds == Spec => []ImageBasis
<1>1. Init => Rested /\ UpToDate /\ Overtaken
  BY WorkerIsThread DEF Init, Rested, UpToDate, Overtaken, InPlan, Planning
<1>2. Basis /\ Rested /\ UpToDate /\ Overtaken /\ [Next]_vars => (Rested /\ UpToDate /\ Overtaken)'
  BY RestedNext, UpToDateNext, OvertakenNext DEF Basis
<1> QED BY <1>1, <1>2, BasisHolds, PTL DEF Spec, ImageBasis

LEMMA WorkerWillSteps ==
  ASSUME Inv, [Next]_vars, NEW r \in Requests, NEW i \in DOMAIN PlanFor(r),
         WorkerWill(r, i), Quiet(r), ~Coming(r)',
         versions' = versions \/ ~PlanFor(r)[i].image
  PROVE  \/ WorkerWill(r, i)'
         \/ PerformsAt("worker", r, i) /\ work["worker"].image = ImageFor(PlanFor(r)[i])
<1> DEFINE image == ImageFor(PlanFor(r)[i])
<1>1. PlanFor(r)' = PlanFor(r) /\ image' = image
  BY DEF PlanFor, Quiet, ImageFor
<1>2. CASE PerformsAt("worker", r, i)
  BY <1>2 DEF PerformsAt, WorkerWill
<1>3. CASE /\ Ahead("worker", r, i)'
           /\ \/ StaysPut("worker") \/ work'["worker"].at # i
              \/ work'["worker"].image = image
  BY <1>1, <1>3 DEF WorkerWill, StaysPut
<1> QED BY <1>2, <1>3, AheadSteps, WorkerIsThread DEF WorkerWill

LEMMA ImageAttendedSteps ==
  ASSUME ImageBasis, [Next]_vars, Clean', NEW r \in Requests, NEW i \in DOMAIN PlanFor(r),
         PlanFor(r)[i].object \in Objects, Quiet(r),
         versions' = versions \/ ~PlanFor(r)[i].image,
         ImageAttended(r, i), ~ImageAttended(r, i)'
  PROVE  \E t \in Threads :
           PerformsAt(t, r, i) /\ work[t].image = ImageFor(PlanFor(r)[i])
<1> USE DEF ImageBasis, Basis
<1> DEFINE o == PlanFor(r)[i].object
<1>1. PlanFor(r)' = PlanFor(r)
  BY DEF PlanFor, Quiet
<1>2. ~Coming(r)' /\ r \notin wake'[o] /\ ~WorkerWill(r, i)'
      /\ (PlanFor(r)[i].image => ~TickerWill(r, i)')
  BY <1>1 DEF ImageAttended
<1>3. CASE Coming(r)
  <2>1. Begin("worker", r)
    BY <1>3 DEF Coming, Quiet
  <2>2. Ahead("worker", r, i)' /\ pc'["worker"] = "register"
    BY <2>1, WorkerTakes, WorkerIsThread
  <2> QED BY <1>2, <2>2 DEF WorkerWill
<1>4. CASE r \in wake[o]
  BY <1>2, <1>4, ObjectSteps DEF Moves, Coming, Quiet
<1>5. CASE WorkerWill(r, i)
  BY <1>2, <1>5, WorkerWillSteps, WorkerIsThread
<1>6. CASE PlanFor(r)[i].image /\ TickerWill(r, i)
  <2>1. CASE PerformsAt("ticker", r, i)
    <3>1. Plan("ticker") = PlanFor(r)
      BY <2>1, HeldPlan, WorkerIsThread DEF PerformsAt
    <3>2. work["ticker"].image = ImageFor(PlanFor(r)[i])
      BY <2>1, <3>1, CleanBefore DEF PerformsAt, UpToDate, Inv, Typed
    <3> QED BY <2>1, <3>2, WorkerIsThread
  <2>2. CASE Register("worker") /\ work["worker"].request = r
    <3>1. InPlan("worker", r) /\ pc["worker"] = "register"
      BY <2>2 DEF Register, InPlan, Planning
    <3>2. ~Begin("worker", r)
      BY <3>1 DEF Begin, TakeRequest
    <3>3. WorkerWill(r, i)
      BY <3>1, <3>2, CleanBefore DEF WorkerWill, Ahead, Holds, Overtaken, Coming, Quiet, Inv, Typed
    <3> QED BY <1>2, <3>3, WorkerWillSteps, WorkerIsThread
  <2> QED BY <1>2, <1>6, <2>1, <2>2, TickerWillSteps
<1> QED BY <1>2, <1>3, <1>4, <1>5, <1>6 DEF ImageAttended

(* While nothing comes up for r, its watched objects do not change under   *)
(* the eyes of those who work on it, and the cache is up to date.          *)
LEMMA Undisturbed ==
  ASSUME Basis, Basis', [Next]_vars, NEW r \in Requests, NEW i \in DOMAIN PlanFor(r),
         IsWatched(PlanFor(r)[i].object), PlanFor(r)[i].object \in Objects,
         Quiet(r), ~Coming(r)', r \notin wake'[PlanFor(r)[i].object]
  PROVE  LET o == PlanFor(r)[i].object IN objs'[o] = objs[o] /\ o \notin stale
<1> USE DEF Basis
<1> DEFINE o == PlanFor(r)[i].object
<1>1. HolderOf(o) = r /\ o.kind \in WatchedKinds
  BY WatchedFacts DEF Quiet
<1>2. r \notin wake[o]
  BY ObjectSteps DEF Moves, Coming, Quiet
<1> HIDE DEF o
<1>3. Same(o)
  BY <1>1, ChangeIsHeard, ObjectSteps DEF Moves, o
<1>4. o \notin stale
  BY <1>1, <1>2 DEF ChangesAnnounced, o
<1> QED BY <1>3, <1>4 DEF Same, o

LEMMA ImagesComeNext ==
  ASSUME ImageBasis, ImageBasis', ImagesCome, [Next]_vars
  PROVE  ImagesCome'
<1> SUFFICES ASSUME Clean', NEW r \in Requests, cr'[r] # NoCR, NEW i \in DOMAIN PlanFor(r)',
                    IsWatched(PlanFor(r)'[i].object), ~HasImage(r, i)', ~ImageAttended(r, i)'
             PROVE  FALSE
  BY DEF ImagesCome, IsWatched
<1> USE DEF ImageBasis, Basis
<1>1. Quiet(r) /\ cr[r] # NoCR /\ PlanFor(r)' = PlanFor(r) /\ ~Coming(r)'
  BY QueueSteps DEF ImageAttended, Quiet, PlanFor
<1>2. Clean
  BY CleanBefore DEF Inv, Typed
<1> DEFINE op == PlanFor(r)[i]
           o == op.object
<1>3. /\ i \in DOMAIN PlanFor(r) /\ IsWatched(o) /\ op.verb = "apply"
      /\ objs'[o] # Absent /\ objs'[o].image # ImageFor(op)'
  BY <1>1 DEF HasImage
<1>4. o \in Objects /\ r \notin wake'[o]
  BY <1>1, <1>3, PlanForFacts DEF ImageAttended
<1>5. versions' = versions \/ ~op.image
  <2>1. Remembers(r)
    BY <1>1, MemorySteps DEF Quiet
  <2>2. ASSUME Tick PROVE TickerWill(r, i)'
    <3>1. pc'["ticker"] = "snapshot"
      BY <2>2, WorkerIsThread DEF Tick, Inv, Typed, ThreadsTyped
    <3> QED BY <3>1 DEF TickerWill, InPlan, Planning
  <2> QED BY <1>1, <2>1, <2>2 DEF Remembers, ImageAttended
<1>6. ImageFor(op)' = ImageFor(op)
  BY <1>1, <1>5 DEF ImageFor
<1>7. objs'[o] = objs[o] /\ o \notin stale
  BY <1>1, <1>3, <1>4, Undisturbed
<1>8. ~HasImage(r, i)
  BY <1>3, <1>6, <1>7 DEF HasImage
<1>9. PICK t \in Threads : PerformsAt(t, r, i) /\ work[t].image = ImageFor(op)
  BY <1>1, <1>2, <1>3, <1>4, <1>5, <1>8, ImageAttendedSteps DEF ImagesCome
<1>10. Writes(t, o) /\ op = Plan(t)[work[t].at]
  BY <1>3, <1>4, <1>7, <1>9, WriteDone, HeldPlan DEF PerformsAt
<1>11. objs'[o].image = work[t].image
  <2> HIDE DEF op, o
  <2>1. objs'[o] = ContentAfter(objs[o], op, work[t])
    BY <1>10 DEF Writes
  <2> QED BY <1>3, <2>1, AppliedContent
<1> QED BY <1>3, <1>6, <1>9, <1>11

LEMMA ObjectsCome == Spec => [](ImageBasis /\ ContentsCome /\ ImagesCome)
<1>1. Init => ContentsCome /\ ImagesCome
  BY InitQuiet DEF ContentsCome, ImagesCome, Attended, ImageAttended
<1>2. ImageBasis /\ ImageBasis' /\ ContentsCome /\ ImagesCome /\ [Next]_vars
        => ContentsCome' /\ ImagesCome'
  BY ContentsComeNext, ImagesComeNext DEF ImageBasis
<1> QED BY <1>1, <1>2, ImageBasisHolds, PTL DEF Spec

(* The objects of a resource for which nothing is under way. *)
LEMMA SettledDone ==
  ASSUME ImageBasis, ContentsCome, ImagesCome, Clean, NEW r \in Requests, Settled(r),
         NEW op \in OpsOf(r), IsWatched(op.object), op.verb # "legacy",
         op.image => r \in instances
  PROVE  Done(r, op, TRUE)
<1> USE DEF ImageBasis, Basis
<1>1. PICK i \in DOMAIN PlanFor(r) : op = PlanFor(r)[i]
  BY DEF OpsOf, PlanFor
<1>2. /\ cr[r] # NoCR /\ ~Coming(r) /\ pc["ticker"] = "idle" /\ toVisit = {}
      /\ \A t \in Threads : ~InPlan(t, r)
  BY DEF Settled, Coming, Rested, InPlan
<1>3. /\ op.verb \in {"apply", "ensure", "delete", "validate", "legacyDone"} /\ ~op.retain
      /\ op.verb # "validate" => op.object \in Objects
  BY <1>1, <1>2, PlanForFacts, WatchedFacts DEF Proper
<1>4. CASE op.verb \in {"validate", "legacyDone"}
  BY <1>4 DEF Done
<1>5. CASE op.verb \in {"apply", "ensure", "delete"}
  <2>1. op.object \in Objects /\ r \notin wake[op.object]
    BY <1>3, <1>5 DEF Settled
  <2>2. IsRight(r, i)
    BY <1>1, <1>2, <2>1, WorkerIsThread DEF ContentsCome, Attended, Retrying, Ahead, Holds
  <2>3. HasImage(r, i)
    BY <1>1, <1>2, <2>1, WorkerIsThread
    DEF ImagesCome, ImageAttended, WorkerWill, TickerWill, Ahead, Holds
  <2> DEFINE content == objs[op.object]
             value == ValueOf(r, op, Resolved(cr[r].spec, TRUE))
  <2>4. CASE op.verb = "apply"
    <3>1. /\ content # Absent /\ content.owner = Mine(r) /\ content.value = value
          /\ content.image = ImageFor(op)
      BY <1>1, <2>2, <2>3, <2>4 DEF IsRight, HasImage
    <3>2. content \in Contents
      BY <2>1, <3>1 DEF Inv, Typed, ClusterTyped
    <3> HIDE DEF content, value
    <3>3. content = [value |-> value, image |-> ImageFor(op), owner |-> Mine(r)]
      BY <3>1, <3>2 DEF Contents
    <3> QED BY <1>3, <2>4, <3>3 DEF Done, Mine, content, value
  <2>5. CASE op.verb = "ensure"
    BY <1>1, <1>3, <2>2, <2>5 DEF Done, IsRight, Mine
  <2>6. CASE op.verb = "delete"
    BY <1>1, <2>2, <2>6 DEF Done, IsRight
  <2> QED BY <1>5, <2>4, <2>5, <2>6
<1> QED BY <1>3, <1>4, <1>5

(* As long as no call fails, whatever the goroutines, the users and the    *)
(* caches have done: when nothing is under way for a resource, each of its *)
(* watched objects is what its spec asks for.  Images are those of the     *)
(* versions fetched last if the resource is registered, which one that was *)
(* deleted and created anew may not be; and the Deployment of former       *)
(* versions is another matter, as one resource's suffices to be content.   *)
THEOREM SettledObjectsAreApplied ==
  Spec => []((count["failures"] = 0) =>
               \A r \in Requests : Settled(r) =>
                 \A op \in OpsOf(r) :
                   IsWatched(op.object) /\ op.verb # "legacy" /\ (op.image => r \in instances)
                     => Done(r, op, TRUE))
<1>1. ImageBasis /\ ContentsCome /\ ImagesCome =>
        ((count["failures"] = 0) =>
           \A r \in Requests : Settled(r) =>
             \A op \in OpsOf(r) :
               IsWatched(op.object) /\ op.verb # "legacy" /\ (op.image => r \in instances)
                 => Done(r, op, TRUE))
  BY SettledDone DEF Clean
<1> QED BY <1>1, ObjectsCome, PTL

-----------------------------------------------------------------------------
(* The Deployment of former versions.  Nothing writes it.                  *)
LEMMA LegacyNotWritten ==
  ASSUME Inv, [Next]_vars, NEW r \in Requests, LegacyDeployment(r) \in Objects,
         objs[LegacyDeployment(r)] = Absent
  PROVE  objs'[LegacyDeployment(r)] = Absent
<1> DEFINE o == LegacyDeployment(r)
<1>1. o.kind = "Deployment" /\ o.name[2] = "coroot"
  BY DEF LegacyDeployment, Object
<1> HIDE DEF o
<1>2. ASSUME NEW t \in Threads, Writes(t, o) PROVE FALSE
  <2>1. /\ pc[t] = "run" /\ o = Plan(t)[work[t].at].object
        /\ Plan(t)[work[t].at].verb \in {"apply", "ensure"}
    BY <1>2 DEF Writes, CreateOrUpdate, Runs
  <2> QED BY <1>1, <2>1, AtOp DEF Proper
<1>3. Moves(o)
  BY ObjectSteps DEF o
<1> QED BY <1>2, <1>3 DEF Moves, Same, Differs, o

(* That it has been deleted is recorded right after the attempt.           *)
LEMMA PlanRecordsLegacy ==
  ASSUME NEW r \in Requests, NEW s \in Specs, NEW i \in DOMAIN PlanOf[r][s],
         PlanOf[r][s][i].verb = "legacyDone"
  PROVE  /\ i - 1 \in DOMAIN PlanOf[r][s] /\ PlanOf[r][s][i - 1].verb = "legacy"
         /\ PlanOf[r][s][i - 1].object = LegacyDeployment(r)
         /\ PlanOf[r][s][i].object = LegacyDeployment(r)
<1> DEFINE plan == Reconcile(r, Validated(s))
<1>1. IsSpec(Validated(s))
  BY SpecsAssumption, ValidatedIsSpec
<1>2. RecordsLegacy(plan)
  BY <1>1, RequestsAreRequests, PlanOrder
<1>3. i \in DOMAIN plan /\ PlanOf[r][s][i] = plan[i] /\ PlanOf[r][s] = Keep(plan)
  BY PlanPositions DEF PlanOf
<1> HIDE DEF plan
<1>4. /\ i - 1 \in DOMAIN plan /\ plan[i - 1].verb = "legacy"
      /\ plan[i - 1].object = plan[i].object
  BY <1>2, <1>3 DEF RecordsLegacy
<1>5. IsKept(plan[i]) /\ plan[i].verb = "legacyDone"
  BY <1>3 DEF Keep
<1>6. IsKept(plan[i - 1])
  BY <1>4, <1>5 DEF IsKept
<1>7. i - 1 \in DOMAIN PlanOf[r][s] /\ PlanOf[r][s][i - 1] = plan[i - 1]
  BY <1>3, <1>4, <1>6 DEF Keep
<1>8. Proper(r, PlanOf[r][s][i])
  BY OpFacts
<1> QED BY <1>3, <1>4, <1>5, <1>7, <1>8 DEF Proper

AtLegacyDone(t) == pc[t] = "run" /\ Plan(t)[work[t].at].verb = "legacyDone"

LegacyGone ==
  Clean /\ (deploymentDeleted \/ \E t \in Threads : AtLegacyDone(t)) =>
    \A r \in Requests :
      LegacyDeployment(r) \in Objects => objs[LegacyDeployment(r)] = Absent

LEMMA DeletedSteps ==
  ASSUME [Next]_vars, deploymentDeleted'
  PROVE  deploymentDeleted \/ \E t \in Threads : AtLegacyDone(t)
BY DEF Next, User, DeleteCR, CreateCR, EditCR, ToggleSecret, NewRelease, DeleteObject,
   Kubernetes, Collect, SyncCR, SyncObject, SyncSecret, DelayOver,
   Process, Begin, BeginFails, Acquire, Register, Unregister, TakeInstances, Tick,
   Proceed, DeleteBinding, DeleteRole, CreateOrUpdate, DeletePlanned, SetDeploymentDeleted,
   Validate, Finish, Restart, vars, memoryVars, Runs, AtLegacyDone

(* With one resource, the attempt that is recorded was the one to delete   *)
(* its Deployment.                                                         *)
LEMMA LegacyGoneNext ==
  ASSUME NEW q, Requests = {q}, Inv, LegacyGone, [Next]_vars
  PROVE  LegacyGone'
<1> DEFINE o == LegacyDeployment(q)
<1> SUFFICES ASSUME Clean', deploymentDeleted' \/ \E t \in Threads : AtLegacyDone(t)',
                    o \in Objects, objs'[o] # Absent
             PROVE  FALSE
  BY DEF LegacyGone
<1>1. objs[o] # Absent /\ Clean
  BY LegacyNotWritten, CleanBefore DEF Inv, Typed
<1>2. ~deploymentDeleted /\ ~deploymentDeleted' /\ \A t \in Threads : ~AtLegacyDone(t)
  BY <1>1, DeletedSteps DEF LegacyGone
<1>3. PICK t \in Threads : AtLegacyDone(t)'
  BY <1>2
<1> HIDE DEF o
<1>4. CASE StaysPut(t) \/ LosesCopy(t)
  <2>1. /\ pc'[t] = pc[t] /\ work'[t].request = work[t].request
        /\ work'[t].copy = work[t].copy /\ work'[t].at = work[t].at
    BY <1>4 DEF StaysPut, LosesCopy, Inv, Typed, ThreadsTyped, Works
  <2>2. AtLegacyDone(t)
    BY <1>3, <2>1, PlanUnmoved DEF AtLegacyDone
  <2> QED BY <1>2, <2>2
<1>5. ASSUME NEW i \in Nat \ {0}, NEW found, NEW l \in {"run", "finish"}, NEW j \in Nat \ {0},
             NEW image, MovesTo(t, i, found, l, j, image),
             work[t].request \in Requests, work[t].copy \in Coroots
      PROVE  /\ i - 1 \in DOMAIN Plan(t) /\ Plan(t)[i - 1].verb = "legacy"
             /\ Plan(t)[i - 1].object = o
  <2>1. l = "run" /\ work'[t].at = j /\ Plan(t)' = Plan(t)
    BY <1>3, <1>5, Moved, PlanUnmoved DEF AtLegacyDone
  <2>2. /\ Plan(t)[j].verb = "legacyDone" /\ j \in DOMAIN Plan(t) /\ j >= i
        /\ \A k \in DOMAIN Plan(t) : k >= i => k >= j
    BY <1>3, <1>5, <2>1 DEF AtLegacyDone, MovesTo
  <2>3. /\ work[t].copy.spec \in Specs /\ Plan(t) = PlanOf[q][work[t].copy.spec]
        /\ q \in Requests
    BY <1>5 DEF Plan, Coroots
  <2>4. /\ j - 1 \in DOMAIN Plan(t) /\ Plan(t)[j - 1].verb = "legacy"
        /\ Plan(t)[j - 1].object = o
    BY <2>2, <2>3, PlanRecordsLegacy DEF o
  <2>5. ~(j - 1 >= i)
    BY <2>2, <2>4
  <2>6. j = i
    BY <2>2, <2>5
  <2> QED BY <2>4, <2>6
<1>6. CASE Register(t)
  <2>1. PICK found \in BOOLEAN, l \in {"run", "finish"}, j \in Nat \ {0}, image \in Images :
          MovesTo(t, 1, found, l, j, image)
    BY <1>6, RegisterMoves
  <2>2. work[t].request \in Requests /\ work[t].copy \in Coroots /\ 1 \in Nat \ {0}
    BY <1>6 DEF Register, Inv, Typed, ThreadsTyped
  <2>3. 1 - 1 \in DOMAIN Plan(t)
    BY <1>5, <2>1, <2>2
  <2>4. DOMAIN Plan(t) \subseteq Nat \ {0}
    BY <2>2, PlanPositions DEF Plan, Coroots
  <2> QED BY <2>3, <2>4
<1>7. CASE Performs(t)
  <2> DEFINE at == work[t].at
  <2>1. PICK found \in BOOLEAN, l \in {"run", "finish"}, j \in Nat \ {0}, image \in Images :
          MovesTo(t, at + 1, found, l, j, image)
    BY <1>7, PerformsMoves
  <2>2. /\ work[t].request \in Requests /\ work[t].copy \in Coroots
        /\ at \in Nat \ {0} /\ at + 1 \in Nat \ {0} /\ (at + 1) - 1 = at
    BY <1>7, PerformsMoves, AtOp DEF Inv, Typed, ThreadsTyped, Works
  <2>3. (at + 1) - 1 \in DOMAIN Plan(t) /\ Plan(t)[(at + 1) - 1].verb = "legacy"
        /\ Plan(t)[(at + 1) - 1].object = o
    BY <1>5, <2>1, <2>2
  <2>4. Plan(t)[at].verb = "legacy" /\ Plan(t)[at].object = o
    BY <2>2, <2>3
  <2>5. TryDelete(o)
    BY <1>2, <1>7, <2>4 DEF Performs, CreateOrUpdate, DeletePlanned, SetDeploymentDeleted,
       Validate, Runs
  <2>6. ~Occurs("failures") /\ objs \in [Objects -> Contents \cup {Absent}]
    BY NoFailure DEF Inv, Typed, ClusterTyped
  <2> QED BY <2>5, <2>6 DEF TryDelete, Delete, Write, Put
<1>8. pc'[t] = "run"
  BY <1>3 DEF AtLegacyDone
<1>9. ~Elsewhere(t) /\ ~Restart /\ ~Finish(t) /\ ~ \E r \in Requests : Begin(t, r)
  BY <1>8, RestTyped DEF Elsewhere, Planning, Restart, Finish, Begin, Branch,
     Inv, Typed, ThreadsTyped
<1> QED BY <1>4, <1>6, <1>7, <1>9, ThreadSteps DEF Steps

LegacyComes ==
  Clean => \A r \in Requests : cr[r] # NoCR =>
             \A i \in DOMAIN PlanFor(r) :
               PlanFor(r)[i].verb = "legacy" /\ objs[PlanFor(r)[i].object] # Absent
                 => Attended(r, i)

LEMMA LegacyComesNext ==
  ASSUME Basis, LegacyGone, LegacyComes, [Next]_vars
  PROVE  LegacyComes'
<1> SUFFICES ASSUME Clean', NEW r \in Requests, cr'[r] # NoCR, NEW i \in DOMAIN PlanFor(r)',
                    PlanFor(r)'[i].verb = "legacy", objs'[PlanFor(r)'[i].object] # Absent,
                    ~Attended(r, i)'
             PROVE  FALSE
  BY DEF LegacyComes
<1> USE DEF Basis
<1> DEFINE op == PlanFor(r)[i]
<1>1. /\ Quiet(r) /\ cr[r] # NoCR /\ PlanFor(r)' = PlanFor(r)
      /\ i \in DOMAIN PlanFor(r) /\ op.verb = "legacy"
  BY QueueSteps DEF Attended, Quiet, PlanFor
<1>2. op.object = LegacyDeployment(r) /\ op.object \in Objects
  BY <1>1, PlanForFacts DEF Proper
<1>3. objs'[op.object] # Absent /\ objs[op.object] # Absent /\ Clean
  BY <1>1, <1>2, LegacyNotWritten, CleanBefore DEF Inv, Typed
<1>4. PerformsAt("worker", r, i)
  BY <1>1, <1>2, <1>3, AttendedSteps DEF LegacyComes
<1>5. ~deploymentDeleted
  BY <1>2, <1>3 DEF LegacyGone
<1> QED BY <1>1, <1>2, <1>3, <1>4, <1>5, DeleteDone, WorkerIsThread

LEMMA LegacyHolds ==
  ASSUME NEW q, Requests = {q}
  PROVE  Spec => [](Basis /\ LegacyGone /\ LegacyComes)
<1>1. Init => LegacyGone /\ LegacyComes
  BY InitQuiet DEF Init, LegacyGone, LegacyComes, AtLegacyDone, Attended
<1>2. Basis /\ LegacyGone /\ LegacyComes /\ [Next]_vars => LegacyGone' /\ LegacyComes'
  BY LegacyGoneNext, LegacyComesNext DEF Basis
<1> QED BY <1>1, <1>2, BasisHolds, PTL DEF Spec

-----------------------------------------------------------------------------
(* Resources that are never created anew.                                  *)
Once == count["incarnations"] = 1

LEMMA OnceNext ==
  ASSUME Limit["incarnations"] = 1, Inv, Once, [Next]_vars
  PROVE  Once' /\ \A r \in Requests : cr'[r] # NoCR => cr[r] # NoCR
<1>1. ~Occurs("incarnations")
  BY DEF Occurs, Once
<1>2. ASSUME NEW x \in Occasions, x # "incarnations", Occurs(x) PROVE Once'
  <2>1. count' = [count EXCEPT ![x] = @ + 1] /\ x # "incarnations"
    BY <1>2 DEF Occurs
  <2>2. count'["incarnations"] = count["incarnations"]
    BY <2>1 DEF Inv, Typed, CountTyped, Occasions
  <2> QED BY <2>2 DEF Once
<1>3. ASSUME UNCHANGED count PROVE Once'
  BY <1>3 DEF Once
<1>4. ASSUME NEW q, NEW new, PutCR(q, new), cr[q] # NoCR, NEW r \in Requests, cr'[r] # NoCR
      PROVE  cr[r] # NoCR
  BY <1>4 DEF PutCR, Inv, Typed, ClusterTyped
<1>5. CASE User
  BY <1>1, <1>2, <1>4, <1>5 DEF User, CreateCR, EditCR, DeleteCR, ToggleSecret, DeleteObject,
     NewRelease, Occasions
<1>6. CASE Kubernetes
  BY <1>3, <1>6 DEF Kubernetes, Collect, SyncCR, SyncObject, SyncSecret, DelayOver, clusterVars
<1>7. ASSUME NEW t \in Threads, Finish(t)
      PROVE  Once' /\ \A r \in Requests : cr'[r] # NoCR => cr[r] # NoCR
  <2>1. Once'
    BY <1>2, <1>3, <1>7 DEF Finish, Occasions
  <2>2. work[t].current => cr[work[t].request] # NoCR
    BY DEF Inv, CopiesAgree
  <2> QED BY <1>4, <1>7, <2>1, <2>2 DEF Finish, StatusAccepted
<1>8. CASE Process /\ ~ \E t \in Threads : Finish(t)
  BY <1>2, <1>3, <1>8 DEF Process, Begin, BeginFails, Acquire, Register, Unregister,
     TakeInstances, Proceed, DeleteBinding, DeleteRole, TryDelete, CreateOrUpdate,
     DeletePlanned, SetDeploymentDeleted, Validate, Tick, Occasions, clusterVars
<1>9. CASE Restart
  BY <1>2, <1>9 DEF Restart, Occasions, clusterVars
<1>10. CASE UNCHANGED vars
  BY <1>3, <1>10 DEF vars, clusterVars
<1> QED BY <1>5, <1>6, <1>7, <1>8, <1>9, <1>10 DEF Next

(* The caches know a resource as long as it exists, and no goroutine takes *)
(* it for deleted.                                                         *)
Known ==
  /\ \A r \in Requests : cr[r] # NoCR => crCache[r] # NoCR
  /\ \A t \in Threads : pc[t] = "unregister" => cr[work[t].request] = NoCR

LEMMA KnownNext ==
  ASSUME Limit["incarnations"] = 1, Inv, Once, Known, [Next]_vars
  PROVE  Known'
<1>1. \A r \in Requests : cr'[r] # NoCR => cr[r] # NoCR
  BY OnceNext
<1>2. ASSUME NEW r \in Requests, cr'[r] # NoCR PROVE crCache'[r] # NoCR
  <2>1. cr[r] # NoCR /\ crCache[r] # NoCR
    BY <1>1, <1>2 DEF Known
  <2>2. CASE UNCHANGED crCache
    BY <2>1, <2>2
  <2>3. ASSUME NEW q \in Requests, SyncCR(q) PROVE crCache'[r] # NoCR
    BY <2>1, <2>3 DEF SyncCR, Inv, Typed, CacheTyped
  <2>4. CASE Restart
    BY <2>1, <2>4 DEF Restart
  <2>5. CASE User
    BY <2>2, <2>5 DEF User, CreateCR, EditCR, DeleteCR, ToggleSecret, DeleteObject, NewRelease,
       cacheVars
  <2>6. CASE Kubernetes
    BY <2>2, <2>3, <2>6 DEF Kubernetes, Collect, SyncObject, SyncSecret, DelayOver, cacheVars
  <2>7. CASE Process
    BY <2>2, <2>7 DEF Process, Begin, BeginFails, Acquire, Register, Unregister,
       TakeInstances, Proceed, DeleteBinding, DeleteRole, CreateOrUpdate,
       DeletePlanned, SetDeploymentDeleted, Validate, Finish, Tick, cacheVars
  <2> QED BY <2>2, <2>4, <2>5, <2>6, <2>7 DEF Next, vars, cacheVars
<1>3. ASSUME NEW t \in Threads, pc'[t] = "unregister" PROVE cr'[work'[t].request] = NoCR
  <2> DEFINE r == work[t].request
  <2>1. CASE StaysPut(t) \/ LosesCopy(t)
    <3>1. pc[t] = "unregister" /\ work'[t].request = r /\ r \in Requests
      BY <1>3, <2>1 DEF StaysPut, LosesCopy, Inv, Typed, ThreadsTyped, Works
    <3> QED BY <1>1, <3>1 DEF Known
  <2>2. ASSUME NEW q \in Requests, Begin(t, q) PROVE cr'[work'[t].request] = NoCR
    <3>1. work'[t].request = q /\ pc'[t] = Branch(q)
      BY <2>2 DEF Begin, NoWork, Inv, Typed, ThreadsTyped
    <3>2. crCache[q] = NoCR
      BY <1>3, <3>1 DEF Branch
    <3> QED BY <1>1, <3>1, <3>2 DEF Known
  <2>3. ~Register(t)
    <3>1. ASSUME Register(t) PROVE pc'[t] \in {"run", "finish"}
      BY <3>1 DEF Register, GoTo, Inv, Typed, ThreadsTyped
    <3> QED BY <1>3, <3>1
  <2>4. ~Performs(t)
    <3>1. ASSUME Performs(t) PROVE pc'[t] \in {"run", "finish"}
      BY <3>1 DEF Performs, CreateOrUpdate, DeletePlanned, SetDeploymentDeleted, Validate,
         Advance, GoTo, Inv, Typed, ThreadsTyped
    <3> QED BY <1>3, <3>1
  <2>5. ~Finish(t) /\ ~Elsewhere(t) /\ ~Restart
    BY <1>3, RestTyped DEF Finish, Elsewhere, Restart, Inv, Typed, ThreadsTyped
  <2> QED BY <2>1, <2>2, <2>3, <2>4, <2>5, ThreadSteps DEF Steps
<1> QED BY <1>2, <1>3 DEF Known

Registers ==
  Clean => \A r \in Requests : cr[r] # NoCR =>
             \/ r \in instances \/ Coming(r)
             \/ Holds("worker", r) /\ pc["worker"] = "register"

LEMMA RegistersNext ==
  ASSUME Inv, Known, Registers, [Next]_vars
  PROVE  Registers'
<1> SUFFICES ASSUME Clean', NEW r \in Requests, cr'[r] # NoCR, r \notin instances', ~Coming(r)'
             PROVE  Holds("worker", r)' /\ pc'["worker"] = "register"
  BY DEF Registers
<1>1. Quiet(r) /\ cr[r] # NoCR /\ Clean
  BY QueueSteps, CleanBefore DEF Quiet, Inv, Typed
<1>2. r \notin instances
  <2>1. Remembers(r)
    BY <1>1, MemorySteps DEF Quiet
  <2>2. ASSUME NEW t \in Threads, Unregister(t), work[t].request = r PROVE FALSE
    BY <1>1, <2>2 DEF Unregister, Known
  <2> QED BY <2>1, <2>2 DEF Remembers
<1>3. CASE Coming(r)
  <2>1. Begin("worker", r)
    BY <1>3, <1>1 DEF Coming, Quiet
  <2> QED BY <1>1, <2>1, WorkerTakes, WorkerIsThread
<1>4. CASE Holds("worker", r) /\ pc["worker"] = "register"
  <2>1. ~Register("worker")
    BY <1>4 DEF Register, Holds, InPlan
  <2>2. ~Performs("worker") /\ ~Finish("worker")
    BY <1>4, PerformsMoves, WorkerIsThread DEF Finish
  <2>3. StaysPut("worker")
    BY <1>1, <1>4, <2>1, <2>2, HolderSteps, WorkerIsThread DEF GoesOn
  <2> QED BY <1>4, <2>3 DEF StaysPut, Holds, InPlan
<1> QED BY <1>1, <1>2, <1>3, <1>4 DEF Registers

LEMMA RegistersHold ==
  ASSUME Limit["incarnations"] = 1
  PROVE  Spec => [](Inv /\ Once /\ Known /\ Registers)
<1>1. Init => Once /\ Known /\ Registers
  BY InitQuiet DEF Init, Once, Known, Registers, Occasions
<1>2. Inv /\ Once /\ Known /\ Registers /\ [Next]_vars => Once' /\ Known' /\ Registers'
  BY OnceNext, KnownNext, RegistersNext
<1> QED BY <1>1, <1>2, InvHolds, PTL DEF Spec

(* With one resource that is not created anew, and as long as no call      *)
(* fails: when nothing is under way for it, all its watched objects are    *)
(* what its spec asks for, the newest fetched images and the deletion of   *)
(* the Deployment of former versions included.                             *)
THEOREM SettledMeansAppliedToOne ==
  ASSUME NEW q, Requests = {q}, Limit["incarnations"] = 1
  PROVE  Spec => []((count["failures"] = 0) => SettledMeansApplied)
<1>1. ASSUME ImageBasis, ContentsCome, ImagesCome, LegacyComes, Registers, Clean,
             NEW r \in Requests, Settled(r), NEW op \in OpsOf(r), IsWatched(op.object)
      PROVE  Done(r, op, TRUE)
  <2>1. cr[r] # NoCR /\ ~Coming(r) /\ \A t \in Threads : ~InPlan(t, r)
    BY <1>1 DEF Settled, Coming, InPlan
  <2>2. r \in instances
    BY <1>1, <2>1, WorkerIsThread DEF Registers, Holds
  <2>3. CASE op.verb = "legacy"
    <3>1. PICK i \in DOMAIN PlanFor(r) : op = PlanFor(r)[i]
      BY <1>1 DEF OpsOf, PlanFor
    <3>2. op.object \in Objects
      BY <1>1, <2>1, <2>3, <3>1, PlanForFacts DEF ImageBasis, Basis
    <3>3. ~Attended(r, i)
      BY <1>1, <2>1, <3>1, <3>2, WorkerIsThread DEF Attended, Settled, Retrying, Ahead, Holds
    <3>4. objs[op.object] = Absent
      BY <1>1, <2>1, <2>3, <3>1, <3>3 DEF LegacyComes
    <3> QED BY <2>3, <3>4 DEF Done
  <2> QED BY <1>1, <2>2, <2>3, SettledDone
<1>2. ImageBasis /\ ContentsCome /\ ImagesCome /\ LegacyComes /\ Registers
        => ((count["failures"] = 0) => SettledMeansApplied)
  BY <1>1 DEF SettledMeansApplied, Clean
<1>3. Spec => [](Basis /\ LegacyGone /\ LegacyComes)
  BY LegacyHolds
<1>4. Spec => [](Inv /\ Once /\ Known /\ Registers)
  BY RegistersHold
<1> QED BY <1>2, <1>3, <1>4, ObjectsCome, PTL
=============================================================================
