----------------------- MODULE CorootReconcilerProofs -----------------------
(***************************************************************************)
(* Theorems about the operator for every set of resources and specs, every *)
(* selection of objects and every bound: the state is well-formed, the     *)
(* cluster-wide objects are deleted in mutual exclusion with registrations,*)
(* and the status of a resource is the verdict on its present spec.        *)
(*                                                                         *)
(* The invariant has three parts.  The types need the other two: Finish    *)
(* writes into the resource only if the server has the version Reconcile   *)
(* has read, so the copy Reconcile holds must be that version.             *)
(***************************************************************************)
EXTENDS CorootReconciler, ReconcilePlanProofs, WellFoundedInduction

ClusterTyped ==
  /\ cr \in [Requests -> Coroots \cup {NoCR}]
  /\ objs \in [Objects -> Contents \cup {Absent}]
  /\ release \in Images

CacheTyped ==
  /\ crCache \in [Requests -> Coroots \cup {NoCR}]
  /\ crStale \subseteq Requests
  /\ stale \subseteq Objects
  /\ wake \in [Objects -> SUBSET Requests]

QueuesTyped ==
  /\ queue \subseteq Requests
  /\ delayed \subseteq Requests

MemoryTyped ==
  /\ instances \subseteq Requests
  /\ instancesLock \in Threads \cup {"free"}
  /\ toVisit \subseteq Requests
  /\ versions \in Images

FlagsTyped ==
  /\ userSecret \in BOOLEAN
  /\ secretCache \in BOOLEAN
  /\ deploymentDeleted \in BOOLEAN

Locations == {"idle", "snapshot", "visit", "register", "unregister",
              "deleteBinding", "deleteRole", "run", "finish"}

(* A goroutine in the middle of its plan stands at one of the operations.  *)
ThreadsTyped ==
  /\ pc \in [Threads -> Locations]
  /\ work \in [Threads -> Works]
  /\ \A t \in Threads :
       /\ pc[t] \in {"register", "run", "finish"} => work[t].copy \in Coroots
       /\ pc[t] \notin {"idle", "snapshot", "visit"} => work[t].request \in Requests
       /\ pc[t] = "run" => work[t].at \in DOMAIN Plan(t)

CountTyped == count \in [Occasions -> Nat]

Typed ==
  /\ ClusterTyped /\ CacheTyped /\ QueuesTyped /\ MemoryTyped
  /\ FlagsTyped /\ ThreadsTyped /\ CountTyped

(* A copy of a resource that passes for the latest version is the latest   *)
(* version: the cache's, when no event is on its way, and the one of a     *)
(* Reconcile whose status update the server would accept.                  *)
CopiesAgree ==
  /\ \A r \in Requests : r \in crStale \/ crCache[r] = cr[r]
  /\ \A t \in Threads :
       work[t].current => /\ work[t].request \in Requests
                          /\ work[t].copy # NoCR
                          /\ work[t].copy = cr[work[t].request]

Inv == Typed /\ CopiesAgree

-----------------------------------------------------------------------------
(* The parts of the invariant that an action leaves alone.                 *)
LEMMA ClusterUnchanged == ClusterTyped /\ UNCHANGED <<cr, objs, release>> => ClusterTyped'
BY DEF ClusterTyped

LEMMA CacheUnchanged == CacheTyped /\ UNCHANGED <<crCache, crStale, stale, wake>> => CacheTyped'
BY DEF CacheTyped

LEMMA QueuesUnchanged == QueuesTyped /\ UNCHANGED <<queue, delayed>> => QueuesTyped'
BY DEF QueuesTyped

LEMMA MemoryUnchanged ==
  MemoryTyped /\ UNCHANGED <<instances, instancesLock, toVisit, versions>> => MemoryTyped'
BY DEF MemoryTyped

LEMMA FlagsUnchanged ==
  FlagsTyped /\ UNCHANGED <<userSecret, secretCache, deploymentDeleted>> => FlagsTyped'
BY DEF FlagsTyped

LEMMA ThreadsUnchanged == ThreadsTyped /\ UNCHANGED <<pc, work>> => ThreadsTyped'
BY DEF ThreadsTyped, Plan

LEMMA CountUnchanged == CountTyped /\ UNCHANGED count => CountTyped'
BY DEF CountTyped

LEMMA CopiesUnchanged ==
  CopiesAgree /\ UNCHANGED <<cr, crCache, crStale, work>> => CopiesAgree'
BY DEF CopiesAgree

-----------------------------------------------------------------------------
(* The helpers of the actions.                                             *)
LEMMA LimitTyped == \A x \in Occasions : Limit[x] \in Nat
BY LimitAssumption

LEMMA OccursTyped ==
  ASSUME CountTyped, NEW x \in Occasions, Occurs(x)
  PROVE  CountTyped' /\ count'[x] \in 1 .. Limit[x]
<1>1. Limit[x] \in Nat /\ count[x] \in Nat
  BY LimitTyped DEF CountTyped
<1>2. count' = [count EXCEPT ![x] = @ + 1] /\ count[x] < Limit[x]
  BY DEF Occurs
<1> QED BY <1>1, <1>2 DEF CountTyped

LEMMA OwnersOfTyped ==
  ASSUME NEW c \in Contents \cup {Absent}
  PROVE  OwnersOf(c) \subseteq Requests
BY DEF OwnersOf, Contents, Owners

LEMMA PutTyped ==
  ASSUME ClusterTyped, CacheTyped,
         NEW o \in Objects, NEW new \in Contents \cup {Absent}, Put(o, new),
         UNCHANGED <<cr, release, crCache, crStale>>
  PROVE  ClusterTyped' /\ CacheTyped'
<1>1. OwnersOf(objs[o]) \cup OwnersOf(new) \subseteq Requests
  BY OwnersOfTyped DEF ClusterTyped
<1>2. ClusterTyped'
  BY DEF Put, ClusterTyped
<1>3. wake' \in [Objects -> SUBSET Requests]
  BY <1>1 DEF Put, CacheTyped
<1>4. CacheTyped'
  BY <1>3 DEF Put, CacheTyped
<1> QED BY <1>2, <1>4

LEMMA WriteTyped ==
  ASSUME ClusterTyped, CacheTyped,
         NEW o \in Objects, NEW new \in Contents \cup {Absent}, Write(o, new),
         UNCHANGED <<cr, release, crCache, crStale>>
  PROVE  ClusterTyped' /\ CacheTyped'
<1>1. CASE Put(o, new)
  BY <1>1, PutTyped
<1>2. CASE UNCHANGED <<objs, stale, wake>>
  BY <1>2, ClusterUnchanged, CacheUnchanged
<1> QED BY <1>1, <1>2 DEF Write

LEMMA TryDeleteTyped ==
  ASSUME ClusterTyped, CacheTyped, CountTyped, NEW o, TryDelete(o),
         UNCHANGED <<cr, release, crCache, crStale>>
  PROVE  ClusterTyped' /\ CacheTyped' /\ CountTyped'
<1>1. CASE o \in Objects /\ Write(o, Absent) /\ UNCHANGED count
  BY <1>1, WriteTyped, CountUnchanged
<1>2. CASE UNCHANGED <<objs, stale, wake, count>>
  BY <1>2, ClusterUnchanged, CacheUnchanged, CountUnchanged
<1>3. CASE Occurs("failures") /\ UNCHANGED <<objs, stale, wake>>
  BY <1>3, ClusterUnchanged, CacheUnchanged, OccursTyped DEF Occasions
<1> QED BY <1>1, <1>2, <1>3 DEF TryDelete, Delete

(* The plan a goroutine follows is made of known operations on known       *)
(* objects.                                                                *)
LEMMA OpKnown ==
  ASSUME NEW r \in Requests, NEW s \in Specs, NEW i \in DOMAIN PlanOf[r][s]
  PROVE  PlanOf[r][s][i] \in Ops
<1> DEFINE opsOf(x, y) == {PlanOf[x][y][j] : j \in DOMAIN PlanOf[x][y]}
<1>1. PlanOf[r][s][i] \in opsOf(r, s)
  OBVIOUS
<1> HIDE DEF opsOf
<1>2. PlanOf[r][s][i] \in UNION {opsOf(x, y) : x \in Requests, y \in Specs}
  BY <1>1
<1> QED BY <1>2 DEF Ops, opsOf

LEMMA NextOp ==
  ASSUME ThreadsTyped, NEW t \in Threads, pc[t] = "run"
  PROVE  /\ Plan(t)[work[t].at] \in Ops
         /\ work[t].request \in Requests /\ work[t].copy \in Coroots
<1>1. work[t].request \in Requests /\ work[t].copy \in Coroots
  BY DEF ThreadsTyped
<1>2. work[t].copy.spec \in Specs
  BY <1>1 DEF Coroots
<1>3. work[t].at \in DOMAIN PlanOf[work[t].request][work[t].copy.spec]
  BY DEF ThreadsTyped, Plan
<1> QED BY <1>1, <1>2, <1>3, OpKnown DEF Plan

LEMMA ImageTyped ==
  ASSUME MemoryTyped, NEW op
  PROVE  ImageFor(op) \in Images
BY LimitAssumption DEF MemoryTyped, ImageFor, Images, Occasions

LEMMA OwnerTyped ==
  ASSUME NEW old \in Contents \cup {Absent}, NEW op, NEW w \in Works,
         w.request \in Requests, w.copy \in Coroots
  PROVE  OwnerAfter(old, op, w) \in Owners
<1>1. [request |-> w.request, uid |-> w.copy.uid] \in Owners
  BY DEF Owners, Coroots
<1>2. old = Absent \/ old.owner \in Owners
  BY DEF Contents
<1>3. NoOwner \in Owners
  BY DEF Owners
<1> QED BY <1>1, <1>2, <1>3 DEF OwnerAfter

LEMMA ContentTyped ==
  ASSUME NEW old \in Contents \cup {Absent}, NEW op \in Ops, NEW w \in Works,
         w.request \in Requests, w.copy \in Coroots
  PROVE  ContentAfter(old, op, w) \in Contents
<1>1. OwnerAfter(old, op, w) \in Owners
  BY OwnerTyped
<1>2. CASE op.verb = "ensure" /\ old # Absent
  <2>1. old \in Contents
    BY <1>2
  <2>2. [old EXCEPT !.owner = OwnerAfter(old, op, w)] \in Contents
    BY <1>1, <2>1 DEF Contents
  <2> QED BY <1>2, <2>2 DEF ContentAfter
<1>3. CASE ~ (op.verb = "ensure" /\ old # Absent)
  <2>1. w.copy.spec \in Specs /\ w.found \in BOOLEAN /\ w.image \in Images
    <3>1. w.copy.spec \in Specs
      BY DEF Coroots
    <3> QED BY <3>1 DEF Works
  <2>2. ValueOf(w.request, op, Resolved(w.copy.spec, w.found)) \in Values
    BY <2>1 DEF Values
  <2> QED BY <1>1, <1>3, <2>1, <2>2 DEF ContentAfter, Contents
<1> QED BY <1>2, <1>3

(* One goroutine moves to location l with the local state w. *)
LEMMA MoveTyped ==
  ASSUME ThreadsTyped, NEW t \in Threads, NEW l \in Locations, NEW w \in Works,
         pc' = [pc EXCEPT ![t] = l], work' = [work EXCEPT ![t] = w],
         l \in {"register", "run", "finish"} => w.copy \in Coroots,
         l \notin {"idle", "snapshot", "visit"} => w.request \in Requests,
         l = "run" => w.at \in DOMAIN PlanOf[w.request][w.copy.spec]
  PROVE  ThreadsTyped'
<1>1. pc' \in [Threads -> Locations] /\ work' \in [Threads -> Works]
  BY DEF ThreadsTyped
<1>2. ASSUME NEW u \in Threads
      PROVE  /\ pc'[u] \in {"register", "run", "finish"} => work'[u].copy \in Coroots
             /\ pc'[u] \notin {"idle", "snapshot", "visit"} => work'[u].request \in Requests
             /\ pc'[u] = "run" => work'[u].at \in DOMAIN Plan(u)'
  <2>1. CASE u = t
    BY <2>1 DEF ThreadsTyped, Plan
  <2>2. CASE u # t
    BY <2>2 DEF ThreadsTyped, Plan
  <2> QED BY <2>1, <2>2
<1> QED BY <1>1, <1>2 DEF ThreadsTyped

LEMMA MoveAgrees ==
  ASSUME ThreadsTyped, CopiesAgree, NEW t \in Threads, NEW w,
         work' = [work EXCEPT ![t] = w], UNCHANGED <<cr, crCache, crStale>>,
         w.current => /\ w.request \in Requests
                      /\ w.copy # NoCR /\ w.copy = cr[w.request]
  PROVE  CopiesAgree'
<1>1. ASSUME NEW u \in Threads, work'[u].current
      PROVE  /\ work'[u].request \in Requests
             /\ work'[u].copy # NoCR /\ work'[u].copy = cr'[work'[u].request]
  <2>1. CASE u = t
    BY <1>1, <2>1 DEF ThreadsTyped
  <2>2. CASE u # t
    BY <1>1, <2>2 DEF ThreadsTyped, CopiesAgree
  <2> QED BY <2>1, <2>2
<1> QED BY <1>1 DEF CopiesAgree

(* The plan of a resource is what is kept of the list Reconcile computes.  *)
LEMMA PlanPositions ==
  ASSUME NEW r \in Requests, NEW s \in Specs
  PROVE  /\ DOMAIN PlanOf[r][s] \subseteq Nat \ {0}
         /\ \A i \in DOMAIN PlanOf[r][s] :
              /\ i \in DOMAIN Reconcile(r, Validated(s))
              /\ PlanOf[r][s][i] = Reconcile(r, Validated(s))[i]
<1> DEFINE plan == Reconcile(r, Validated(s))
<1>1. IsSpec(Validated(s))
  BY SpecsAssumption, ValidatedIsSpec
<1>2. IsList(plan)
  BY <1>1, PlanElements
<1> HIDE DEF plan
<1>3. DOMAIN plan \subseteq Nat \ {0}
  BY <1>2 DEF IsList
<1>4. PlanOf[r][s] = Keep(plan)
  BY DEF PlanOf, plan
<1> QED BY <1>3, <1>4 DEF Keep, plan

LEMMA MinOf ==
  ASSUME NEW S, S \subseteq Nat, S # {}
  PROVE  Min(S) \in S /\ \A y \in S : Min(S) <= y
<1> DEFINE less == {ss \in Nat \X Nat : ss[1] < ss[2]}
<1>1. IsWellFoundedOn(less, Nat)
  BY NatLessThanWellFounded DEF OpToRel
<1>2. \A x, y \in Nat : <<y, x>> \in less <=> y < x
  OBVIOUS
<1> HIDE DEF less
<1>3. PICK x \in S : \A y \in S : ~ (<<y, x>> \in less)
  BY <1>1, WFMin
<1>4. ASSUME NEW y \in S PROVE x <= y
  <2>1. x \in Nat /\ y \in Nat /\ ~ (<<y, x>> \in less)
    BY <1>3
  <2>2. ~ (y < x)
    BY <1>2, <2>1
  <2> QED BY <2>1, <2>2
<1> QED BY <1>4 DEF Min

(* A goroutine goes on to the operation of its plan at i or the first one  *)
(* after it, or to the end.                                                *)
MovesTo(t, i, found, l, j, image) ==
  /\ pc' = [pc EXCEPT ![t] = l]
  /\ work' = [work EXCEPT ![t] =
                [work[t] EXCEPT !.at = j, !.found = found, !.image = image]]
  /\ j >= i
  /\ l = "run" => /\ j \in DOMAIN Plan(t) /\ image = ImageFor(Plan(t)[j])
                  /\ \A k \in DOMAIN Plan(t) : k >= i => k >= j
  /\ l = "finish" => image = 0 /\ \A k \in DOMAIN Plan(t) : ~(k >= i)

LEMMA GoToMoves ==
  ASSUME ThreadsTyped, MemoryTyped, NEW t \in Threads, NEW i \in Nat \ {0}, NEW found,
         work[t].request \in Requests, work[t].copy \in Coroots,
         GoTo(t, i, found)
  PROVE  \E l \in {"run", "finish"}, j \in Nat \ {0}, image \in Images :
           MovesTo(t, i, found, l, j, image)
<1> DEFINE ahead == {k \in DOMAIN Plan(t) : k >= i}
           next == IF ahead = {} THEN i ELSE Min(ahead)
           image == IF ahead = {} THEN 0 ELSE ImageFor(Plan(t)[next])
           l == IF ahead = {} THEN "finish" ELSE "run"
<1>1. pc' = [pc EXCEPT ![t] = l]
      /\ work' = [work EXCEPT ![t] = [work[t] EXCEPT !.at = next, !.found = found, !.image = image]]
  BY DEF GoTo, ThreadsTyped
<1>2. DOMAIN Plan(t) \subseteq Nat \ {0}
  <2>1. work[t].copy.spec \in Specs
    BY DEF Coroots
  <2> QED BY <2>1, PlanPositions DEF Plan
<1>3. ahead # {} => next \in ahead /\ \A k \in ahead : next <= k
  BY <1>2, MinOf
<1>4. next \in Nat \ {0} /\ next >= i /\ image \in Images
  <2>1. image \in Images
    BY ImageTyped, LimitAssumption DEF Images, Occasions
  <2> QED BY <1>2, <1>3, <2>1
<1>5. /\ l \in {"run", "finish"}
      /\ l = "run" => /\ next \in DOMAIN Plan(t) /\ image = ImageFor(Plan(t)[next])
                      /\ \A k \in DOMAIN Plan(t) : k >= i => k >= next
      /\ l = "finish" => /\ image = 0
                         /\ \A k \in DOMAIN Plan(t) : ~(k >= i)
  BY <1>2, <1>3, <1>4
<1> HIDE DEF ahead, next, image, l
<1>6. MovesTo(t, i, found, l, next, image)
  BY <1>1, <1>4, <1>5 DEF MovesTo
<1> QED BY <1>4, <1>5, <1>6

LEMMA GoToTyped ==
  ASSUME ThreadsTyped, MemoryTyped, CopiesAgree,
         NEW t \in Threads, NEW i \in Nat \ {0}, NEW found \in BOOLEAN,
         work[t].request \in Requests, work[t].copy \in Coroots,
         GoTo(t, i, found), UNCHANGED <<cr, crCache, crStale>>
  PROVE  ThreadsTyped' /\ CopiesAgree'
<1>1. PICK l \in {"run", "finish"}, j \in Nat \ {0}, image \in Images :
        MovesTo(t, i, found, l, j, image)
  BY GoToMoves
<1> DEFINE w == [work[t] EXCEPT !.at = j, !.found = found, !.image = image]
<1>2. /\ w \in Works
      /\ w.request = work[t].request /\ w.copy = work[t].copy
      /\ w.current = work[t].current /\ w.at = j
  BY DEF ThreadsTyped, Works
<1>3. pc' = [pc EXCEPT ![t] = l] /\ work' = [work EXCEPT ![t] = w]
  BY <1>1 DEF MovesTo
<1> HIDE DEF w
<1>4. l = "run" => w.at \in DOMAIN PlanOf[w.request][w.copy.spec]
  BY <1>1, <1>2 DEF Plan, MovesTo
<1>5. ThreadsTyped'
  <2>1. l \in Locations
    BY DEF Locations
  <2> QED BY <1>2, <1>3, <1>4, <2>1, MoveTyped
<1>6. CopiesAgree'
  BY <1>2, <1>3, MoveAgrees DEF CopiesAgree
<1> QED BY <1>5, <1>6

(* A goroutine advances from one operation of its plan to the next.        *)
LEMMA AdvanceTyped ==
  ASSUME ThreadsTyped, MemoryTyped, CopiesAgree,
         NEW t \in Threads, pc[t] = "run", NEW found \in BOOLEAN,
         Advance(t, found), UNCHANGED <<cr, crCache, crStale>>
  PROVE  ThreadsTyped' /\ CopiesAgree'
<1>1. work[t].request \in Requests /\ work[t].copy \in Coroots
  BY DEF ThreadsTyped
<1>2. work[t].at + 1 \in Nat \ {0}
  BY DEF ThreadsTyped, Works
<1> QED BY <1>1, <1>2, GoToTyped DEF Advance

LEMMA NoWorkTyped == NoWork \in Works /\ ~NoWork.current
BY LimitAssumption DEF NoWork, Works, Images, Occasions

LEMMA RestTyped == \A t : Rest(t) \in {"visit", "idle"}
BY DEF Rest

(* A goroutine leaves Reconcile. *)
LEMMA ReturnTyped ==
  ASSUME ThreadsTyped, CopiesAgree, NEW t \in Threads, Return(t),
         UNCHANGED <<cr, crCache, crStale>>
  PROVE  ThreadsTyped' /\ CopiesAgree'
<1>1. Rest(t) \in {"visit", "idle"}
  BY RestTyped
<1>2. Rest(t) \in Locations
  BY <1>1 DEF Locations
<1>3. pc' = [pc EXCEPT ![t] = Rest(t)] /\ work' = [work EXCEPT ![t] = NoWork]
  BY DEF Return
<1>4. ThreadsTyped'
  BY <1>1, <1>2, <1>3, NoWorkTyped, MoveTyped
<1>5. CopiesAgree'
  BY <1>3, NoWorkTyped, MoveAgrees
<1> QED BY <1>4, <1>5

(* The server accepts a change of resource r.  The Reconciles of r that    *)
(* are under way do not hold the latest version any more.                  *)
LEMMA PutCRTyped ==
  ASSUME ClusterTyped, CacheTyped, NEW r \in Requests, NEW new \in Coroots \cup {NoCR},
         PutCR(r, new), UNCHANGED <<objs, release, crCache, stale, wake>>
  PROVE  ClusterTyped' /\ CacheTyped'
BY DEF PutCR, ClusterTyped, CacheTyped

LEMMA PutCRAgrees ==
  ASSUME ClusterTyped, CopiesAgree, NEW r \in Requests, NEW new,
         PutCR(r, new), UNCHANGED crCache,
         \A u \in Threads : work'[u].current =>
           /\ work[u].current /\ work[u].request # r
           /\ work'[u].request = work[u].request /\ work'[u].copy = work[u].copy
  PROVE  CopiesAgree'
<1>1. cr' = [cr EXCEPT ![r] = new] /\ crStale' = crStale \cup {r}
  BY DEF PutCR
<1>2. \A q \in Requests : q # r => cr'[q] = cr[q]
  BY <1>1 DEF ClusterTyped
<1>3. \A q \in Requests : q \in crStale' \/ crCache'[q] = cr'[q]
  BY <1>1, <1>2 DEF CopiesAgree
<1>4. ASSUME NEW u \in Threads, work'[u].current
      PROVE  /\ work'[u].request \in Requests
             /\ work'[u].copy # NoCR /\ work'[u].copy = cr'[work'[u].request]
  BY <1>2, <1>4 DEF CopiesAgree
<1> QED BY <1>3, <1>4 DEF CopiesAgree

LEMMA OutdateTyped ==
  ASSUME ThreadsTyped, NEW r \in Requests, work' = Outdate(work, r), UNCHANGED pc
  PROVE  ThreadsTyped'
<1>1. ASSUME NEW u \in Threads
      PROVE  /\ work'[u] \in Works
             /\ work'[u].request = work[u].request
             /\ work'[u].copy = work[u].copy /\ work'[u].at = work[u].at
  BY DEF Outdate, ThreadsTyped, Works
<1>2. work' \in [Threads -> Works]
  BY <1>1 DEF Outdate
<1> QED BY <1>1, <1>2 DEF ThreadsTyped, Plan

LEMMA OutdateCurrent ==
  ASSUME ThreadsTyped, NEW r, NEW u \in Threads, Outdate(work, r)[u].current
  PROVE  /\ work[u].current /\ work[u].request # r
         /\ Outdate(work, r)[u] = work[u]
BY DEF Outdate, ThreadsTyped, Works

-----------------------------------------------------------------------------
(* The users' actions preserve the invariant. *)
LEMMA CreateCRInv ==
  ASSUME Inv, NEW r \in Requests, NEW s \in Specs, CreateCR(r, s)
  PROVE  Inv'
<1> DEFINE new == [uid |-> count'["incarnations"], spec |-> s, status |-> ""]
<1>1. CountTyped' /\ count'["incarnations"] \in Uids
  <2>1. CountTyped' /\ count'["incarnations"] \in 1 .. Limit["incarnations"]
    BY OccursTyped DEF CreateCR, Occasions, Inv, Typed
  <2> QED BY <2>1, LimitTyped DEF Uids, Occasions
<1>2. new \in Coroots
  BY <1>1 DEF Coroots, Statuses
<1>3. PutCR(r, new) /\ cr[r] = NoCR
  BY DEF CreateCR
<1> HIDE DEF new
<1>4. ClusterTyped' /\ CacheTyped'
  BY <1>2, <1>3, PutCRTyped DEF CreateCR, Inv, Typed
<1>5. CopiesAgree'
  <2>1. UNCHANGED <<work, crCache>>
    BY DEF CreateCR, threadVars
  <2>2. \A u \in Threads : work'[u].current =>
           /\ work[u].current /\ work[u].request # r
           /\ work'[u].request = work[u].request /\ work'[u].copy = work[u].copy
    BY <1>3, <2>1 DEF Inv, CopiesAgree
  <2> QED BY <1>3, <2>1, <2>2, PutCRAgrees DEF Inv, Typed
<1>6. UNCHANGED <<userSecret, secretCache, queueVars, memoryVars, threadVars>>
  BY DEF CreateCR
<1> QED
  BY <1>1, <1>4, <1>5, <1>6, QueuesUnchanged, MemoryUnchanged, FlagsUnchanged, ThreadsUnchanged
  DEF Inv, Typed, queueVars, memoryVars, threadVars

(* An edit of the spec and a deletion: the Reconciles under way hold a     *)
(* copy that is not the latest any more.                                   *)
LEMMA ChangeCRInv ==
  ASSUME Inv, NEW r \in Requests, NEW new \in Coroots \cup {NoCR},
         Occurs("edits"), PutCR(r, new), work' = Outdate(work, r),
         UNCHANGED <<objs, userSecret, release, crCache, stale, wake, secretCache,
                     queueVars, memoryVars, pc>>
  PROVE  Inv'
<1>1. CountTyped'
  BY OccursTyped DEF Occasions, Inv, Typed
<1>2. ClusterTyped' /\ CacheTyped'
  BY PutCRTyped DEF Inv, Typed
<1>3. ThreadsTyped'
  BY OutdateTyped DEF Inv, Typed
<1>4. CopiesAgree'
  BY PutCRAgrees, OutdateCurrent DEF Inv, Typed
<1> QED
  BY <1>1, <1>2, <1>3, <1>4, QueuesUnchanged, MemoryUnchanged, FlagsUnchanged
  DEF Inv, Typed, queueVars, memoryVars

LEMMA EditCRInv ==
  ASSUME Inv, NEW r \in Requests, NEW s \in Specs, EditCR(r, s)
  PROVE  Inv'
<1>1. cr[r] \in Coroots
  BY DEF EditCR, Inv, Typed, ClusterTyped
<1>2. [cr[r] EXCEPT !.spec = s] \in Coroots
  BY <1>1 DEF Coroots
<1> QED BY <1>2, ChangeCRInv DEF EditCR

LEMMA DeleteCRInv ==
  ASSUME Inv, NEW r \in Requests, DeleteCR(r)
  PROVE  Inv'
BY ChangeCRInv DEF DeleteCR

LEMMA ToggleSecretInv ==
  ASSUME Inv, ToggleSecret
  PROVE  Inv'
<1>1. CountTyped'
  BY OccursTyped DEF ToggleSecret, Occasions, Inv, Typed
<1>2. FlagsTyped'
  BY DEF ToggleSecret, Inv, Typed, FlagsTyped, cacheVars, memoryVars
<1> QED
  BY <1>1, <1>2, ClusterUnchanged, CacheUnchanged, QueuesUnchanged, MemoryUnchanged,
     ThreadsUnchanged, CopiesUnchanged
  DEF ToggleSecret, Inv, Typed, cacheVars, queueVars, memoryVars, threadVars

LEMMA DeleteObjectInv ==
  ASSUME Inv, NEW o \in Objects, DeleteObject(o)
  PROVE  Inv'
<1>1. CountTyped'
  BY OccursTyped DEF DeleteObject, Occasions, Inv, Typed
<1>2. ClusterTyped' /\ CacheTyped'
  BY PutTyped DEF DeleteObject, Inv, Typed
<1> QED
  BY <1>1, <1>2, QueuesUnchanged, MemoryUnchanged, FlagsUnchanged, ThreadsUnchanged,
     CopiesUnchanged
  DEF DeleteObject, Inv, Typed, queueVars, memoryVars, threadVars

LEMMA NewReleaseInv ==
  ASSUME Inv, NewRelease
  PROVE  Inv'
<1>1. CountTyped' /\ count'["releases"] \in Images
  BY OccursTyped, LimitTyped DEF NewRelease, Occasions, Images, Inv, Typed
<1>2. ClusterTyped'
  BY <1>1 DEF NewRelease, Inv, Typed, ClusterTyped
<1> QED
  BY <1>1, <1>2, CacheUnchanged, QueuesUnchanged, MemoryUnchanged, FlagsUnchanged,
     ThreadsUnchanged, CopiesUnchanged
  DEF NewRelease, Inv, Typed, cacheVars, queueVars, memoryVars, threadVars

-----------------------------------------------------------------------------
(* Those of Kubernetes and the caches do. *)
LEMMA CollectInv ==
  ASSUME Inv, NEW o \in Objects, Collect(o)
  PROVE  Inv'
<1>1. ClusterTyped' /\ CacheTyped'
  BY PutTyped DEF Collect, Inv, Typed
<1> QED
  BY <1>1, QueuesUnchanged, MemoryUnchanged, FlagsUnchanged, ThreadsUnchanged,
     CountUnchanged, CopiesUnchanged
  DEF Collect, Inv, Typed, queueVars, memoryVars, threadVars

LEMMA SyncCRInv ==
  ASSUME Inv, NEW r \in Requests, SyncCR(r)
  PROVE  Inv'
<1>1. CacheTyped'
  BY DEF SyncCR, Inv, Typed, CacheTyped, ClusterTyped, clusterVars
<1>2. QueuesTyped'
  BY DEF SyncCR, Inv, Typed, QueuesTyped
<1>3. CopiesAgree'
  <2>1. \A q \in Requests : q \in crStale' \/ crCache'[q] = cr'[q]
    BY DEF SyncCR, Inv, Typed, CopiesAgree, CacheTyped, clusterVars
  <2> QED BY <2>1 DEF SyncCR, Inv, CopiesAgree, clusterVars, threadVars
<1> QED
  BY <1>1, <1>2, <1>3, ClusterUnchanged, MemoryUnchanged, FlagsUnchanged,
     ThreadsUnchanged, CountUnchanged
  DEF SyncCR, Inv, Typed, clusterVars, memoryVars, threadVars

LEMMA SyncObjectInv ==
  ASSUME Inv, NEW o \in Objects, SyncObject(o)
  PROVE  Inv'
<1>1. CacheTyped'
  BY DEF SyncObject, Inv, Typed, CacheTyped
<1>2. QueuesTyped'
  BY DEF SyncObject, Inv, Typed, QueuesTyped, CacheTyped
<1> QED
  BY <1>1, <1>2, ClusterUnchanged, MemoryUnchanged, FlagsUnchanged,
     ThreadsUnchanged, CountUnchanged, CopiesUnchanged
  DEF SyncObject, Inv, Typed, clusterVars, memoryVars, threadVars

LEMMA SyncSecretInv ==
  ASSUME Inv, SyncSecret
  PROVE  Inv'
<1>1. FlagsTyped'
  BY DEF SyncSecret, Inv, Typed, FlagsTyped, clusterVars, memoryVars
<1> QED
  BY <1>1, ClusterUnchanged, CacheUnchanged, QueuesUnchanged, MemoryUnchanged,
     ThreadsUnchanged, CountUnchanged, CopiesUnchanged
  DEF SyncSecret, Inv, Typed, clusterVars, queueVars, memoryVars, threadVars

LEMMA DelayOverInv ==
  ASSUME Inv, NEW r \in Requests, DelayOver(r)
  PROVE  Inv'
<1>1. QueuesTyped'
  BY DEF DelayOver, Inv, Typed, QueuesTyped
<1> QED
  BY <1>1, ClusterUnchanged, CacheUnchanged, MemoryUnchanged, FlagsUnchanged,
     ThreadsUnchanged, CountUnchanged, CopiesUnchanged
  DEF DelayOver, Inv, Typed, clusterVars, cacheVars, memoryVars, threadVars

-----------------------------------------------------------------------------
(* Those of a Reconcile do. *)
LEMMA TakeRequestTyped ==
  ASSUME Inv, NEW t \in Threads, NEW r \in Requests, TakeRequest(t, r)
  PROVE  queue' \subseteq Requests /\ toVisit' \subseteq Requests
BY DEF TakeRequest, Inv, Typed, QueuesTyped, MemoryTyped

LEMMA BeginInv ==
  ASSUME Inv, NEW t \in Threads, NEW r \in Requests, Begin(t, r)
  PROVE  Inv'
<1>0. PICK current \in BOOLEAN : current <=> crCache[r] # NoCR /\ r \notin crStale
  OBVIOUS
<1> DEFINE w == [NoWork EXCEPT !.request = r, !.copy = crCache[r], !.current = current]
<1>1. pc' = [pc EXCEPT ![t] = Branch(r)] /\ work' = [work EXCEPT ![t] = w]
  <2>1. (crCache[r] # NoCR /\ r \notin crStale) = current
    BY <1>0
  <2> QED BY <2>1 DEF Begin
<1>2. /\ w.request = r /\ w.copy = crCache[r]
      /\ w.current => crCache[r] # NoCR /\ r \notin crStale
  BY <1>0 DEF NoWork
<1>3. w \in Works
  <2>1. crCache[r] \in Coroots \cup {NoCR}
    BY DEF Inv, Typed, CacheTyped
  <2> QED BY <1>0, <2>1, NoWorkTyped DEF Works
<1> HIDE DEF w
<1>4. /\ Branch(r) \in {"unregister", "register"}
      /\ Branch(r) = "register" => w.copy \in Coroots
  BY <1>2 DEF Branch, Inv, Typed, CacheTyped
<1>5. ThreadsTyped'
  <2>1. Branch(r) \in Locations
    BY <1>4 DEF Locations
  <2> QED BY <1>1, <1>2, <1>3, <1>4, <2>1, MoveTyped DEF Inv, Typed
<1>6. UNCHANGED <<cr, crCache, crStale>>
  BY DEF Begin, clusterVars, cacheVars
<1>7. CopiesAgree'
  <2>1. w.current => w.request \in Requests /\ w.copy # NoCR /\ w.copy = cr[w.request]
    BY <1>2 DEF Inv, CopiesAgree
  <2> QED BY <1>1, <1>6, <2>1, MoveAgrees DEF Inv, Typed
<1>8. QueuesTyped' /\ MemoryTyped'
  BY TakeRequestTyped DEF Begin, Inv, Typed, QueuesTyped, MemoryTyped
<1> QED
  BY <1>5, <1>7, <1>8, ClusterUnchanged, CacheUnchanged, FlagsUnchanged, CountUnchanged
  DEF Begin, Inv, Typed, clusterVars, cacheVars

LEMMA BeginFailsInv ==
  ASSUME Inv, NEW t \in Threads, NEW r \in Requests, BeginFails(t, r)
  PROVE  Inv'
<1>1. CountTyped'
  BY OccursTyped DEF BeginFails, Occasions, Inv, Typed
<1>2. QueuesTyped' /\ MemoryTyped'
  BY TakeRequestTyped DEF BeginFails, Inv, Typed, QueuesTyped, MemoryTyped
<1>3. ThreadsTyped'
  <2>1. PICK l \in {"visit", "idle"} : pc' = [pc EXCEPT ![t] = l]
    BY DEF BeginFails
  <2>2. UNCHANGED work
    BY DEF BeginFails
  <2> QED BY <2>1, <2>2 DEF Inv, Typed, ThreadsTyped, Locations, Plan
<1>4. CopiesAgree'
  BY CopiesUnchanged DEF BeginFails, Inv, clusterVars, cacheVars
<1> QED
  BY <1>1, <1>2, <1>3, <1>4, ClusterUnchanged, CacheUnchanged, FlagsUnchanged
  DEF BeginFails, Inv, Typed, clusterVars, cacheVars

LEMMA UnregisterInv ==
  ASSUME Inv, NEW t \in Threads, Unregister(t)
  PROVE  Inv'
<1>1. UNCHANGED <<cr, crCache, crStale>>
  BY DEF Unregister, clusterVars, cacheVars
<1>2. MemoryTyped'
  BY DEF Unregister, Inv, Typed, MemoryTyped
<1>3. ThreadsTyped' /\ CopiesAgree'
  <2>1. CASE Return(t)
    BY <1>1, <2>1, ReturnTyped DEF Inv, Typed
  <2>2. CASE pc' = [pc EXCEPT ![t] = "deleteBinding"] /\ UNCHANGED work
    <3>1. work[t].request \in Requests
      BY DEF Unregister, Inv, Typed, ThreadsTyped
    <3>2. ThreadsTyped'
      BY <2>2, <3>1 DEF Inv, Typed, ThreadsTyped, Locations, Plan
    <3> QED BY <1>1, <2>2, <3>2, CopiesUnchanged DEF Inv
  <2> QED BY <2>1, <2>2 DEF Unregister
<1> QED
  BY <1>2, <1>3, ClusterUnchanged, CacheUnchanged, QueuesUnchanged, FlagsUnchanged,
     CountUnchanged
  DEF Unregister, Inv, Typed, clusterVars, cacheVars, queueVars

LEMMA DeleteBindingInv ==
  ASSUME Inv, NEW t \in Threads, DeleteBinding(t)
  PROVE  Inv'
<1>1. ClusterTyped' /\ CacheTyped' /\ CountTyped'
  BY TryDeleteTyped DEF DeleteBinding, Inv, Typed
<1>2. ThreadsTyped'
  <2>1. pc[t] = "deleteBinding" /\ pc' = [pc EXCEPT ![t] = "deleteRole"] /\ UNCHANGED work
    BY DEF DeleteBinding
  <2>2. work[t].request \in Requests
    BY <2>1 DEF Inv, Typed, ThreadsTyped
  <2> QED BY <2>1, <2>2 DEF Inv, Typed, ThreadsTyped, Locations, Plan
<1> QED
  BY <1>1, <1>2, QueuesUnchanged, MemoryUnchanged, FlagsUnchanged, CopiesUnchanged
  DEF DeleteBinding, Inv, Typed, queueVars, memoryVars

LEMMA DeleteRoleInv ==
  ASSUME Inv, NEW t \in Threads, DeleteRole(t)
  PROVE  Inv'
<1>1. ClusterTyped' /\ CacheTyped' /\ CountTyped'
  BY TryDeleteTyped DEF DeleteRole, Inv, Typed
<1>2. ThreadsTyped' /\ CopiesAgree'
  BY ReturnTyped DEF DeleteRole, Inv, Typed
<1>3. MemoryTyped'
  BY DEF DeleteRole, Inv, Typed, MemoryTyped
<1> QED
  BY <1>1, <1>2, <1>3, QueuesUnchanged, FlagsUnchanged
  DEF DeleteRole, Inv, Typed, queueVars

LEMMA RegisterInv ==
  ASSUME Inv, NEW t \in Threads, Register(t)
  PROVE  Inv'
<1>1. work[t].request \in Requests /\ work[t].copy \in Coroots
  BY DEF Register, Inv, Typed, ThreadsTyped
<1>2. UNCHANGED <<cr, crCache, crStale>>
  BY DEF Register, clusterVars, cacheVars
<1>3. PICK found \in BOOLEAN : GoTo(t, 1, found)
  BY Zenon DEF Register
<1>5. ThreadsTyped' /\ CopiesAgree'
  BY <1>1, <1>2, <1>3, GoToTyped DEF Inv, Typed
<1>4. MemoryTyped'
  BY <1>1 DEF Register, Inv, Typed, MemoryTyped
<1> QED
  BY <1>4, <1>5, ClusterUnchanged, CacheUnchanged, QueuesUnchanged, FlagsUnchanged,
     CountUnchanged
  DEF Register, Inv, Typed, clusterVars, cacheVars, queueVars

LEMMA CreateOrUpdateInv ==
  ASSUME Inv, NEW t \in Threads, CreateOrUpdate(t)
  PROVE  Inv'
<1> DEFINE op == Plan(t)[work[t].at]
           o == op.object
<1>1. pc[t] = "run" /\ op.verb \in {"apply", "ensure"}
  BY DEF CreateOrUpdate, Runs
<1>2. op \in Ops /\ work[t].request \in Requests /\ work[t].copy \in Coroots
  BY <1>1, NextOp DEF Inv, Typed
<1>3. o \in Objects
  BY <1>1, <1>2 DEF Objects
<1>4. ContentAfter(objs[o], op, work[t]) \in Contents
  <2>1. objs[o] \in Contents \cup {Absent} /\ work[t] \in Works
    BY <1>3 DEF Inv, Typed, ClusterTyped, ThreadsTyped
  <2> QED BY <1>2, <2>1, ContentTyped
<1>5. UNCHANGED <<cr, release, crCache, crStale>>
  BY DEF CreateOrUpdate
<1>6. ClusterTyped' /\ CacheTyped' /\ CountTyped'
  <2>1. CASE Write(o, ContentAfter(objs[o], op, work[t])) /\ UNCHANGED count
    BY <1>3, <1>4, <1>5, <2>1, WriteTyped, CountUnchanged DEF Inv, Typed
  <2>2. CASE UNCHANGED <<objs, stale, wake, count>>
    BY <1>5, <2>2, ClusterUnchanged, CacheUnchanged, CountUnchanged DEF Inv, Typed
  <2>3. CASE Occurs("failures") /\ UNCHANGED <<objs, stale, wake>>
    BY <1>5, <2>3, ClusterUnchanged, CacheUnchanged, OccursTyped DEF Inv, Typed, Occasions
  <2> QED BY <2>1, <2>2, <2>3 DEF CreateOrUpdate
<1>7. ThreadsTyped' /\ CopiesAgree'
  <2>1. work[t].found \in BOOLEAN
    BY DEF Inv, Typed, ThreadsTyped, Works
  <2> QED BY <1>1, <1>5, <2>1, AdvanceTyped DEF CreateOrUpdate, Inv, Typed
<1> QED
  BY <1>6, <1>7, QueuesUnchanged, MemoryUnchanged, FlagsUnchanged
  DEF CreateOrUpdate, Inv, Typed, queueVars, memoryVars

LEMMA DeletePlannedInv ==
  ASSUME Inv, NEW t \in Threads, DeletePlanned(t)
  PROVE  Inv'
<1>1. pc[t] = "run"
  BY DEF DeletePlanned, Runs
<1>2. UNCHANGED <<cr, release, crCache, crStale>>
  BY DEF DeletePlanned
<1>3. ClusterTyped' /\ CacheTyped' /\ CountTyped'
  <2>1. CASE UNCHANGED <<objs, stale, wake, count>>
    BY <1>2, <2>1, ClusterUnchanged, CacheUnchanged, CountUnchanged DEF Inv, Typed
  <2>2. CASE TryDelete(Plan(t)[work[t].at].object)
    BY <1>2, <2>2, TryDeleteTyped DEF Inv, Typed
  <2> QED BY <2>1, <2>2 DEF DeletePlanned
<1>4. ThreadsTyped' /\ CopiesAgree'
  <2>1. work[t].found \in BOOLEAN
    BY DEF Inv, Typed, ThreadsTyped, Works
  <2> QED BY <1>1, <1>2, <2>1, AdvanceTyped DEF DeletePlanned, Inv, Typed
<1> QED
  BY <1>3, <1>4, QueuesUnchanged, MemoryUnchanged, FlagsUnchanged
  DEF DeletePlanned, Inv, Typed, queueVars, memoryVars

LEMMA SetDeploymentDeletedInv ==
  ASSUME Inv, NEW t \in Threads, SetDeploymentDeleted(t)
  PROVE  Inv'
<1>1. pc[t] = "run" /\ UNCHANGED <<cr, crCache, crStale>>
  BY DEF SetDeploymentDeleted, Runs, clusterVars, cacheVars
<1>2. ThreadsTyped' /\ CopiesAgree'
  <2>1. work[t].found \in BOOLEAN
    BY DEF Inv, Typed, ThreadsTyped, Works
  <2> QED BY <1>1, <2>1, AdvanceTyped DEF SetDeploymentDeleted, Inv, Typed
<1>3. FlagsTyped'
  <2>1. deploymentDeleted' \in BOOLEAN
    BY DEF SetDeploymentDeleted
  <2> QED BY <2>1 DEF SetDeploymentDeleted, Inv, Typed, FlagsTyped, clusterVars, cacheVars
<1> QED
  BY <1>2, <1>3, ClusterUnchanged, CacheUnchanged, QueuesUnchanged, MemoryUnchanged,
     CountUnchanged
  DEF SetDeploymentDeleted, Inv, Typed, clusterVars, cacheVars, queueVars

LEMMA ValidateInv ==
  ASSUME Inv, NEW t \in Threads, Validate(t)
  PROVE  Inv'
<1>1. pc[t] = "run" /\ UNCHANGED <<cr, crCache, crStale>>
  BY DEF Validate, Runs, clusterVars, cacheVars
<1>2. PICK found \in BOOLEAN : Advance(t, found)
  BY DEF Validate
<1>3. ThreadsTyped' /\ CopiesAgree'
  BY <1>1, <1>2, AdvanceTyped DEF Inv, Typed
<1> QED
  BY <1>3, ClusterUnchanged, CacheUnchanged, QueuesUnchanged, MemoryUnchanged,
     FlagsUnchanged, CountUnchanged
  DEF Validate, Inv, Typed, clusterVars, cacheVars, queueVars, memoryVars

(* Finish writes a status only into the version Reconcile has read. *)
LEMMA FinishWrites ==
  ASSUME Inv, NEW t \in Threads, pc[t] = "finish", StatusAccepted(work[t])
  PROVE  /\ work[t].request \in Requests
         /\ work[t].copy = cr[work[t].request] /\ work[t].copy \in Coroots
         /\ StatusAfter(work[t]) \in Statuses
<1>1. /\ work[t].request \in Requests
      /\ work[t].copy = cr[work[t].request] /\ work[t].copy \in Coroots
  BY DEF StatusAccepted, Inv, Typed, CopiesAgree, ThreadsTyped
<1>2. work[t].copy.status \in Statuses
  BY <1>1 DEF Coroots
<1> QED BY <1>1, <1>2 DEF StatusAfter, Statuses

LEMMA FinishInv ==
  ASSUME Inv, NEW t \in Threads, Finish(t)
  PROVE  Inv'
<1> DEFINE r == work[t].request
           new == [cr[r] EXCEPT !.status = StatusAfter(work[t])]
<1>1. pc[t] = "finish" /\ r \in Requests
  BY DEF Finish, Inv, Typed, ThreadsTyped
<1>2. UNCHANGED <<objs, userSecret, release, crCache, stale, wake, secretCache,
                  queue, memoryVars>>
  BY DEF Finish
<1>3. QueuesTyped'
  <2>1. Retry(t, work[t]) \subseteq Requests
    BY <1>1 DEF Retry
  <2> QED BY <2>1 DEF Finish, Inv, Typed, QueuesTyped
<1>4. ASSUME NEW w \in Works, ~w.current, NEW works,
             works \in [Threads -> Works], work' = [works EXCEPT ![t] = w],
             \A u \in Threads : /\ works[u].request = work[u].request
                               /\ works[u].copy = work[u].copy
                               /\ works[u].at = work[u].at
      PROVE  ThreadsTyped'
  <2>1. PICK l \in {"visit", "idle"} : pc' = [pc EXCEPT ![t] = l]
    BY RestTyped DEF Finish
  <2>2. pc' \in [Threads -> Locations] /\ work' \in [Threads -> Works]
    BY <1>4, <2>1 DEF Inv, Typed, ThreadsTyped, Locations
  <2>3. \A u \in Threads : u # t =>
          /\ pc'[u] = pc[u]
          /\ work'[u].request = work[u].request
          /\ work'[u].copy = work[u].copy
          /\ work'[u].at = work[u].at
    BY <1>4, <2>1 DEF Inv, Typed, ThreadsTyped
  <2>4. pc'[t] \in {"visit", "idle"}
    BY <2>1 DEF Inv, Typed, ThreadsTyped
  <2> QED BY <2>2, <2>3, <2>4 DEF Inv, Typed, ThreadsTyped, Plan
<1>5. CASE /\ StatusAccepted(work[t]) /\ PutCR(r, new)
           /\ work' = [Outdate(work, r) EXCEPT ![t] = NoWork]
           /\ UNCHANGED count
  <2>1. new \in Coroots
    BY <1>1, <1>5, FinishWrites DEF Coroots
  <2> HIDE DEF new
  <2>2. ClusterTyped' /\ CacheTyped'
    BY <1>1, <1>2, <1>5, <2>1, PutCRTyped DEF Inv, Typed
  <2>3. ASSUME NEW u \in Threads
        PROVE  /\ Outdate(work, r)[u] \in Works
               /\ Outdate(work, r)[u].request = work[u].request
               /\ Outdate(work, r)[u].copy = work[u].copy
               /\ Outdate(work, r)[u].at = work[u].at
    BY DEF Outdate, Inv, Typed, ThreadsTyped, Works
  <2>4. Outdate(work, r) \in [Threads -> Works]
    BY <2>3 DEF Outdate
  <2>5. ThreadsTyped'
    BY <1>4, <1>5, <2>3, <2>4, NoWorkTyped
  <2>6. \A u \in Threads : work'[u].current =>
          u # t /\ work'[u] = Outdate(work, r)[u]
    BY <1>5, <2>4, NoWorkTyped
  <2>7. CopiesAgree'
    BY <1>1, <1>2, <1>5, <2>6, OutdateCurrent, PutCRAgrees DEF Inv, Typed
  <2> QED
    BY <1>2, <1>3, <1>5, <2>2, <2>5, <2>7, MemoryUnchanged, FlagsUnchanged, CountUnchanged
    DEF Inv, Typed, memoryVars
<1>6. CASE /\ work' = [work EXCEPT ![t] = NoWork]
           /\ UNCHANGED <<cr, crStale>>
           /\ UNCHANGED count \/ Occurs("failures")
  <2>1. CountTyped'
    BY <1>6, CountUnchanged, OccursTyped DEF Inv, Typed, Occasions
  <2>2. ThreadsTyped'
    BY <1>4, <1>6, NoWorkTyped DEF Inv, Typed, ThreadsTyped
  <2>3. CopiesAgree'
    BY <1>2, <1>6, NoWorkTyped, MoveAgrees DEF Inv, Typed
  <2> QED
    BY <1>2, <1>3, <1>6, <2>1, <2>2, <2>3, ClusterUnchanged, CacheUnchanged,
       MemoryUnchanged, FlagsUnchanged
    DEF Inv, Typed, memoryVars
<1> QED BY <1>5, <1>6 DEF Finish

-----------------------------------------------------------------------------
(* The ticker and a restart do. *)
LEMMA TickInv ==
  ASSUME Inv, Tick
  PROVE  Inv'
<1>1. CountTyped' /\ versions' \in Images
  <2>1. CASE versions' = release /\ UNCHANGED count
    BY <2>1, CountUnchanged DEF Inv, Typed, ClusterTyped
  <2>2. CASE versions' = 0 /\ Occurs("failures")
    BY <2>2, OccursTyped, LimitAssumption DEF Inv, Typed, Occasions, Images
  <2> QED BY <2>1, <2>2 DEF Tick
<1>2. MemoryTyped'
  BY <1>1 DEF Tick, Inv, Typed, MemoryTyped
<1>3. ThreadsTyped'
  BY DEF Tick, Inv, Typed, ThreadsTyped, Locations, Plan
<1> QED
  BY <1>1, <1>2, <1>3, ClusterUnchanged, CacheUnchanged, QueuesUnchanged, FlagsUnchanged,
     CopiesUnchanged
  DEF Tick, Inv, Typed, clusterVars, cacheVars, queueVars

LEMMA TakeInstancesInv ==
  ASSUME Inv, TakeInstances
  PROVE  Inv'
<1>1. MemoryTyped'
  BY DEF TakeInstances, Inv, Typed, MemoryTyped
<1>2. ThreadsTyped'
  <2>1. PICK l \in {"visit", "idle"} : pc' = [pc EXCEPT !["ticker"] = l]
    BY DEF TakeInstances
  <2>2. UNCHANGED work
    BY DEF TakeInstances
  <2> QED BY <2>1, <2>2 DEF Inv, Typed, ThreadsTyped, Locations, Plan
<1> QED
  BY <1>1, <1>2, ClusterUnchanged, CacheUnchanged, QueuesUnchanged, FlagsUnchanged,
     CountUnchanged, CopiesUnchanged
  DEF TakeInstances, Inv, Typed, clusterVars, cacheVars, queueVars

LEMMA RestartInv ==
  ASSUME Inv, Restart
  PROVE  Inv'
<1>1. UNCHANGED <<cr, objs, userSecret, release>>
  BY DEF Restart, clusterVars
<1>2. CountTyped'
  BY OccursTyped DEF Restart, Inv, Typed, Occasions
<1>3. CacheTyped'
  BY <1>1 DEF Restart, Inv, Typed, ClusterTyped, CacheTyped
<1>4. QueuesTyped'
  <2>1. \A o \in Objects : OwnersOf(objs[o]) \subseteq Requests
    BY OwnersOfTyped DEF Inv, Typed, ClusterTyped
  <2>2. queue' \subseteq Requests
    BY <2>1 DEF Restart
  <2>3. delayed' \subseteq Requests
    BY DEF Restart
  <2> QED BY <2>2, <2>3 DEF QueuesTyped
<1>5. MemoryTyped'
  BY DEF Restart, Inv, Typed, ClusterTyped, MemoryTyped
<1>6. FlagsTyped'
  <2>1. deploymentDeleted' \in BOOLEAN /\ secretCache' = userSecret
    BY DEF Restart
  <2> QED BY <1>1, <2>1 DEF Inv, Typed, FlagsTyped
<1>7. pc' = [t \in Threads |-> "idle"] /\ work' = [t \in Threads |-> NoWork]
  BY DEF Restart
<1>8. ThreadsTyped'
  BY <1>7, NoWorkTyped DEF ThreadsTyped, Locations
<1>9. CopiesAgree'
  BY <1>1, <1>7, NoWorkTyped DEF Restart, CopiesAgree
<1> QED
  BY <1>1, <1>2, <1>3, <1>4, <1>5, <1>6, <1>8, <1>9, ClusterUnchanged DEF Inv, Typed

-----------------------------------------------------------------------------
LEMMA InitInv == Init => Inv
<1> SUFFICES ASSUME Init PROVE Inv
  OBVIOUS
<1>1. /\ 0 \in Images /\ 1 \in Images /\ 1 \in Uids
  BY LimitAssumption DEF Images, Uids, Occasions
<1>2. cr \in [Requests -> Coroots \cup {NoCR}]
  BY <1>1 DEF Init, Coroots, Statuses
<1>3. objs \in [Objects -> Contents \cup {Absent}]
  <2>1. PICK legacy \in SUBSET {r \in Requests : cr[r] # NoCR} :
       objs = [o \in Objects |->
         IF \E r \in legacy : o = LegacyDeployment(r)
         THEN [value |-> <<>>, image |-> 0,
               owner |-> [request |-> CHOOSE r \in legacy : o = LegacyDeployment(r), uid |-> 1]]
         ELSE Absent]
    BY DEF Init
  <2>2. ASSUME NEW o \in Objects, \E r \in legacy : o = LegacyDeployment(r)
        PROVE  objs[o] \in Contents
    <3> DEFINE owner == CHOOSE r \in legacy : o = LegacyDeployment(r)
    <3>1. owner \in Requests
      BY <2>2
    <3>2. objs[o] = [value |-> <<>>, image |-> 0, owner |-> [request |-> owner, uid |-> 1]]
      BY <2>1, <2>2
    <3> HIDE DEF owner
    <3> QED BY <1>1, <3>1, <3>2 DEF Contents, Values, Owners
  <2>3. ASSUME NEW o \in Objects, ~ \E r \in legacy : o = LegacyDeployment(r)
        PROVE  objs[o] = Absent
    BY <2>1, <2>3
  <2> QED BY <2>1, <2>2, <2>3
<1>4. ClusterTyped
  BY <1>1, <1>2, <1>3 DEF Init, ClusterTyped
<1>5. CacheTyped
  BY <1>2 DEF Init, CacheTyped
<1>6. QueuesTyped
  BY DEF Init, QueuesTyped
<1>7. MemoryTyped
  BY <1>1 DEF Init, MemoryTyped
<1>8. FlagsTyped
  BY DEF Init, FlagsTyped
<1>9. ThreadsTyped
  BY NoWorkTyped DEF Init, ThreadsTyped, Locations
<1>10. CountTyped
  BY DEF Init, CountTyped
<1>11. CopiesAgree
  BY NoWorkTyped DEF Init, CopiesAgree
<1> QED
  BY <1>4, <1>5, <1>6, <1>7, <1>8, <1>9, <1>10, <1>11 DEF Inv, Typed

LEMMA NextInv == Inv /\ [Next]_vars => Inv'
<1> SUFFICES ASSUME Inv, [Next]_vars PROVE Inv'
  OBVIOUS
<1>1. CASE User
  BY <1>1, CreateCRInv, EditCRInv, DeleteCRInv, ToggleSecretInv, DeleteObjectInv, NewReleaseInv
  DEF User
<1>2. CASE Kubernetes
  BY <1>2, CollectInv, SyncCRInv, SyncObjectInv, SyncSecretInv, DelayOverInv DEF Kubernetes
<1>3. CASE Process
  <2>1. ASSUME NEW t \in Threads, NEW r \in Requests, Begin(t, r) \/ BeginFails(t, r)
        PROVE  Inv'
    BY <2>1, BeginInv, BeginFailsInv
  <2>2. ASSUME NEW t \in Threads, Acquire(t) PROVE Inv'
    BY <2>2, RegisterInv, UnregisterInv, TakeInstancesInv DEF Acquire
  <2>3. ASSUME NEW t \in Threads, Proceed(t) PROVE Inv'
    BY <2>3, DeleteBindingInv, DeleteRoleInv, CreateOrUpdateInv, DeletePlannedInv,
       SetDeploymentDeletedInv, ValidateInv, FinishInv DEF Proceed
  <2> QED BY <1>3, <2>1, <2>2, <2>3, TickInv DEF Process
<1>4. CASE Restart
  BY <1>4, RestartInv
<1>5. CASE UNCHANGED vars
  BY <1>5, ClusterUnchanged, CacheUnchanged, QueuesUnchanged, MemoryUnchanged, FlagsUnchanged,
     ThreadsUnchanged, CountUnchanged, CopiesUnchanged
  DEF vars, Inv, Typed, clusterVars, cacheVars, queueVars, memoryVars, threadVars
<1> QED BY <1>1, <1>2, <1>3, <1>4, <1>5 DEF Next

LEMMA InvHolds == Spec => []Inv
BY InitInv, NextInv, PTL DEF Spec

(* The state of the cluster, the caches, the queue and the process is      *)
(* well-formed: in particular a goroutine that runs its plan has a copy of *)
(* an existing resource and stands at an operation of that plan.           *)
THEOREM TypeCorrect == Spec => []TypeOK
<1>1. Inv => TypeOK
  BY DEF Inv, Typed, ClusterTyped, CacheTyped, QueuesTyped, MemoryTyped, FlagsTyped,
         ThreadsTyped, CountTyped, TypeOK, Locations
<1> QED BY <1>1, InvHolds, PTL

-----------------------------------------------------------------------------
Deleting == {"deleteBinding", "deleteRole"}

LEMMA ExclusiveKept ==
  ASSUME DeletionIsExclusive, UNCHANGED <<instances, instancesLock>>,
         \A u \in Threads : pc'[u] \in Deleting => pc[u] \in Deleting
  PROVE  DeletionIsExclusive'
BY DEF DeletionIsExclusive, Deleting

(* A goroutine goes to a location outside of the critical section. *)
LEMMA ExclusiveMove ==
  ASSUME Inv, DeletionIsExclusive, UNCHANGED <<instances, instancesLock>>,
         NEW t \in Threads, NEW l, l \notin Deleting, pc' = [pc EXCEPT ![t] = l]
  PROVE  DeletionIsExclusive'
<1>1. \A u \in Threads : pc'[u] \in Deleting => pc[u] \in Deleting
  BY DEF Inv, Typed, ThreadsTyped
<1> QED BY <1>1, ExclusiveKept

(* Only the lock's owner deletes, so when the lock is free nobody does. *)
LEMMA FreeMeansNobody ==
  ASSUME DeletionIsExclusive, instancesLock = "free"
  PROVE  \A u \in Threads : pc[u] \notin Deleting
BY DEF DeletionIsExclusive, Deleting, Threads

LEMMA ExclusiveProceed ==
  ASSUME Inv, DeletionIsExclusive, NEW t \in Threads, Proceed(t)
  PROVE  DeletionIsExclusive'
<1>1. CASE DeleteBinding(t)
  <2>1. pc[t] \in Deleting /\ pc' = [pc EXCEPT ![t] = "deleteRole"]
    BY <1>1 DEF DeleteBinding, Deleting
  <2>2. \A u \in Threads : pc'[u] \in Deleting => pc[u] \in Deleting
    BY <2>1 DEF Inv, Typed, ThreadsTyped
  <2> QED BY <1>1, <2>2, ExclusiveKept DEF DeleteBinding, memoryVars
<1>2. CASE DeleteRole(t)
  <2>1. \A u \in Threads : u # t => pc[u] \notin Deleting
    BY <1>2 DEF DeleteRole, DeletionIsExclusive, Deleting
  <2>2. Rest(t) \notin Deleting
    BY RestTyped DEF Deleting
  <2>3. \A u \in Threads : pc'[u] \notin Deleting
    BY <1>2, <2>1, <2>2 DEF DeleteRole, Return, Inv, Typed, ThreadsTyped
  <2> QED BY <2>3 DEF DeletionIsExclusive, Deleting
<1>3. ASSUME NEW found, Advance(t, found), UNCHANGED <<instances, instancesLock>>
      PROVE  DeletionIsExclusive'
  <2>1. PICK l \in {"run", "finish"} : pc' = [pc EXCEPT ![t] = l]
    BY <1>3 DEF Advance, GoTo
  <2> QED BY <1>3, <2>1, ExclusiveMove DEF Deleting
<1>4. CASE CreateOrUpdate(t)
  BY <1>3, <1>4 DEF CreateOrUpdate, memoryVars
<1>5. CASE DeletePlanned(t)
  BY <1>3, <1>5 DEF DeletePlanned, memoryVars
<1>6. CASE SetDeploymentDeleted(t)
  BY <1>3, <1>6 DEF SetDeploymentDeleted
<1>7. CASE Validate(t)
  <2>1. PICK found : Advance(t, found)
    BY <1>7 DEF Validate
  <2> QED BY <1>3, <1>7, <2>1 DEF Validate, memoryVars
<1>8. CASE Finish(t)
  <2>1. Rest(t) \notin Deleting
    BY RestTyped DEF Deleting
  <2> QED BY <1>8, <2>1, ExclusiveMove DEF Finish, memoryVars
<1> QED BY <1>1, <1>2, <1>4, <1>5, <1>6, <1>7, <1>8 DEF Proceed

LEMMA ExclusiveAcquire ==
  ASSUME Inv, DeletionIsExclusive, NEW t \in Threads, Acquire(t)
  PROVE  DeletionIsExclusive'
<1>1. \A u \in Threads : pc[u] \notin Deleting
  BY FreeMeansNobody DEF Acquire, Register, Unregister, TakeInstances
<1>2. CASE Register(t)
  <2>1. PICK l \in {"run", "finish"} : pc' = [pc EXCEPT ![t] = l]
    BY <1>2 DEF Register, GoTo
  <2>2. \A u \in Threads : pc'[u] \notin Deleting
    BY <1>1, <2>1 DEF Inv, Typed, ThreadsTyped, Deleting
  <2> QED BY <2>2 DEF DeletionIsExclusive, Deleting
<1>3. CASE Unregister(t) /\ instances' = {}
  <2>1. instancesLock' = t /\ pc' = [pc EXCEPT ![t] = "deleteBinding"]
    BY <1>3 DEF Unregister
  <2>2. \A u \in Threads : u # t => pc'[u] \notin Deleting
    BY <1>1, <2>1 DEF Inv, Typed, ThreadsTyped
  <2> QED BY <1>3, <2>1, <2>2 DEF DeletionIsExclusive, Deleting
<1>4. CASE Unregister(t) /\ instances' # {}
  <2>1. pc' = [pc EXCEPT ![t] = Rest(t)]
    BY <1>4 DEF Unregister, Return
  <2>2. \A u \in Threads : pc'[u] \notin Deleting
    BY <1>1, <2>1, RestTyped DEF Inv, Typed, ThreadsTyped, Deleting
  <2> QED BY <2>2 DEF DeletionIsExclusive, Deleting
<1>5. CASE TakeInstances
  <2>1. PICK l \in {"visit", "idle"} : pc' = [pc EXCEPT !["ticker"] = l]
    BY <1>5 DEF TakeInstances
  <2>2. "ticker" \in Threads
    BY DEF Threads
  <2> QED BY <1>5, <2>1, <2>2, ExclusiveMove DEF TakeInstances, Deleting
<1> QED BY <1>2, <1>3, <1>4, <1>5 DEF Acquire

LEMMA ExclusiveNext == Inv /\ DeletionIsExclusive /\ [Next]_vars => DeletionIsExclusive'
<1> SUFFICES ASSUME Inv, DeletionIsExclusive, [Next]_vars PROVE DeletionIsExclusive'
  OBVIOUS
<1>1. CASE UNCHANGED <<instances, instancesLock, pc>>
  BY <1>1, ExclusiveKept
<1>2. CASE User \/ Kubernetes
  BY <1>1, <1>2 DEF User, Kubernetes, DeleteCR, CreateCR, EditCR, DeleteObject, ToggleSecret,
     NewRelease, Collect, SyncObject, SyncCR, DelayOver, SyncSecret, memoryVars, threadVars
<1>3. CASE Process
  <2>1. ASSUME NEW t \in Threads, NEW r \in Requests, Begin(t, r) PROVE DeletionIsExclusive'
    <3>1. Branch(r) \notin Deleting
      BY DEF Branch, Deleting
    <3> QED BY <2>1, <3>1, ExclusiveMove DEF Begin
  <2>2. ASSUME NEW t \in Threads, NEW r \in Requests, BeginFails(t, r) PROVE DeletionIsExclusive'
    <3>1. PICK l \in {"visit", "idle"} : pc' = [pc EXCEPT ![t] = l]
      BY <2>2 DEF BeginFails
    <3> QED BY <2>2, <3>1, ExclusiveMove DEF BeginFails, Deleting
  <2>3. CASE Tick
    <3>1. "ticker" \in Threads /\ "snapshot" \notin Deleting
      BY DEF Threads, Deleting
    <3> QED BY <2>3, <3>1, ExclusiveMove DEF Tick
  <2> QED BY <1>3, <2>1, <2>2, <2>3, ExclusiveAcquire, ExclusiveProceed DEF Process
<1>4. CASE Restart
  BY <1>4 DEF Restart, DeletionIsExclusive
<1>5. CASE UNCHANGED vars
  BY <1>1, <1>5 DEF vars, memoryVars, threadVars
<1> QED BY <1>2, <1>3, <1>4, <1>5 DEF Next

(* A goroutine that deletes the cluster-wide objects holds the lock, and   *)
(* no resource registers before it has finished.                           *)
THEOREM DeletionsExclude == Spec => []DeletionIsExclusive
<1>1. Init => DeletionIsExclusive
  BY DEF Init, DeletionIsExclusive
<1> QED BY <1>1, InvHolds, ExclusiveNext, PTL DEF Spec

-----------------------------------------------------------------------------
(* What StatusDescribesSpec says of one step and one resource. *)
StatusIsVerdict(r) ==
  cr[r] # NoCR /\ cr'[r] # NoCR
  /\ cr'[r].uid = cr[r].uid /\ cr'[r].status # cr[r].status
    => /\ cr'[r].spec = cr[r].spec
       /\ ~cr[r].spec.agentsOnly
       /\ \E found \in BOOLEAN :
            cr'[r].status = IF Misconfigured(cr[r].spec, found)
                            THEN "Misconfigured" ELSE "OK"

LEMMA VerdictOfFinish ==
  ASSUME Inv, NEW t \in Threads, Finish(t), NEW r \in Requests
  PROVE  StatusIsVerdict(r)
<1> DEFINE w == work[t]
           q == work[t].request
<1>1. CASE UNCHANGED cr
  BY <1>1 DEF StatusIsVerdict
<1>2. CASE StatusAccepted(w) /\ PutCR(q, [cr[q] EXCEPT !.status = StatusAfter(w)])
  <2>1. /\ q \in Requests /\ w.copy = cr[q] /\ cr[q] \in Coroots
        /\ w.found \in BOOLEAN
    BY <1>2, FinishWrites DEF Finish, Inv, Typed, ThreadsTyped, Works
  <2>2. cr' = [cr EXCEPT ![q] = [cr[q] EXCEPT !.status = StatusAfter(w)]]
    BY <1>2 DEF PutCR
  <2>3. CASE r # q
    BY <2>2, <2>3 DEF StatusIsVerdict, Inv, Typed, ClusterTyped
  <2>4. CASE r = q
    <3>1. cr'[r].spec = cr[r].spec /\ cr'[r].status = StatusAfter(w)
      BY <2>1, <2>2, <2>4 DEF Inv, Typed, ClusterTyped, Coroots
    <3>2. CASE cr[r].spec.agentsOnly
      BY <2>1, <2>4, <3>1, <3>2 DEF StatusIsVerdict, StatusAfter
    <3>3. CASE ~cr[r].spec.agentsOnly
      <4>1. StatusAfter(w) = IF Misconfigured(cr[r].spec, w.found) THEN "Misconfigured" ELSE "OK"
        BY <2>1, <2>4, <3>3 DEF StatusAfter
      <4> HIDE DEF w
      <4> QED BY <2>1, <3>1, <3>3, <4>1 DEF StatusIsVerdict
    <3> QED BY <3>2, <3>3
  <2> QED BY <2>3, <2>4
<1> QED BY <1>1, <1>2 DEF Finish

LEMMA VerdictOfNext ==
  ASSUME Inv, [Next]_vars, NEW r \in Requests
  PROVE  StatusIsVerdict(r)
<1>1. CASE UNCHANGED cr
  BY <1>1 DEF StatusIsVerdict
<1>2. ASSUME NEW q \in Requests, NEW new, PutCR(q, new),
             cr[q] = NoCR \/ new = NoCR \/ new.status = cr[q].status
      PROVE  StatusIsVerdict(r)
  BY <1>2 DEF PutCR, StatusIsVerdict, Inv, Typed, ClusterTyped
<1>3. CASE User
  <2>1. ASSUME NEW q \in Requests, NEW s \in Specs, EditCR(q, s) PROVE StatusIsVerdict(r)
    <3>1. cr[q] \in Coroots
      BY <2>1 DEF EditCR, Inv, Typed, ClusterTyped
    <3>2. [cr[q] EXCEPT !.spec = s].status = cr[q].status
      BY <3>1 DEF Coroots
    <3> QED BY <1>2, <2>1, <3>2 DEF EditCR
  <2> QED
    BY <1>1, <1>2, <1>3, <2>1 DEF User, CreateCR, DeleteCR, DeleteObject, ToggleSecret, NewRelease
<1>4. CASE Kubernetes
  BY <1>1, <1>4 DEF Kubernetes, Collect, SyncObject, SyncCR, DelayOver, SyncSecret, clusterVars
<1>5. CASE Process
  BY <1>1, <1>5, VerdictOfFinish
  DEF Process, Begin, BeginFails, Acquire, Register, Unregister, TakeInstances, Proceed,
      DeleteBinding, DeleteRole, CreateOrUpdate, DeletePlanned, SetDeploymentDeleted,
      Validate, Tick, clusterVars
<1>6. CASE Restart \/ UNCHANGED vars
  BY <1>1, <1>6 DEF Restart, vars, clusterVars
<1> QED BY <1>3, <1>4, <1>5, <1>6 DEF Next

(* A Reconcile that read an older version of the resource never attaches   *)
(* its verdict to the present one.                                         *)
THEOREM StatusesDescribeSpecs == Spec => StatusDescribesSpec
<1>1. Inv /\ [Next]_vars =>
        [\A r \in Requests :
           cr[r] # NoCR /\ cr'[r] # NoCR
           /\ cr'[r].uid = cr[r].uid /\ cr'[r].status # cr[r].status
             => /\ cr'[r].spec = cr[r].spec
                /\ ~cr[r].spec.agentsOnly
                /\ \E found \in BOOLEAN :
                     cr'[r].status = IF Misconfigured(cr[r].spec, found)
                                     THEN "Misconfigured" ELSE "OK"]_vars
  BY VerdictOfNext DEF StatusIsVerdict
<1> QED BY <1>1, InvHolds, PTL DEF Spec, StatusDescribesSpec
=============================================================================
