------------------------ MODULE CreateOrUpdateProofs ------------------------
(***************************************************************************)
(* CreateOrUpdate, proved for every set of goroutines, every callback and  *)
(* every content: the copies it works on are never newer than the server   *)
(* and agree with it at its revision, and therefore every call is atomic.  *)
(* And what the callback of most of its calls, MergeSpecs, does to the     *)
(* object it is given.                                                     *)
(***************************************************************************)
EXTENDS CreateOrUpdate, MergedSpec, TLAPS

-----------------------------------------------------------------------------
(* The bound on the changes of the API server is a natural number, and so  *)
(* is every revision.                                                      *)
LEMMA VersionRevision ==
  ASSUME NEW v \in Version
  PROVE  v.revision \in Nat /\ v.content \in Content \cup {Absent}
BY RevisionAssumption DEF Version

(* A version the server accepts is a version, with the next revision. *)
LEMMA AcceptVersion ==
  ASSUME live \in Version, NEW content \in Content \cup {Absent},
         NEW call, Accept(content, call)
  PROVE  /\ live' \in Version
         /\ live'.revision = live.revision + 1
         /\ live'.content = content
BY RevisionAssumption, VersionRevision DEF Accept, Version

(* What the callback makes of an object, existing or not, is a content of  *)
(* an existing object.                                                     *)
LEMMA MutateContent ==
  ASSUME NEW call \in Calls, NEW c \in Content \cup {Absent}, NEW d \in MutateF(call, c)
  PROVE  d \in Content
BY MutateAssumption

-----------------------------------------------------------------------------
(* TypeOK is an invariant: the goroutines only hold versions the server    *)
(* has had, and only calls that were made.                                 *)
THEOREM TypeCorrect == Spec => []TypeOK
<1>1. Init => TypeOK
  BY RevisionAssumption DEF Init, TypeOK, Nothing, Version
<1>2. TypeOK /\ [Next]_vars => TypeOK'
  <2> SUFFICES ASSUME TypeOK, [Next]_vars PROVE TypeOK'
    OBVIOUS
  <2> USE DEF TypeOK
  <2>0. Nothing \in Version
    BY RevisionAssumption DEF Nothing, Version
  <2>1. ASSUME NEW t \in Threads, NEW call \in Calls, Get(t, call) PROVE TypeOK'
    BY <2>1 DEF Get
  <2>2. ASSUME NEW t \in Threads, Create(t) PROVE TypeOK'
    <3>1. PICK c \in MutateF(args[t], Absent) : Accept(c, args[t])
      BY <2>2 DEF Create
    <3>2. args[t] \in Calls
      BY <2>2 DEF Create
    <3>3. live' \in Version
      BY <3>1, <3>2, MutateContent, AcceptVersion
    <3> QED BY <2>0, <2>2, <3>1, <3>2, <3>3 DEF Create, Return, Accept
  <2>3. ASSUME NEW t \in Threads, Update(t) PROVE TypeOK'
    <3>1. PICK c \in MutateF(args[t], obj[t].content) : Accept(c, args[t])
      BY <2>3 DEF Update
    <3>2. args[t] \in Calls /\ obj[t].content \in Content \cup {Absent}
      BY <2>3, VersionRevision DEF Update
    <3>3. live' \in Version
      BY <3>1, <3>2, MutateContent, AcceptVersion
    <3> QED BY <2>0, <2>3, <3>1, <3>2, <3>3 DEF Update, Return, Accept
  <2>4. ASSUME NEW t \in Threads, Unchanged(t) PROVE TypeOK'
    BY <2>0, <2>4 DEF Unchanged, Return
  <2>5. ASSUME NEW t \in Threads, Fail(t) PROVE TypeOK'
    BY <2>0, <2>5 DEF Fail, Return
  <2>6. ASSUME NEW t \in Threads, DeleteObject(t) PROVE TypeOK'
    BY <2>6, AcceptVersion DEF DeleteObject, Accept
  <2>7. CASE InformerSync
    BY <2>7 DEF InformerSync
  <2>8. CASE ForeignWrite
    <3>1. PICK c \in Content : Accept(c, NoCall)
      BY <2>8 DEF ForeignWrite
    <3> QED BY <2>8, <3>1, AcceptVersion DEF ForeignWrite, Accept
  <2>9. CASE ForeignDelete
    BY <2>9, AcceptVersion DEF ForeignDelete, Accept
  <2>10. CASE UNCHANGED vars
    BY <2>10 DEF vars
  <2> QED BY <2>1, <2>2, <2>3, <2>4, <2>5, <2>6, <2>7, <2>8, <2>9, <2>10 DEF Next
<1> QED BY <1>1, <1>2, PTL DEF Spec

-----------------------------------------------------------------------------
(* One copy that may be stale: not newer than the server, and equal to it  *)
(* at its revision.  SnapshotsAgree says it of every copy there is.        *)
Agrees(s) ==
  /\ s.revision <= live.revision
  /\ s.revision = live.revision => s.content = live.content

(* A copy that agrees still does when the server accepts a change: its     *)
(* revision is now an old one.                                             *)
LEMMA AgreesAfterAccept ==
  ASSUME live \in Version, NEW content \in Content \cup {Absent}, NEW call,
         Accept(content, call), NEW s \in Version, Agrees(s)
  PROVE  Agrees(s)'
<1>1. live'.revision = live.revision + 1
  BY AcceptVersion
<1>2. s.revision \in Nat /\ live.revision \in Nat
  BY VersionRevision
<1> QED BY <1>1, <1>2 DEF Agrees

(* A goroutine outside the function holds Nothing, the version of an       *)
(* object that was never created: it must agree with the server as well.   *)
SnapshotInv ==
  /\ TypeOK
  /\ SnapshotsAgree
  /\ Agrees(Nothing)

(* Every copy agrees with the server, at every moment: the cache, and what *)
(* a goroutine read before it writes.                                      *)
THEOREM SnapshotsCorrect == Spec => []SnapshotsAgree
<1>1. Init => SnapshotInv
  <2> SUFFICES ASSUME Init PROVE SnapshotInv
    OBVIOUS
  <2>1. TypeOK
    BY RevisionAssumption DEF Init, TypeOK, Nothing, Version
  <2>2. \A s \in {cache} \cup {obj[t] : t \in Threads} : s = live
    BY DEF Init
  <2>3. live.revision <= live.revision /\ live = Nothing
    BY DEF Init, Nothing
  <2> QED BY <2>1, <2>2, <2>3 DEF SnapshotInv, SnapshotsAgree, Agrees
<1>2. TypeOK' /\ SnapshotInv /\ [Next]_vars => SnapshotInv'
  <2> SUFFICES ASSUME TypeOK', SnapshotInv, [Next]_vars PROVE SnapshotInv'
    OBVIOUS
  <2>a. /\ live \in Version /\ cache \in Version /\ Nothing \in Version
        /\ \A t \in Threads : obj[t] \in Version
        /\ obj \in [Threads -> Version]
    BY RevisionAssumption DEF SnapshotInv, TypeOK, Nothing, Version
  <2>b. /\ Agrees(cache) /\ Agrees(Nothing)
        /\ \A t \in Threads : Agrees(obj[t])
    BY DEF SnapshotInv, SnapshotsAgree, Agrees
  <2>c. SUFFICES /\ Agrees(cache)' /\ Agrees(Nothing)'
                 /\ \A t \in Threads : Agrees(obj[t])'
    BY DEF SnapshotInv, SnapshotsAgree, Agrees, Nothing
  <2>d. ASSUME NEW content \in Content \cup {Absent}, NEW call,
               Accept(content, call), cache' = cache,
               \A t \in Threads : obj'[t] \in {obj[t], Nothing}
        PROVE  /\ Agrees(cache)' /\ Agrees(Nothing)'
               /\ \A t \in Threads : Agrees(obj[t])'
    <3>1. \A s \in Version : Agrees(s) => Agrees(s)'
      BY <2>a, <2>d, AgreesAfterAccept
    <3> QED BY <2>a, <2>b, <2>d, <3>1 DEF Agrees, Nothing
  <2>e. ASSUME live' = live, cache' \in {cache, live},
               \A t \in Threads : obj'[t] \in {obj[t], cache, Nothing}
        PROVE  /\ Agrees(cache)' /\ Agrees(Nothing)'
               /\ \A t \in Threads : Agrees(obj[t])'
    <3>1. Agrees(live)
      BY <2>a, VersionRevision DEF Agrees
    <3> QED BY <2>b, <2>e, <3>1 DEF Agrees, Nothing
  <2>1. ASSUME NEW t \in Threads, NEW call \in Calls, Get(t, call)
        PROVE  /\ Agrees(cache)' /\ Agrees(Nothing)'
               /\ \A u \in Threads : Agrees(obj[u])'
    BY <2>1, <2>a, <2>e DEF Get
  <2>2. ASSUME NEW t \in Threads, Create(t)
        PROVE  /\ Agrees(cache)' /\ Agrees(Nothing)'
               /\ \A u \in Threads : Agrees(obj[u])'
    <3>1. PICK c \in MutateF(args[t], Absent) : Accept(c, args[t])
      BY <2>2 DEF Create
    <3>2. c \in Content
      BY <2>2, MutateContent DEF Create, SnapshotInv, TypeOK
    <3> QED BY <2>2, <2>a, <2>d, <3>1, <3>2 DEF Create, Return
  <2>3. ASSUME NEW t \in Threads, Update(t)
        PROVE  /\ Agrees(cache)' /\ Agrees(Nothing)'
               /\ \A u \in Threads : Agrees(obj[u])'
    <3>1. PICK c \in MutateF(args[t], obj[t].content) : Accept(c, args[t])
      BY <2>3 DEF Update
    <3>2. c \in Content
      BY <2>3, <2>a, MutateContent, VersionRevision DEF Update, SnapshotInv, TypeOK
    <3> QED BY <2>3, <2>a, <2>d, <3>1, <3>2 DEF Update, Return
  <2>4. ASSUME NEW t \in Threads, Unchanged(t) \/ Fail(t)
        PROVE  /\ Agrees(cache)' /\ Agrees(Nothing)'
               /\ \A u \in Threads : Agrees(obj[u])'
    BY <2>4, <2>a, <2>e DEF Unchanged, Fail, Return
  <2>5. CASE ForeignDelete \/ \E t \in Threads : DeleteObject(t)
    BY <2>5, <2>d DEF ForeignDelete, DeleteObject
  <2>6. CASE InformerSync
    BY <2>6, <2>e DEF InformerSync
  <2>7. CASE ForeignWrite
    BY <2>7, <2>d DEF ForeignWrite
  <2>8. CASE UNCHANGED vars
    BY <2>8, <2>e DEF vars
  <2> QED BY <2>1, <2>2, <2>3, <2>4, <2>5, <2>6, <2>7, <2>8 DEF Next
<1>3. SnapshotInv => SnapshotsAgree
  BY DEF SnapshotInv
<1> QED BY <1>1, <1>2, <1>3, TypeCorrect, PTL DEF Spec

-----------------------------------------------------------------------------
(* CreateOrUpdate implements ManagedObject: every call takes effect at     *)
(* once, on the object as it is at that moment, or changes nothing.  Only  *)
(* Update needs the invariant: its copy has the revision of the server,    *)
(* hence its content.                                                      *)
THEOREM CallsAreAtomic == Spec => AtomicObject
<1> USE DEF Atomic!vars
<1>1. Init => Atomic!Init
  BY DEF Init, Nothing, Atomic!Init
<1>2. TypeOK /\ SnapshotsAgree /\ [Next]_vars => [Atomic!Next]_Atomic!vars
  <2> SUFFICES ASSUME TypeOK, SnapshotsAgree, [Next]_vars
               PROVE  [Atomic!Next]_Atomic!vars
    OBVIOUS
  <2>a. live \in Version
    BY DEF TypeOK
  <2>1. ASSUME NEW t \in Threads, Create(t) PROVE \E call \in Calls : Atomic!Apply(call)
    <3>1. PICK c \in MutateF(args[t], Absent) : Accept(c, args[t])
      BY <2>1 DEF Create
    <3>2. args[t] \in Calls /\ live.content = Absent
      BY <2>1 DEF Create, Exists, TypeOK
    <3>3. live'.content = c /\ author' = args[t]
      BY <2>a, <3>1, <3>2, MutateContent, AcceptVersion DEF Accept
    <3> QED BY <3>1, <3>2, <3>3 DEF Atomic!Apply
  <2>2. ASSUME NEW t \in Threads, Update(t) PROVE \E call \in Calls : Atomic!Apply(call)
    <3>1. PICK c \in MutateF(args[t], obj[t].content) : Accept(c, args[t])
      BY <2>2 DEF Update
    <3>2. args[t] \in Calls /\ obj[t] \in Version
      BY <2>2 DEF Update, TypeOK
    <3>3. obj[t].content = live.content
      BY <2>2 DEF Update, SnapshotsAgree
    <3>4. live'.content = c /\ author' = args[t]
      BY <2>a, <3>1, <3>2, VersionRevision, MutateContent, AcceptVersion DEF Accept
    <3> QED BY <3>1, <3>2, <3>3, <3>4 DEF Atomic!Apply
  <2>3. CASE ForeignDelete \/ \E t \in Threads : DeleteObject(t)
    <3>1. Accept(Absent, NoCall)
      BY <2>3 DEF ForeignDelete, DeleteObject
    <3>2. live'.content = Absent /\ author' = NoCall
      BY <2>a, <3>1, AcceptVersion DEF Accept
    <3> QED BY <3>2 DEF Atomic!Delete, Atomic!Next
  <2>4. CASE ForeignWrite
    <3>1. PICK c \in Content : Accept(c, NoCall)
      BY <2>4 DEF ForeignWrite
    <3>2. live'.content = c /\ author' = NoCall
      BY <2>a, <3>1, AcceptVersion DEF Accept
    <3> QED BY <3>2 DEF Atomic!Foreign, Atomic!Next
  <2>5. ASSUME NEW t \in Threads,
               Unchanged(t) \/ Fail(t) \/ \E call \in Calls : Get(t, call)
        PROVE  UNCHANGED Atomic!vars
    BY <2>5 DEF Unchanged, Fail, Get
  <2>6. CASE InformerSync \/ UNCHANGED vars
    BY <2>6 DEF InformerSync, vars
  <2> QED BY <2>1, <2>2, <2>3, <2>4, <2>5, <2>6 DEF Next, Atomic!Next
<1> QED BY <1>1, <1>2, TypeCorrect, SnapshotsCorrect, PTL DEF Spec, Atomic!Spec, AtomicObject
-----------------------------------------------------------------------------
(* The callbacks that merge specs, on one object, for any fields and       *)
(* values.                                                                 *)

(* The three-way patch, applied, as a rule for each field: what is asked   *)
(* for is set, what was asked for last and is not any more is removed, and *)
(* anything else is as it was (MergeSpecs of utils.go).                    *)
THEOREM PatchIsOverlay ==
  ASSUME NEW original, NEW target, NEW current, NEW f \in Fields
  PROVE  Patched(current, ThreeWayPatch(original, target, current))[f] =
           IF target[f] # None THEN target[f]
           ELSE IF original[f] # None THEN None ELSE current[f]
<1> DEFINE patch == ThreeWayPatch(original, target, current)
<1>1. f \in DOMAIN patch <=>
        \/ target[f] # None /\ target[f] # current[f]
        \/ target[f] = None /\ original[f] # None
  BY DEF ThreeWayPatch
<1>2. f \in DOMAIN patch => patch[f] = target[f]
  BY DEF ThreeWayPatch
<1>3. Patched(current, patch)[f] = IF f \in DOMAIN patch THEN patch[f] ELSE current[f]
  BY DEF Patched
<1> QED
  BY <1>1, <1>2, <1>3

(* The three things an object is made of, after the callback.              *)
LEMMA CallbackIsRecord ==
  ASSUME NEW object, NEW target, NEW annotations, NEW kept, NEW replaced
  PROVE  LET merged == MergeSpecs(object, target, annotations)
         IN  Callback(object, target, annotations, kept, replaced) =
               [spec |-> [f \in Fields |-> IF f \in kept THEN object.spec[f]
                            ELSE IF f \in replaced THEN target[f] ELSE merged.spec[f]],
                annotations |-> merged.annotations,
                record |-> [readable |-> TRUE, annotations |-> annotations, spec |-> target]]
<1>1. MergeSpecs(object, target, annotations).record =
        [readable |-> TRUE, annotations |-> annotations, spec |-> target]
  BY DEF MergeSpecs
<1> QED
  BY <1>1 DEF Callback

(* The operator's own call, repeated, finds nothing to do: a callback that *)
(* meets the object it has written asks CreateOrUpdate for no update.      *)
THEOREM SecondCallIsQuiet ==
  ASSUME NEW object, NEW target, NEW annotations, NEW kept, NEW replaced,
         NEW once, once = Callback(object, target, annotations, kept, replaced)
  PROVE  Callback(once, target, annotations, kept, replaced) = once
<1> DEFINE merged == MergeSpecs(object, target, annotations)
           again == MergeSpecs(once, target, annotations)
           new == [readable |-> TRUE, annotations |-> annotations, spec |-> target]
           spec == [f \in Fields |-> IF f \in kept THEN object.spec[f]
                      ELSE IF f \in replaced THEN target[f] ELSE merged.spec[f]]
           spec2 == [f \in Fields |-> IF f \in kept THEN once.spec[f]
                       ELSE IF f \in replaced THEN target[f] ELSE again.spec[f]]
<1>1. once = [spec |-> spec, annotations |-> merged.annotations, record |-> new]
  BY CallbackIsRecord
<1>2. Callback(once, target, annotations, kept, replaced) =
        [spec |-> spec2, annotations |-> again.annotations, record |-> new]
  BY CallbackIsRecord
<1>3. /\ once.spec = spec /\ once.annotations = merged.annotations
      /\ once.record.annotations = annotations /\ once.record.spec = target
  <2> HIDE DEF spec, merged
  <2> QED
    BY <1>1
<1>4. again.annotations = merged.annotations
  <2>1. merged.annotations =
          MergedAnnotations(object.record.annotations, annotations, object.annotations)
    BY DEF MergeSpecs
  <2>2. again.annotations = MergedAnnotations(annotations, annotations, merged.annotations)
    BY <1>3 DEF MergeSpecs
  <2> QED
    BY <2>1, <2>2 DEF MergedAnnotations
<1>5. ASSUME NEW f \in Fields
      PROVE  spec2[f] = spec[f]
  <2>1. merged.spec[f] = IF target[f] # None THEN target[f]
          ELSE IF object.record.spec[f] # None THEN None ELSE object.spec[f]
    BY PatchIsOverlay DEF MergeSpecs
  <2>2. again.spec[f] = IF target[f] # None THEN target[f] ELSE once.spec[f]
    <3>1. again.spec = Patched(once.spec, ThreeWayPatch(target, target, once.spec))
      BY <1>3 DEF MergeSpecs
    <3> QED
      BY <3>1, PatchIsOverlay
  <2> HIDE DEF merged, again
  <2> QED
    BY <2>1, <2>2, <1>3
<1>6. spec2 = spec
  <2> HIDE DEF merged, again
  <2> QED
    BY <1>5
<1> QED
  BY <1>1, <1>2, <1>4, <1>6
=============================================================================
