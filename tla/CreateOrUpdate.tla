--------------------------- MODULE CreateOrUpdate ---------------------------
(***************************************************************************)
(* CorootReconciler.CreateOrUpdate, the one function through which the     *)
(* operator writes every object it manages, on ONE object (one kind,       *)
(* namespace and name).                                                    *)
(*                                                                         *)
(* The function calls controllerutil.CreateOrUpdate: a Get, answered by    *)
(* the informer cache of the manager's client; the callback, on the local  *)
(* copy; then a Create when the Get found nothing, nothing when the copy   *)
(* did not change, and otherwise an Update that carries the                *)
(* resourceVersion that was read.  Two goroutines of the process (the      *)
(* controller's worker and the hourly ticker) may be inside it for the     *)
(* same object at the same time.  Errors are logged and dropped.           *)
(*                                                                         *)
(* The callback is a parameter, as in the code: MutateF(call, c) is the    *)
(* set of contents the call may turn content c into (a set, because some   *)
(* callbacks draw random strings).                                         *)
(***************************************************************************)
EXTENDS Naturals

CONSTANTS
  Threads,         \* the goroutines that call CreateOrUpdate
  Calls,           \* the arguments they call it with
  Content,         \* what an existing object may contain
  Absent,          \* the content of an object that does not exist
  MutateF(_, _),   \* the callback
  NoCall,          \* what a goroutine outside the function is executing
  MaxRevision      \* bound: changes the API server makes to the object

ASSUME AbsentAssumption == Absent \notin Content
ASSUME NoCallAssumption == NoCall \notin Calls
ASSUME MutateAssumption ==
  \A call \in Calls, c \in Content \cup {Absent} : MutateF(call, c) \subseteq Content
ASSUME RevisionAssumption == MaxRevision \in Nat

VARIABLES
  live,            \* the object at the API server
  cache,           \* the object in the manager's informer cache
  pc,              \* pc[t]: where goroutine t is in CreateOrUpdate
  args,            \* args[t]: the call t is executing
  obj,             \* obj[t]: the local copy t's Get returned
  author           \* history: the call that changed the live object last,
                   \* NoCall after a deletion or another writer's change

vars == <<live, cache, pc, args, obj, author>>

(* A version of the object.  An object that does not exist keeps the       *)
(* revision of its deletion, which is what orders the cache's view of it.  *)
Version == [revision : 0 .. MaxRevision, content : Content \cup {Absent}]

TypeOK ==
  /\ live \in Version
  /\ cache \in Version
  /\ pc \in [Threads -> {"idle", "got"}]
  /\ args \in [Threads -> Calls \cup {NoCall}]
  /\ obj \in [Threads -> Version]
  /\ author \in Calls \cup {NoCall}
  /\ \A t \in Threads : pc[t] = "got" => args[t] \in Calls

-----------------------------------------------------------------------------
Nothing == [revision |-> 0, content |-> Absent]

Init ==
  /\ live = Nothing
  /\ cache = Nothing
  /\ pc = [t \in Threads |-> "idle"]
  /\ args = [t \in Threads |-> NoCall]
  /\ obj = [t \in Threads |-> Nothing]
  /\ author = NoCall

Exists(v) == v.content # Absent

(* The API server accepts a change: a new revision. *)
Accept(content, call) ==
  /\ live.revision < MaxRevision
  /\ live' = [revision |-> live.revision + 1, content |-> content]
  /\ author' = call

Return(t) ==
  /\ pc' = [pc EXCEPT ![t] = "idle"]
  /\ args' = [args EXCEPT ![t] = NoCall]
  /\ obj' = [obj EXCEPT ![t] = Nothing]

(* The Get of controllerutil.CreateOrUpdate: the cache answers. *)
Get(t, call) ==
  /\ pc[t] = "idle"
  /\ pc' = [pc EXCEPT ![t] = "got"]
  /\ args' = [args EXCEPT ![t] = call]
  /\ obj' = [obj EXCEPT ![t] = cache]
  /\ UNCHANGED <<live, cache, author>>

(* Nothing was found: the callback fills the object, and Create succeeds   *)
(* if the object does not exist at the server either.                      *)
Create(t) ==
  /\ pc[t] = "got"
  /\ ~Exists(obj[t])
  /\ ~Exists(live)
  /\ \E c \in MutateF(args[t], Absent) : Accept(c, args[t])
  /\ Return(t)
  /\ UNCHANGED cache

UpdateBlind(t) ==   \* mutant: without the resourceVersion
  /\ pc[t] = "got"
  /\ Exists(obj[t])
  /\ Exists(live)
  /\ \E c \in MutateF(args[t], obj[t].content) :
       c # obj[t].content /\ Accept(c, args[t])
  /\ Return(t)
  /\ UNCHANGED cache

(* The callback changed the copy: Update succeeds if the server still has  *)
(* the resourceVersion the copy was read at.                               *)
Update(t) ==
  /\ pc[t] = "got"
  /\ Exists(obj[t])
  /\ Exists(live)
  /\ live.revision = obj[t].revision
  /\ \E c \in MutateF(args[t], obj[t].content) :
       c # obj[t].content /\ Accept(c, args[t])
  /\ Return(t)
  /\ UNCHANGED cache

(* The callback left the copy as it was: no request is made. *)
Unchanged(t) ==
  /\ pc[t] = "got"
  /\ Exists(obj[t])
  /\ obj[t].content \in MutateF(args[t], obj[t].content)
  /\ Return(t)
  /\ UNCHANGED <<live, cache, author>>

FailOnSharedCopy(t) ==   \* mutant: the callback has changed the cache's own copy
  /\ pc[t] = "got"
  /\ Return(t)
  /\ \E c \in MutateF(args[t], cache.content) : cache' = [cache EXCEPT !.content = c]
  /\ UNCHANGED <<live, author>>

FailAndGoOn(t) ==   \* mutant: the error is logged and the function does not return
  /\ pc[t] = "got"
  /\ args' = [args EXCEPT ![t] = NoCall]
  /\ obj' = [obj EXCEPT ![t] = Nothing]
  /\ UNCHANGED <<live, cache, pc, author>>

(* AlreadyExists, Conflict, NotFound, a failing callback or any other      *)
(* error: it is logged, and the call returns with nothing written.         *)
Fail(t) ==
  /\ pc[t] = "got"
  /\ Return(t)
  /\ UNCHANGED <<live, cache, author>>

(* CreateOrUpdate with delete set: one unconditional Delete request. *)
DeleteObject(t) ==
  /\ pc[t] = "idle"
  /\ Exists(live)
  /\ Accept(Absent, NoCall)
  /\ UNCHANGED <<cache, pc, args, obj>>

(* The watch brings the cache up to the current version. *)
InformerSync ==
  /\ cache # live
  /\ cache' = live
  /\ UNCHANGED <<live, pc, args, obj, author>>

(* A user or another controller creates or changes the object. *)
ForeignWrite ==
  /\ \E c \in Content : c # live.content /\ Accept(c, NoCall)
  /\ UNCHANGED <<cache, pc, args, obj>>

(* A user or the garbage collector deletes the object. *)
ForeignDelete ==
  /\ Exists(live)
  /\ Accept(Absent, NoCall)
  /\ UNCHANGED <<cache, pc, args, obj>>

Next ==
  \/ \E t \in Threads :
       \/ \E call \in Calls : Get(t, call)
       \/ Create(t) \/ Update(t) \/ Unchanged(t) \/ Fail(t)
       \/ DeleteObject(t)
  \/ InformerSync \/ ForeignWrite \/ ForeignDelete

Spec == Init /\ [][Next]_vars

-----------------------------------------------------------------------------
(* No copy is newer than the server, and a copy (the cache's, or one a     *)
(* goroutine holds between its Get and its write) that carries the         *)
(* server's current resourceVersion has the server's current content: this *)
(* is what makes the version check of Update protect the writes of others. *)
SnapshotsAgree ==
  \A s \in {cache} \cup {obj[t] : t \in Threads} :
    /\ s.revision <= live.revision
    /\ s.revision = live.revision => s.content = live.content

(* Optimistic concurrency makes CreateOrUpdate atomic: whatever the cache, *)
(* the other goroutine and the other writers do between the Get and the    *)
(* write, the call acts on the object as it is, or does nothing.           *)
Atomic == INSTANCE ManagedObject WITH object <- live.content

AtomicObject == Atomic!Spec
=============================================================================
